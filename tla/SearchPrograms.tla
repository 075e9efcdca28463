--------------------------- MODULE SearchPrograms ---------------------------
(***************************************************************************)
(* The programs of look_for_job.cpp that search, merge and count in arrays *)
(* and strings.  Arrays count from 0, as in the code; a loop is a fold     *)
(* over the values its counter takes, or a recursion on its variables.     *)
(***************************************************************************)
EXTENDS Integers, Sequences, FiniteSets, SequencesExt, FiniteSetsExt
LOCAL INSTANCE Bitwise

CONSTANTS Num,     \* numbers in arrays, from 0 on
          MaxLen,  \* bound: the length of an array
          Bits     \* bound: bits of a number, 32 in the code

VARIABLES program, input, output
vars == <<program, input, output>>

At(s, i) == s[i + 1]
Put(s, i, x) == [s EXCEPT ![i + 1] = x]
Upto(m, n) == [j \in 1 .. n - m |-> m + j - 1]  \* the values m .. n - 1 of a counter
Sorted(s) == \A j \in 1 .. Len(s) - 1 : s[j] <= s[j + 1]

-----------------------------------------------------------------------------
(* Windows, sums of two and of three, pairs that cancel.                   *)

RECURSIVE Grow(_, _, _)
Grow(s, right, subStr) ==
  IF right < Len(s) /\ At(s, right) \notin subStr THEN Grow(s, right + 1, subStr \cup {At(s, right)})
  ELSE [right |-> right, subStr |-> subStr]

RECURSIVE LongestFrom(_, _, _, _, _)
LongestFrom(s, left, right, subStr, maxLength) ==
  LET g == Grow(s, right, subStr)
      longest == Max({maxLength, g.right - left})
  IN  IF left >= Len(s) THEN maxLength
      ELSE IF g.right = Len(s) THEN longest
      ELSE LongestFrom(s, left + 1, g.right, g.subStr \ {At(s, left)}, longest)

lengthOfLongestSubstring(s) == IF s = << >> THEN 0 ELSE LongestFrom(s, 0, 0, {}, 0)

twoSum(nums, target) ==
  LET n == Len(nums)
      pairs == FlattenSeq([a \in 1 .. n |-> [b \in 1 .. n - a |-> <<a - 1, a + b - 1>>]])
      hits == SelectSeq(pairs, LAMBDA p : At(nums, p[1]) + At(nums, p[2]) = target)
  IN  IF hits = << >> THEN << >> ELSE hits[1]

RECURSIVE TwoSumFrom(_, _, _, _)
TwoSumFrom(nums, target, i, hashtable) ==
  IF i = Len(nums) THEN << >>
  ELSE IF target - At(nums, i) \in DOMAIN hashtable THEN <<hashtable[target - At(nums, i)], i>>
  ELSE TwoSumFrom(nums, target, i + 1, (At(nums, i) :> i) @@ hashtable)

twoSum2(nums, target) == TwoSumFrom(nums, target, 0, << >>)

\* Moving l right, or r left, over equal numbers.
RECURSIVE SkipRight(_, _, _)
SkipRight(nums, l, r) == IF l < r /\ At(nums, l) = At(nums, l + 1) THEN SkipRight(nums, l + 1, r) ELSE l
RECURSIVE SkipLeft(_, _, _)
SkipLeft(nums, l, r) == IF l < r /\ At(nums, r) = At(nums, r - 1) THEN SkipLeft(nums, l, r - 1) ELSE r

RECURSIVE PairsFor(_, _, _, _, _)
PairsFor(nums, i, l, r, res) ==
  LET sum == At(nums, l) + At(nums, r)
      target == -At(nums, i)
  IN  IF l >= r THEN res
      ELSE IF sum = target
        THEN LET l2 == SkipRight(nums, l, r)
                 r2 == SkipLeft(nums, l2, r)
             IN  PairsFor(nums, i, l2 + 1, r2 - 1, Append(res, <<At(nums, i), At(nums, l), At(nums, r)>>))
      ELSE IF sum < target THEN PairsFor(nums, i, l + 1, r, res)
      ELSE PairsFor(nums, i, l, r - 1, res)

RECURSIVE ThreeSumFrom(_, _, _)
ThreeSumFrom(nums, i, res) ==
  IF i = Len(nums) \/ At(nums, i) > 0 THEN res
  ELSE ThreeSumFrom(nums, i + 1,
         IF i = 0 \/ At(nums, i) # At(nums, i - 1) THEN PairsFor(nums, i, i + 1, Len(nums) - 1, res) ELSE res)

threeSum(nums) == IF nums = << >> THEN << >> ELSE ThreeSumFrom(SortSeq(nums, <), 0, << >>)

removeDuplicates(S) ==
  FoldLeft(LAMBDA result, s : IF result = << >> \/ Last(result) # s THEN Append(result, s) ELSE Front(result),
           << >>, S)

\* MyQueue, which holds values: pop() tells by its value whether the number that
\* leaves the window is still queued.
pop(que, value) == IF que # << >> /\ value = Head(que) THEN Tail(que) ELSE que
push(que, value) == Append(SubSeq(que, 1, Max({0} \cup {n \in DOMAIN que : que[n] >= value})), value)

maxSlidingWindow(nums, k) ==
  LET first == FoldLeft(push, << >>, SubSeq(nums, 1, k))
      slide(w, i) == LET que == push(pop(w.que, At(nums, i - k)), At(nums, i))
                     IN  [que |-> que, result |-> Append(w.result, Head(que))]
  IN  FoldLeft(slide, [que |-> first, result |-> <<Head(first)>>], Upto(k, Len(nums))).result

-----------------------------------------------------------------------------
(* Sorted arrays: merging them, and searching by halves.                   *)

\* nums1 has room for m + n numbers, of which m are there.
merge(nums1, m, nums2, n) ==
  SortSeq(FoldLeft(LAMBDA a, i : Put(a, m + i, At(nums2, i)), nums1, Upto(0, n)), <)

RECURSIVE MergeUp(_, _, _, _, _, _, _)
MergeUp(nums1, m, nums2, n, p1, p2, sorted) ==
  IF p1 >= m /\ p2 >= n THEN sorted
  ELSE IF p1 < m /\ (p2 = n \/ At(nums1, p1) < At(nums2, p2))
    THEN MergeUp(nums1, m, nums2, n, p1 + 1, p2, Append(sorted, At(nums1, p1)))
    ELSE MergeUp(nums1, m, nums2, n, p1, p2 + 1, Append(sorted, At(nums2, p2)))

merge2(nums1, m, nums2, n) == MergeUp(nums1, m, nums2, n, 0, 0, << >>)

\* From the end, in place.
RECURSIVE MergeDown(_, _, _, _, _)
MergeDown(nums1, nums2, p1, p2, tail) ==
  IF p1 < 0 /\ p2 < 0 THEN nums1
  ELSE IF p1 # -1 /\ (p2 = -1 \/ At(nums1, p1) > At(nums2, p2))
    THEN MergeDown(Put(nums1, tail, At(nums1, p1)), nums2, p1 - 1, p2, tail - 1)
    ELSE MergeDown(Put(nums1, tail, At(nums2, p2)), nums2, p1, p2 - 1, tail - 1)

merge3(nums1, m, nums2, n) == MergeDown(nums1, nums2, m - 1, n - 1, m + n - 1)

\* Mutant: the loop ends when one place is left, which is never looked at.
RECURSIVE HalvesEarly(_, _, _, _)
HalvesEarly(nums, target, left, right) ==
  LET middle == left + (right - left) \div 2 IN
  IF left >= right THEN -1
  ELSE IF At(nums, middle) > target THEN HalvesEarly(nums, target, left, middle - 1)
  ELSE IF At(nums, middle) < target THEN HalvesEarly(nums, target, middle + 1, right)
  ELSE middle

\* The interval [left, right]; also searchRangeHelper and search_rang.
RECURSIVE Halves(_, _, _, _)
Halves(nums, target, left, right) ==
  LET middle == left + (right - left) \div 2 IN
  IF left > right THEN -1
  ELSE IF At(nums, middle) > target THEN Halves(nums, target, left, middle - 1)
  ELSE IF At(nums, middle) < target THEN Halves(nums, target, middle + 1, right)
  ELSE middle

search(nums, target) == Halves(nums, target, 0, Len(nums) - 1)

\* The interval [left, right).
RECURSIVE HalfOpen(_, _, _, _)
HalfOpen(nums, target, left, right) ==
  LET middle == left + (right - left) \div 2 IN
  IF left >= right THEN -1
  ELSE IF At(nums, middle) > target THEN HalfOpen(nums, target, left, middle)
  ELSE IF At(nums, middle) < target THEN HalfOpen(nums, target, middle + 1, right)
  ELSE middle

search2(nums, target) == HalfOpen(nums, target, 0, Len(nums))

\* The last place, going by step from i, that holds the target.
RECURSIVE SameFrom(_, _, _, _)
SameFrom(nums, target, i, step) ==
  IF i + step >= 0 /\ i + step < Len(nums) /\ At(nums, i + step) = target
  THEN SameFrom(nums, target, i + step, step) ELSE i

searchRange(nums, target) ==
  LET find == Halves(nums, target, 0, Len(nums) - 1)
  IN  IF find = -1 THEN <<-1, -1>> ELSE <<SameFrom(nums, target, find, -1), SameFrom(nums, target, find, 1)>>

searchFirst(nums, target) ==
  LET temp == Halves(nums, target, 0, Len(nums) - 1)
  IN  IF temp = -1 THEN -1 ELSE SameFrom(nums, target, temp, -1)

RECURSIVE RootBetween(_, _, _, _)
RootBetween(x, l, r, ans) ==
  LET mid == l + (r - l) \div 2 IN
  IF l > r THEN ans
  ELSE IF mid * mid <= x THEN RootBetween(x, mid + 1, r, mid)
  ELSE RootBetween(x, l, mid - 1, ans)

mySqrt(x) == RootBetween(x, 0, x, -1)

\* Sorted by their start; the order of equal starts is that of the input.
mergeIntervals(intervals) ==
  LET s == SortSeq(intervals, LAMBDA a, b : a.start < b.start)
  IN  IF s = << >> THEN << >>
      ELSE FoldLeft(LAMBDA result, x :
                      IF Last(result).end >= x.start
                      THEN [result EXCEPT ![Len(result)].end = Max({@, x.end})]
                      ELSE Append(result, x),
                    <<s[1]>>, Tail(s))

-----------------------------------------------------------------------------
(* Numbers that occur once, frequent words, decimal sums, a calculator.    *)

Bit(x, i) == (x \div 2^i) % 2

singleNumber(nums) == FoldLeft(LAMBDA ret, e : ret ^^ e, 0, nums)

foundOnceNumber(nums, k) ==
  LET cnt(i) == FoldLeft(LAMBDA c, num : c + Bit(num, i), 0, nums)
  IN  FoldLeft(LAMBDA res, i : res ^^ ((cnt(i) % k) * 2^i), 0, Upto(0, Bits))

singleNumbers(nums) ==
  LET ret == singleNumber(nums)
      div == CHOOSE i \in 0 .. Bits - 1 : Bit(ret, i) = 1 /\ \A j \in 0 .. i - 1 : Bit(ret, j) = 0
      a == singleNumber(SelectSeq(nums, LAMBDA n : Bit(n, div) = 1))
      b == singleNumber(SelectSeq(nums, LAMBDA n : Bit(n, div) = 0))
  IN  IF a > b THEN <<b, a>> ELSE <<a, b>>

Count(s, x) == Cardinality({j \in DOMAIN s : s[j] = x})

\* Words are numbers in their alphabetical order.
topKFrequent(words, k) ==
  LET CmpByValue(v, w) == Count(words, v) > Count(words, w) \/ (Count(words, v) = Count(words, w) /\ v < w)
      wordvec == SortSeq(SelectSeq(Upto(0, Max(Num) + 1), LAMBDA w : Count(words, w) > 0), CmpByValue)
  IN  SubSeq(wordvec, 1, Min({k, Len(wordvec)}))

\* Strings of digits; the first one pads the shorter with zeros on the left.
Zeros(n) == [j \in 1 .. n |-> 0]

solve(s, t) ==
  LET n == Max({Len(s), Len(t)})
      a == Zeros(n - Len(s)) \o s
      b == Zeros(n - Len(t)) \o t
      sum == FoldLeft(LAMBDA x, i :
                        LET tmp == At(a, i) + At(b, i) + x.carry
                        IN  [carry |-> IF tmp >= 10 THEN 1 ELSE 0,
                             s |-> Put(x.s, i, IF tmp >= 10 THEN tmp - 10 ELSE tmp)],
                      [carry |-> 0, s |-> a], Reverse(Upto(0, n)))
  IN  IF s = << >> THEN t ELSE IF t = << >> THEN s
      ELSE IF sum.carry = 1 THEN <<1>> \o sum.s ELSE sum.s

\* The second one adds from the front of the reversed strings.
add(x, y, r) == [ans |-> Append(r.ans, (x + y + r.d) % 10), d |-> (x + y + r.d) \div 10]

solve2(s, t) ==
  LET long == Reverse(IF Len(s) < Len(t) THEN t ELSE s)
      short == Reverse(IF Len(s) < Len(t) THEN s ELSE t)
      both == FoldLeft(LAMBDA r, i : add(At(long, i), At(short, i), r), [ans |-> << >>, d |-> 0], Upto(0, Len(short)))
      all == FoldLeft(LAMBDA r, i : add(At(long, i), 0, r), both, Upto(Len(short), Len(long)))
  IN  Reverse(IF all.d # 0 THEN Append(all.ans, 1) ELSE all.ans)

\* Characters of an expression.
DigitOf == [c \in {"0", "1", "2", "3"} |->
              CASE c = "0" -> 0 [] c = "1" -> 1 [] c = "2" -> 2 [] c = "3" -> 3]
Signs == {"+", "-", "*"}

\* The place behind the bracket that closes the count open ones.
RECURSIVE Closing(_, _, _)
Closing(s, i, count) ==
  IF count = 0 THEN i
  ELSE Closing(s, i + 1, CASE At(s, i) = "(" -> count + 1 [] At(s, i) = ")" -> count - 1 [] OTHER -> count)

\* calculate is the third solve(); Scan is its loop from i on.
RECURSIVE calculate(_), Scan(_, _, _, _, _)
calculate(s) == FoldLeft(+, 0, Scan(s, 0, << >>, "+", 0))
Scan(s, i, sum, sign, num) ==
  IF i >= Len(s) THEN sum
  ELSE LET c == At(s, i)
           close == Closing(s, i + 1, 1)
           n == CASE c \in DOMAIN DigitOf -> 10 * num + DigitOf[c]
                  [] c = "(" -> calculate(SubSeq(s, i + 2, close - 1))
                  [] OTHER -> num
           at == IF c = "(" THEN close - 1 ELSE i
           settled == CASE sign = "+" -> Append(sum, n)
                        [] sign = "-" -> Append(sum, -n)
                        [] sign = "*" -> [sum EXCEPT ![Len(sum)] = @ * n]
                        [] OTHER -> sum
       IN  IF at = Len(s) - 1 \/ At(s, at) \in Signs
           THEN Scan(s, at + 1, settled, At(s, at), 0)
           ELSE Scan(s, at + 1, sum, sign, n)

-----------------------------------------------------------------------------
(* The inputs a program is meant for.                                      *)

Arrays == SeqOf(Num, MaxLen)
SortedArrays == {s \in Arrays : Sorted(s)}
Distinct(s) == \A i, j \in DOMAIN s : s[i] = s[j] => i = j

\* Arrays in which `size` numbers occur once and all others k times.
OnceOthers(k, size) ==
  {s \in SeqOf(Num, 2 * k + size) :
     /\ s # << >> /\ \A x \in Range(s) : Count(s, x) \in {1, k}
     /\ Cardinality({x \in Range(s) : Count(s, x) = 1}) = size}

\* Expressions with the values that the usual precedence gives them.
Both(A, sign, C) ==
  {[text |-> a.text \o <<sign>> \o c.text,
    value |-> CASE sign = "+" -> a.value + c.value
                [] sign = "-" -> a.value - c.value
                [] sign = "*" -> a.value * c.value] : a \in A, c \in C}
Sums(T, U) == T \cup Both(T, "+", U) \cup Both(T, "-", U)
Numerals == {[text |-> <<"2">>, value |-> 2], [text |-> <<"1", "3">>, value |-> 13]}
Products == Numerals \cup Both(Numerals, "*", Numerals)
Bracketed(E) == {[text |-> <<"(">> \o e.text \o <<")">>, value |-> e.value] : e \in E}
Factors == Bracketed(Sums(Sums(Products, Numerals), Numerals))
Expressions ==
  LET terms == Factors \cup Both(Factors, "*", Numerals) \cup Both(Numerals, "*", Factors)
               \cup Bracketed(Both(Numerals, "-", Bracketed(Products)))
  IN  Sums(Products, Products) \cup Sums(terms, Numerals) \cup Both(Products, "-", terms)

\* Numbers from 0 on, taken as numbers around 0.
Shifted(s) == [j \in DOMAIN s |-> s[j] - 2]

Intervals == SeqOf({[start |-> a, end |-> b] : a, b \in 0 .. 3}, 3)

Input ==
  [program : {"lengthOfLongestSubstring", "removeDuplicates", "threeSum"}, s : Arrays, t : {0}]
    \cup [program : {"twoSum"}, s : Arrays, t : 0 .. 2 * Max(Num)]
    \cup {x \in [program : {"maxSlidingWindow"}, s : Arrays, t : 1 .. MaxLen] : x.t <= Len(x.s)}
    \cup [program : {"search"}, s : {s \in SortedArrays : Distinct(s)}, t : -1 .. Max(Num) + 1]
    \cup [program : {"searchRange"}, s : SortedArrays, t : -1 .. Max(Num) + 1]
    \cup [program : {"merge"}, s : SortedArrays, t : {t \in SeqOf(Num, 3) : Sorted(t)}]
    \cup [program : {"mySqrt"}, s : {<< >>}, t : 0 .. 101]
    \cup [program : {"mergeIntervals"}, s : {v \in Intervals : \A j \in DOMAIN v : v[j].start <= v[j].end}, t : {0}]
    \cup [program : {"singleNumber"}, s : OnceOthers(2, 1), t : {2}]
    \cup [program : {"singleNumber"}, s : OnceOthers(3, 1), t : {3}]
    \cup [program : {"singleNumbers"}, s : OnceOthers(2, 2), t : {0}]
    \cup [program : {"topKFrequent"}, s : Arrays, t : 1 .. 3]
    \cup [program : {"solve"}, s : SeqOf({0, 1, 5, 9}, 3), t : SeqOf({0, 4, 9}, 3)]
    \cup {[program |-> "calculate", s |-> e.text, t |-> e.value] : e \in Expressions}

Result(p, s, t) ==
  CASE p = "lengthOfLongestSubstring" -> lengthOfLongestSubstring(s)
    [] p = "removeDuplicates" -> removeDuplicates(s)
    [] p = "threeSum" -> threeSum(Shifted(s))
    [] p = "twoSum" -> <<twoSum(s, t), twoSum2(s, t)>>
    [] p = "maxSlidingWindow" -> maxSlidingWindow(s, t)
    [] p = "search" -> <<search(s, t), search2(s, t)>>
    [] p = "searchRange" -> <<searchRange(s, t), searchFirst(s, t)>>
    [] p = "merge" ->
         LET nums1 == s \o Zeros(Len(t))
         IN  <<merge(nums1, Len(s), t, Len(t)), merge2(nums1, Len(s), t, Len(t)), merge3(nums1, Len(s), t, Len(t))>>
    [] p = "mySqrt" -> mySqrt(t)
    [] p = "mergeIntervals" -> mergeIntervals(s)
    [] p = "singleNumber" -> <<IF t = 2 THEN singleNumber(s) ELSE foundOnceNumber(s, t), foundOnceNumber(s, t)>>
    [] p = "singleNumbers" -> singleNumbers(s)
    [] p = "topKFrequent" -> topKFrequent(s, t)
    [] p = "solve" -> <<solve(s, t), solve2(s, t)>>
    [] p = "calculate" -> calculate(s)

Init == \E x \in Input : program = x.program /\ input = <<x.s, x.t>> /\ output = << >>

Run ==
  /\ output = << >>
  /\ output' = <<Result(program, input[1], input[2])>>
  /\ UNCHANGED <<program, input>>

Next == Run
Spec == Init /\ [][Next]_vars

-----------------------------------------------------------------------------
(* What the programs promise.                                              *)

Value(s) == FoldLeft(LAMBDA x, d : 10 * x + d, 0, s)
Places(s, x) == {i \in 0 .. Len(s) - 1 : At(s, i) = x}

\* p names two places of s whose numbers add up to x, or nothing when none do.
AddsUp(s, x, p) ==
  IF p = << >> THEN \A i, j \in DOMAIN s : i < j => s[i] + s[j] # x
  ELSE p[1] < p[2] /\ At(s, p[1]) + At(s, p[2]) = x

\* What is left of s when neighbours that are equal are taken out, a pair at a time.
RECURSIVE Cancelled(_)
Cancelled(s) ==
  LET pairs == {j \in 1 .. Len(s) - 1 : s[j] = s[j + 1]}
  IN  IF pairs = {} THEN s
      ELSE LET j == Max(pairs) IN Cancelled(SubSeq(s, 1, j - 1) \o SubSeq(s, j + 2, Len(s)))

\* The points of intervals, with one more between any two neighbours.
Points(v) == UNION {2 * v[j].start .. 2 * v[j].end : j \in DOMAIN v}

IsMerge(s, t, r) ==
  /\ Sorted(r) /\ Len(r) = Len(s) + Len(t)
  /\ \A x \in Num : Count(r, x) = Count(s, x) + Count(t, x)

Right(p, s, t, r) ==
  CASE p = "lengthOfLongestSubstring" ->
         r = Max({0} \cup {j - i + 1 : <<i, j>> \in {x \in (DOMAIN s) \X (DOMAIN s) :
                             x[1] <= x[2] /\ Distinct(SubSeq(s, x[1], x[2]))}})
    [] p = "removeDuplicates" -> r = Cancelled(s)
    [] p = "threeSum" ->
         LET n == Shifted(s)
             triples == {<<n[i], n[j], n[k]>> : <<i, j, k>> \in
                           {x \in (DOMAIN n) \X (DOMAIN n) \X (DOMAIN n) :
                              Cardinality({x[1], x[2], x[3]}) = 3 /\ Sorted(<<n[x[1]], n[x[2]], n[x[3]]>>)}}
             zero == {x \in triples : x[1] + x[2] + x[3] = 0}
         IN  Range(r) = zero /\ Len(r) = Cardinality(zero)
    [] p = "twoSum" -> AddsUp(s, t, r[1]) /\ AddsUp(s, t, r[2])
    [] p = "maxSlidingWindow" ->
         r = [j \in 1 .. Len(s) - t + 1 |-> Max({s[n] : n \in j .. j + t - 1})]
    [] p = "search" -> \A k \in 1 .. 2 : IF Places(s, t) = {} THEN r[k] = -1 ELSE r[k] \in Places(s, t)
    [] p = "searchRange" ->
         LET in == Places(s, t)
         IN  r = IF in = {} THEN <<<<-1, -1>>, -1>> ELSE <<<<Min(in), Max(in)>>, Min(in)>>
    [] p = "merge" -> \A k \in 1 .. 3 : IsMerge(s, t, r[k])
    [] p = "mySqrt" -> r * r <= t /\ t < (r + 1) * (r + 1)
    [] p = "mergeIntervals" ->
         Points(r) = Points(s) /\ \A j \in 1 .. Len(r) - 1 : r[j].end < r[j + 1].start
    [] p = "singleNumber" -> \A k \in 1 .. 2 : Count(s, r[k]) = 1
    [] p = "singleNumbers" -> r[1] < r[2] /\ Count(s, r[1]) = 1 /\ Count(s, r[2]) = 1
    [] p = "topKFrequent" ->
         LET Before(v, w) == Count(s, v) > Count(s, w) \/ (Count(s, v) = Count(s, w) /\ v < w)
         IN  /\ Len(r) = Min({t, Cardinality(Range(s))})
             /\ \A j \in DOMAIN r : Cardinality({w \in Range(s) : Before(w, r[j])}) = j - 1 /\ r[j] \in Range(s)
    [] p = "solve" ->
         \A k \in 1 .. 2 : Value(r[k]) = Value(s) + Value(t) /\ \A j \in DOMAIN r[k] : r[k][j] \in 0 .. 9
    [] p = "calculate" -> r = t

\* Each search, merge, count and sum gives what an exhaustive look at its input
\* gives, at the boundaries too: empty arrays, one element, targets outside the
\* range, all equal, carries out of the top digit, brackets at the end.
SearchesAreRight == output # << >> => Right(program, input[1], input[2], output[1])
=============================================================================
