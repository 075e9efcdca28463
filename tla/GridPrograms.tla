---------------------------- MODULE GridPrograms ----------------------------
(***************************************************************************)
(* The programs of look_for_job.cpp that fill tables (dynamic programming) *)
(* or walk over matrices.  Indices count from 0, as in the code; a loop is *)
(* a fold over the values of its counters in their order, so that a cell   *)
(* read before it is filled has its initial value.                         *)
(***************************************************************************)
EXTENDS Integers, Sequences, FiniteSets, SequencesExt, FiniteSetsExt, Combinatorics

CONSTANTS Num,     \* numbers in arrays and matrices
          MaxLen,  \* bound: the length of an array
          MaxSide  \* bound: rows and columns of a matrix

VARIABLES program, input, output
vars == <<program, input, output>>

At(s, i) == s[i + 1]
Upto(m, n) == [j \in 1 .. n - m |-> m + j - 1]  \* the values m .. n - 1 of a counter
Downto(n, m) == Reverse(Upto(m, n + 1))         \* the values n .. m, going down

\* Two nested loops: i over the outer values, and for each i, j over inner[i].
Nested(outer, inner) ==
  FlattenSeq([k \in DOMAIN outer |-> [l \in DOMAIN inner[outer[k]] |-> <<outer[k], inner[outer[k]][l]>>]])
Rectangle(m, n) == Nested(m, [i \in Range(m) |-> n])

Table(m, n, x) == [c \in (0 .. m - 1) \X (0 .. n - 1) |-> x]

-----------------------------------------------------------------------------
(* Tables over one array.                                                  *)

\* The best of dp and the table itself, once dp[0] is set.
maxsumofSubarray(arr) ==
  FoldLeft(LAMBDA x, i : LET v == Max({x.dp + At(arr, i), At(arr, i)})
                         IN  [dp |-> v, result |-> Max({x.result, v})],
           [dp |-> At(arr, 0), result |-> At(arr, 0)], Upto(1, Len(arr))).result

lengthOfLIS(nums) ==
  LET n == Len(nums)
      one == [i \in 0 .. n - 1 |-> 1]
      row(dp, i) == FoldLeft(LAMBDA d, j : IF At(nums, i) > At(nums, j) THEN [d EXCEPT ![i] = Max({@, d[j] + 1})] ELSE d,
                             dp, Upto(0, i))
      filled == FoldLeft(LAMBDA x, i : LET d == row(x.dp, i) IN [dp |-> d, result |-> Max({x.result, d[i]})],
                         [dp |-> one, result |-> 1], Upto(1, n))
  IN  IF n <= 1 THEN n ELSE filled.result

\* The second one looks back from i - 1 and sets dp[i] once.
lengthOfLIS2(nums) ==
  LET n == Len(nums)
      cnt(dp, i) == FoldLeft(LAMBDA c, j : IF At(nums, j) < At(nums, i) THEN Max({c, dp[j] + 1}) ELSE c,
                             1, Downto(i - 1, 0))
      filled == FoldLeft(LAMBDA x, i : LET c == cnt(x.dp, i)
                                       IN  [dp |-> [x.dp EXCEPT ![i] = c], result |-> Max({x.result, c})],
                         [dp |-> [i \in 0 .. n - 1 |-> 1], result |-> 1], Upto(1, n))
  IN  IF n <= 1 THEN n ELSE filled.result

findLengthOfLCIS(nums) ==
  IF nums = << >> THEN 0
  ELSE FoldLeft(LAMBDA x, i :
                  LET v == IF At(nums, i + 1) > At(nums, i) THEN x.dp + 1 ELSE 1
                  IN  [dp |-> v, result |-> Max({x.result, v})],
                [dp |-> 1, result |-> 1], Upto(0, Len(nums) - 1)).result

maxWater(height) ==
  LET size == Len(height)
      maxLeft == FoldLeft(LAMBDA m, i : Append(m, Max({At(height, i), Last(m)})), <<At(height, 0)>>, Upto(1, size))
      maxRight == FoldLeft(LAMBDA m, i : <<Max({At(height, i), Head(m)})>> \o m,
                           <<At(height, size - 1)>>, Downto(size - 2, 0))
      count(i) == Min({At(maxLeft, i), At(maxRight, i)}) - At(height, i)
  IN  IF size <= 2 THEN 0
      ELSE FoldLeft(LAMBDA sum, i : IF count(i) > 0 THEN sum + count(i) ELSE sum, 0, Upto(0, size))

\* The second one looks to both sides of each inner column.
maxWater2(arr) ==
  LET higher(h, i) == IF At(arr, i) > h THEN At(arr, i) ELSE h
      rHeight(i) == FoldLeft(higher, At(arr, i), Upto(i + 1, Len(arr)))
      lHeight(i) == FoldLeft(higher, At(arr, i), Downto(i - 1, 0))
      h(i) == Min({lHeight(i), rHeight(i)}) - At(arr, i)
  IN  FoldLeft(LAMBDA sum, i : IF h(i) > 0 THEN sum + h(i) ELSE sum, 0, Upto(1, Len(arr) - 1))

-----------------------------------------------------------------------------
(* Palindromes: dp[i, j] says that the string from i to j is one.          *)

\* Mutant: i goes up, so that dp[i + 1, j - 1] is read before it is filled.
CellsUpwards(n) == Nested(Upto(0, n), [i \in 0 .. n - 1 |-> Upto(i, n)])

Cells(n) == Nested(Downto(n - 1, 0), [i \in 0 .. n - 1 |-> Upto(i, n)])

IsPalindrome(s, dp, i, j) == At(s, i) = At(s, j) /\ (j - i <= 1 \/ dp[i + 1, j - 1])

countSubstrings(s) ==
  FoldLeft(LAMBDA x, c : IF IsPalindrome(s, x.dp, c[1], c[2])
                         THEN [dp |-> [x.dp EXCEPT ![c] = TRUE], result |-> x.result + 1] ELSE x,
           [dp |-> Table(Len(s), Len(s), FALSE), result |-> 0], Cells(Len(s))).result

getLongestPalindrome(A, n) ==
  Len(FoldLeft(LAMBDA x, c :
                 LET sub == SubSeq(A, c[1] + 1, c[2] + 1)
                 IN  IF IsPalindrome(A, x.dp, c[1], c[2])
                     THEN [dp |-> [x.dp EXCEPT ![c] = TRUE], sub1 |-> IF Len(sub) > Len(x.sub1) THEN sub ELSE x.sub1]
                     ELSE x,
               [dp |-> Table(n, n, FALSE), sub1 |-> << >>], Cells(n)).sub1)

-----------------------------------------------------------------------------
(* Tables over two arrays.                                                 *)

\* Lengths of common runs that end before i and j; the longest, and where in A it ends.
CommonRuns(A, C) ==
  FoldLeft(LAMBDA x, c :
             LET v == IF At(A, c[1] - 1) = At(C, c[2] - 1) THEN x.dp[c[1] - 1, c[2] - 1] + 1 ELSE 0
             IN  [dp |-> [x.dp EXCEPT ![c] = v],
                  result |-> IF v > x.result THEN v ELSE x.result,
                  indx |-> IF v > x.result THEN c[1] - 1 ELSE x.indx],
           [dp |-> Table(Len(A) + 1, Len(C) + 1, 0), result |-> 0, indx |-> 0],
           Rectangle(Upto(1, Len(A) + 1), Upto(1, Len(C) + 1)))

findLength(A, C) == CommonRuns(A, C).result

\* The second one returns the run itself, A[indx - result + 1 .. indx].
findLength2(A, C) ==
  LET x == CommonRuns(A, C) IN SubSeq(A, x.indx - x.result + 2, x.indx + 1)

\* "-1" is returned when the strings have nothing in common.
NoCommon == <<-1>>

RECURSIVE TraceBack(_, _, _, _, _, _)
TraceBack(s1, s2, dp, n, m, s) ==
  IF n = 0 \/ m = 0 THEN Reverse(s)
  ELSE IF At(s1, n - 1) = At(s2, m - 1) THEN TraceBack(s1, s2, dp, n - 1, m - 1, Append(s, At(s1, n - 1)))
  ELSE IF dp[n, m - 1] > dp[n - 1, m] THEN TraceBack(s1, s2, dp, n, m - 1, s)
  ELSE TraceBack(s1, s2, dp, n - 1, m, s)

LCS(s1, s2) ==
  LET n == Len(s1)
      m == Len(s2)
      filled == FoldLeft(LAMBDA dp, c :
                           [dp EXCEPT ![c] = IF At(s1, c[1] - 1) = At(s2, c[2] - 1)
                                             THEN dp[c[1] - 1, c[2] - 1] + 1
                                             ELSE Max({dp[c[1] - 1, c[2]], dp[c[1], c[2] - 1]})],
                         Table(n + 1, m + 1, 0), Rectangle(Upto(1, n + 1), Upto(1, m + 1)))
      result == Max({filled[c] : c \in DOMAIN filled})
  IN  IF result = 0 THEN NoCommon ELSE TraceBack(s1, s2, filled, n, m, << >>)

-----------------------------------------------------------------------------
(* Matrices: a matrix is a table from <<row, column>> to a number.         *)

uniquePaths(m, n) ==
  FoldLeft(LAMBDA dp, c : [dp EXCEPT ![c] = dp[c[1] - 1, c[2]] + dp[c[1], c[2] - 1]],
           [c \in DOMAIN Table(m, n, 0) |-> IF c[1] = 0 \/ c[2] = 0 THEN 1 ELSE 0],
           Rectangle(Upto(1, m), Upto(1, n)))[m - 1, n - 1]

minPathSum(grid, cl, row) ==
  LET left == FoldLeft(LAMBDA dp, i : [dp EXCEPT ![i, 0] = dp[i - 1, 0] + grid[i, 0]],
                       [Table(cl, row, 0) EXCEPT ![0, 0] = grid[0, 0]], Upto(1, cl))
      top == FoldLeft(LAMBDA dp, i : [dp EXCEPT ![0, i] = dp[0, i - 1] + grid[0, i]], left, Upto(1, row))
  IN  FoldLeft(LAMBDA dp, c : [dp EXCEPT ![c] = Min({dp[c[1] - 1, c[2]], dp[c[1], c[2] - 1]}) + grid[c]],
               top, Rectangle(Upto(1, cl), Upto(1, row)))[cl - 1, row - 1]

\* dfs sinks the island of a cell, in the order up, down, left, right.
Neighbours(r, c) == <<<<r - 1, c>>, <<r + 1, c>>, <<r, c - 1>>, <<r, c + 1>>>>

RECURSIVE dfs(_, _)
dfs(grid, cell) ==
  FoldLeft(LAMBDA g, next : IF next \in DOMAIN g /\ g[next] = 1 THEN dfs(g, next) ELSE g,
           [grid EXCEPT ![cell] = 0], Neighbours(cell[1], cell[2]))

numIslands(grid, nr, nc) ==
  IF nr = 0 THEN 0
  ELSE FoldLeft(LAMBDA x, cell : IF x.grid[cell] = 1 THEN [num |-> x.num + 1, grid |-> dfs(x.grid, cell)] ELSE x,
                [num |-> 0, grid |-> grid], Rectangle(Upto(0, nr), Upto(0, nc))).num

\* The cells between the bounds, side by side, until two bounds cross.
RECURSIVE SpiralFrom(_, _, _, _, _)
SpiralFrom(u, d, l, r, ans) ==
  LET right == ans \o [k \in 1 .. r - l + 1 |-> <<u, l + k - 1>>]
      down == right \o [k \in 1 .. d - u |-> <<u + k, r>>]
      left == down \o [k \in 1 .. r - l |-> <<d, r - k>>]
      up == left \o [k \in 1 .. d - u - 1 |-> <<d - k, l>>]
  IN  IF u + 1 > d THEN right
      ELSE IF r - 1 < l THEN down
      ELSE IF d - 1 < u + 1 THEN left
      ELSE IF l + 1 > r - 1 THEN up
      ELSE SpiralFrom(u + 1, d - 1, l + 1, r - 1, up)

\* The cells in the order in which their numbers are put into the answer.
spiralOrder(rows, columns) == IF rows = 0 THEN << >> ELSE SpiralFrom(0, rows - 1, 0, columns - 1, << >>)

rotateMatrix(mat, n) ==
  FoldLeft(LAMBDA A, c : [A EXCEPT ![c[2], n - 1 - c[1]] = mat[c]], Table(n, n, 0), Rectangle(Upto(0, n), Upto(0, n)))

-----------------------------------------------------------------------------
(* The inputs a program is meant for: arrays, two strings, or a matrix of  *)
(* numbers with its sides.                                                 *)

Arrays == SeqOf(Num, MaxLen)
Strings == SeqOf({1, 2, 3}, 4)
Matrices(V, m, n) == [(0 .. m - 1) \X (0 .. n - 1) -> V]
Sides == 1 .. MaxSide
Numbered(m, n) == [c \in (0 .. m - 1) \X (0 .. n - 1) |-> n * c[1] + c[2]]

Input ==
  [program : {"lis", "palindromes"}, s : Arrays, t : {0}]
    \cup [program : {"subarray", "water"}, s : Arrays \ {<< >>}, t : {0}]
    \cup [program : {"common"}, s : Strings \ {<< >>}, t : Strings]
    \cup [program : {"uniquePaths", "spiralOrder"}, s : 1 .. 5, t : 1 .. 5]
    \cup UNION {[program : {"minPathSum"}, s : Matrices({0, 1, 3}, m, n), t : {<<m, n>>}] : m \in 1 .. 2, n \in Sides}
    \cup UNION {[program : {"numIslands"}, s : Matrices({0, 1}, m, n), t : {<<m, n>>}] : m, n \in Sides}
    \cup UNION {[program : {"rotateMatrix"}, s : {Numbered(n, n)}, t : {<<n, n>>}] : n \in 1 .. 5}

\* Numbers around 0 for the sums.
Shifted(s) == [j \in DOMAIN s |-> s[j] - 2]

Result(p, s, t) ==
  CASE p = "lis" -> <<lengthOfLIS(s), lengthOfLIS2(s), findLengthOfLCIS(s)>>
    [] p = "palindromes" -> <<countSubstrings(s), getLongestPalindrome(s, Len(s))>>
    [] p = "subarray" -> maxsumofSubarray(Shifted(s))
    [] p = "water" -> <<maxWater(s), maxWater2(s)>>
    [] p = "common" -> <<findLength(s, t), findLength2(s, t), LCS(s, t)>>
    [] p = "uniquePaths" -> uniquePaths(s, t)
    [] p = "spiralOrder" -> spiralOrder(s, t)
    [] p = "minPathSum" -> minPathSum(s, t[1], t[2])
    [] p = "numIslands" -> numIslands(s, t[1], t[2])
    [] p = "rotateMatrix" -> rotateMatrix(s, t[1])

Init == \E x \in Input : program = x.program /\ input = <<x.s, x.t>> /\ output = << >>

Run ==
  /\ output = << >>
  /\ output' = <<Result(program, input[1], input[2])>>
  /\ UNCHANGED <<program, input>>

Next == Run
Spec == Init /\ [][Next]_vars

-----------------------------------------------------------------------------
(* What the programs promise: an exhaustive look at all subsequences, all  *)
(* substrings, all paths.                                                  *)

Increasing(s) == \A j \in 1 .. Len(s) - 1 : s[j] < s[j + 1]
Picked(s, J) == SelectSeq([j \in DOMAIN s |-> <<j, s[j]>>], LAMBDA x : x[1] \in J)
Subsequences(s) == {[k \in 1 .. Cardinality(J) |-> Picked(s, J)[k][2]] : J \in SUBSET DOMAIN s}
Substrings(s) == {SubSeq(s, i, j) : i \in 1 .. Len(s) + 1, j \in 0 .. Len(s)}
Longest(S) == Max({Len(x) : x \in S})

\* The cells of the path that goes down at the steps in D and right at the others.
PathCells(D, steps) ==
  {<<Cardinality({x \in D : x <= k}), Cardinality((1 .. k) \ D)>> : k \in 0 .. steps}

\* Land cells that can be reached from c.
RECURSIVE Spread(_, _)
Spread(land, S) ==
  LET more == {c \in land : \E x \in S : c \in Range(Neighbours(x[1], x[2]))} \cup S
  IN  IF more = S THEN S ELSE Spread(land, more)

\* r visits every cell once; it goes straight on while it can and else turns right.
IsSpiral(r, rows, columns) ==
  LET cells == (0 .. rows - 1) \X (0 .. columns - 1)
      step(k) == IF k = 0 THEN <<0, 1>> ELSE <<r[k + 1][1] - r[k][1], r[k + 1][2] - r[k][2]>>
      free(k) == cells \ {r[j] : j \in 1 .. k}
      straight(k) == <<r[k][1] + step(k - 1)[1], r[k][2] + step(k - 1)[2]>>
      turned(k) == <<step(k - 1)[2], -step(k - 1)[1]>>
  IN  /\ Len(r) = rows * columns /\ Range(r) = cells /\ r[1] = <<0, 0>>
      /\ \A k \in 1 .. Len(r) - 1 : step(k) = IF straight(k) \in free(k) THEN step(k - 1) ELSE turned(k)

Right(p, s, t, r) ==
  CASE p = "lis" ->
         LET runs == {x \in Substrings(s) : Increasing(x)}
             subs == {x \in Subsequences(s) : Increasing(x)}
         IN  r = <<Longest(subs), Longest(subs), Longest(runs)>>
    [] p = "palindromes" ->
         LET found == {x \in (1 .. Len(s)) \X (1 .. Len(s)) :
                         x[1] <= x[2] /\ SubSeq(s, x[1], x[2]) = Reverse(SubSeq(s, x[1], x[2]))}
         IN  r = <<Cardinality(found), Max({0} \cup {x[2] - x[1] + 1 : x \in found})>>
    [] p = "subarray" -> r = Max({FoldLeft(+, 0, x) : x \in Substrings(Shifted(s)) \ {<< >>}})
    [] p = "water" ->
         LET full == {x \in (DOMAIN s) \X (1 .. Max(Num)) :
                        /\ x[2] > s[x[1]]
                        /\ \E j \in 1 .. x[1] : s[j] >= x[2]
                        /\ \E j \in x[1] .. Len(s) : s[j] >= x[2]}
         IN  r = <<Cardinality(full), Cardinality(full)>>
    [] p = "common" ->
         LET runs == Substrings(s) \cap Substrings(t)
             subs == Subsequences(s) \cap Subsequences(t)
         IN  /\ r[1] = Longest(runs) /\ Len(r[2]) = Longest(runs) /\ r[2] \in runs
             /\ IF Longest(subs) = 0 THEN r[3] = NoCommon ELSE r[3] \in subs /\ Len(r[3]) = Longest(subs)
    [] p = "uniquePaths" -> r = choose(s + t - 2, s - 1)
    [] p = "spiralOrder" -> IsSpiral(r, s, t)
    [] p = "minPathSum" ->
         LET steps == t[1] + t[2] - 2
             downs == {D \in SUBSET (1 .. steps) : Cardinality(D) = t[1] - 1}
         IN  r = Min({MapThenSumSet(LAMBDA c : s[c], PathCells(D, steps)) : D \in downs})
    [] p = "numIslands" ->
         LET land == {c \in DOMAIN s : s[c] = 1} IN r = Cardinality({Spread(land, {c}) : c \in land})
    [] p = "rotateMatrix" -> \A c \in DOMAIN s : r[c] = s[t[1] - 1 - c[2], c[1]]

\* Each table and each walk gives what an exhaustive look at all subsequences,
\* substrings, paths or cells gives: no cell is read before it is filled, no
\* bound is off by one, whatever the sides of the matrix.
GridsAreRight == output # << >> => Right(program, input[1], input[2], output[1])
=============================================================================
