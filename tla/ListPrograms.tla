---------------------------- MODULE ListPrograms ----------------------------
(***************************************************************************)
(* The programs on linked lists of look_for_job.cpp.  A heap maps the      *)
(* address of each allocated ListNode to its value and its next node; a    *)
(* program walks through it pointer by pointer.  A deleted node leaves the *)
(* heap, so that nothing can be read from it.                              *)
(***************************************************************************)
EXTENDS Naturals, Sequences, FiniteSets, SequencesExt, FiniteSetsExt

CONSTANTS Val,    \* values of nodes
          MaxLen  \* bound: the length of a list

VARIABLES program, input, output
vars == <<program, input, output>>

nullptr == 0
Dummy == MaxLen + 1  \* the address of the node that a program puts before the head

\* The list of values s in the nodes 1 .. Len(s), the last one pointing to `last`.
Chain(s, last) ==
  [p \in DOMAIN s |-> [val |-> s[p], next |-> IF p < Len(s) THEN p + 1 ELSE last]]

HeadOf(s) == IF s = << >> THEN nullptr ELSE 1

With(h, p, v, n) == [q \in DOMAIN h \cup {p} |-> IF q = p THEN [val |-> v, next |-> n] ELSE h[q]]
SetNext(h, p, n) == [h EXCEPT ![p].next = n]
Delete(h, p) == [q \in DOMAIN h \ {p} |-> h[q]]

\* The node n steps after p.
RECURSIVE Ahead(_, _, _)
Ahead(h, p, n) == IF n = 0 THEN p ELSE Ahead(h, h[p].next, n - 1)

\* The nodes from p on, of a list without a cycle.
RECURSIVE Walk(_, _)
Walk(h, p) == IF p = nullptr THEN << >> ELSE <<p>> \o Walk(h, h[p].next)

-----------------------------------------------------------------------------
(* removeElements, deleteDuplicates and removeNthFromEnd.                  *)

\* Mutant: cur moves on after a removal as well.
RECURSIVE RemoveAndSkip(_, _, _)
RemoveAndSkip(h, cur, v) ==
  LET n == h[cur].next IN
  IF n = nullptr THEN h
  ELSE IF h[n].val # v THEN RemoveAndSkip(h, n, v)
  ELSE LET m == Delete(SetNext(h, cur, h[n].next), n)
       IN  IF h[n].next = nullptr THEN m ELSE RemoveAndSkip(m, h[n].next, v)

RECURSIVE RemoveFrom(_, _, _)
RemoveFrom(h, cur, v) ==
  LET n == h[cur].next IN
  IF n = nullptr THEN h
  ELSE IF h[n].val = v THEN RemoveFrom(Delete(SetNext(h, cur, h[n].next), n), cur, v)
  ELSE RemoveFrom(h, n, v)

removeElements(h, head, v) ==
  LET m == RemoveFrom(With(h, Dummy, 1, head), Dummy, v)
  IN  [head |-> m[Dummy].next, heap |-> Delete(m, Dummy)]

\* The first node from p on whose value is not x.
RECURSIVE SkipValue(_, _, _)
SkipValue(h, p, x) == IF p # nullptr /\ h[p].val = x THEN SkipValue(h, h[p].next, x) ELSE p

RECURSIVE UnlinkRuns(_, _)
UnlinkRuns(h, cur) ==
  LET n == h[cur].next IN
  IF n = nullptr \/ h[n].next = nullptr THEN h
  ELSE IF h[n].val = h[h[n].next].val
    THEN UnlinkRuns(SetNext(h, cur, SkipValue(h, n, h[n].val)), cur)
    ELSE UnlinkRuns(h, n)

deleteDuplicates(h, head) ==
  IF head = nullptr THEN [head |-> nullptr, heap |-> h]
  ELSE LET m == UnlinkRuns(With(h, Dummy, 0, head), Dummy) IN [head |-> m[Dummy].next, heap |-> m]

\* The node behind slow once the node behind fast is nullptr.
RECURSIVE SlowAtEnd(_, _, _)
SlowAtEnd(h, fast, slow) ==
  IF h[fast].next = nullptr THEN slow ELSE SlowAtEnd(h, h[fast].next, h[slow].next)

removeNthFromEnd(h, head, n) ==
  LET d == With(h, Dummy, 1, head)
      slow == SlowAtEnd(d, Ahead(d, Dummy, n), Dummy)
      m == SetNext(d, slow, d[d[slow].next].next)
  IN  [head |-> m[Dummy].next, heap |-> Delete(m, Dummy)]

\* The second one starts fast at the head, and runs it to nullptr.
RECURSIVE SecondAtEnd(_, _, _)
SecondAtEnd(h, first, second) ==
  IF first = nullptr THEN second ELSE SecondAtEnd(h, h[first].next, h[second].next)

removeNthFromEnd2(h, head, n) ==
  LET d == With(h, Dummy, 0, head)
      second == SecondAtEnd(d, Ahead(d, head, n), Dummy)
      m == SetNext(d, second, d[d[second].next].next)
  IN  [head |-> m[Dummy].next, heap |-> Delete(m, Dummy)]

-----------------------------------------------------------------------------
(* reverseList, reverseKGroup (twice), swapPairs, sortInList and Merge.    *)

\* The links from cur up to end turned round, behind pre.
RECURSIVE Reversed(_, _, _, _)
Reversed(h, pre, cur, end) ==
  IF cur = end THEN [head |-> pre, heap |-> h]
  ELSE Reversed(SetNext(h, cur, pre), cur, h[cur].next, end)

reverseList(h, head) == Reversed(h, nullptr, head, nullptr)

RECURSIVE IsFull(_, _, _)
IsFull(h, p, k) == k = 0 \/ (p # nullptr /\ IsFull(h, h[p].next, k - 1))

\* reverse(head, node) links the group to node, which head->next then replaces.
RECURSIVE reverseKGroup(_, _, _)
reverseKGroup(h, head, k) ==
  IF ~IsFull(h, head, k) THEN [head |-> head, heap |-> h]
  ELSE LET node == Ahead(h, head, k)
           group == Reversed(h, node, head, node)
           rest == reverseKGroup(group.heap, node, k)
       IN  [head |-> group.head, heap |-> SetNext(rest.heap, head, rest.head)]

\* The second one turns k links round, behind nullptr.
RECURSIVE reverseKGroup2(_, _, _)
reverseKGroup2(h, head, k) ==
  IF ~IsFull(h, head, k) THEN [head |-> head, heap |-> h]
  ELSE LET next == Ahead(h, head, k)
           group == Reversed(h, nullptr, head, next)
           rest == reverseKGroup2(group.heap, next, k)
       IN  [head |-> group.head, heap |-> SetNext(rest.heap, head, rest.head)]

RECURSIVE SwapFrom(_, _)
SwapFrom(h, cur) ==
  LET a == h[cur].next IN
  IF a = nullptr \/ h[a].next = nullptr THEN h
  ELSE LET b == h[a].next
       IN  SwapFrom(SetNext(SetNext(SetNext(h, cur, b), b, a), a, h[b].next), a)

swapPairs(h, head) ==
  LET m == SwapFrom(With(h, Dummy, 0, head), Dummy) IN [head |-> m[Dummy].next, heap |-> m]

\* The values are sorted, the nodes stay.
sortInList(h, head) ==
  LET nodes == Walk(h, head)
      temp == SortSeq([j \in DOMAIN nodes |-> h[nodes[j]].val], <)
  IN  [head |-> head,
       heap |-> [p \in DOMAIN h |-> [h[p] EXCEPT !.val = temp[CHOOSE j \in DOMAIN nodes : nodes[j] = p]]]]

RECURSIVE Merge(_, _, _)
Merge(h, p1, p2) ==
  IF p1 = nullptr THEN [head |-> p2, heap |-> h]
  ELSE IF p2 = nullptr THEN [head |-> p1, heap |-> h]
  ELSE LET first == IF h[p1].val < h[p2].val THEN p1 ELSE p2
           rest == IF first = p1 THEN Merge(h, h[p1].next, p2) ELSE Merge(h, p1, h[p2].next)
       IN  [head |-> first, heap |-> SetNext(rest.heap, first, rest.head)]

-----------------------------------------------------------------------------
(* getIntersectionNode, hasCycle (twice) and EntryNodeOfLoop (twice).      *)

RECURSIVE Common(_, _, _)
Common(h, cur1, cur2) ==
  IF cur1 = nullptr THEN nullptr
  ELSE IF cur1 = cur2 THEN cur1
  ELSE Common(h, h[cur1].next, h[cur2].next)

getIntersectionNode(h, a, b) ==
  LET len1 == Len(Walk(h, a))
      len2 == Len(Walk(h, b))
  IN  IF len1 > len2 THEN Common(h, Ahead(h, a, len1 - len2), b)
                     ELSE Common(h, a, Ahead(h, b, len2 - len1))

\* A node that was passed points to itself.
RECURSIVE hasCycle(_, _)
hasCycle(h, p) ==
  p # nullptr /\ (h[p].next = p \/ hasCycle(SetNext(h, p, p), h[p].next))

RECURSIVE Catches(_, _, _)
Catches(h, fast, slow) ==
  /\ h[fast].next # nullptr
  /\ h[h[fast].next].next # nullptr
  /\ LET f == h[h[fast].next].next
         s == h[slow].next
     IN  f = s \/ Catches(h, f, s)

hasCycle2(h, head) == head # nullptr /\ h[head].next # nullptr /\ Catches(h, head, head)

RECURSIVE FirstRepeated(_, _, _)
FirstRepeated(h, p, nodes) ==
  IF p = nullptr \/ p \in nodes THEN p ELSE FirstRepeated(h, h[p].next, nodes \cup {p})

EntryNodeOfLoop(h, head) == FirstRepeated(h, head, {})

\* Where two pointers meet that move one step at a time.
RECURSIVE MeetInStep(_, _, _)
MeetInStep(h, slow, fast) ==
  IF slow = fast THEN slow ELSE MeetInStep(h, h[slow].next, h[fast].next)

RECURSIVE Chase(_, _, _, _)
Chase(h, head, fast, slow) ==
  IF fast = nullptr \/ h[fast].next = nullptr THEN nullptr
  ELSE LET f == h[h[fast].next].next
           s == h[slow].next
       IN  IF f = s THEN MeetInStep(h, s, head) ELSE Chase(h, head, f, s)

EntryNodeOfLoop2(h, head) == IF head = nullptr THEN nullptr ELSE Chase(h, head, head, head)

-----------------------------------------------------------------------------
(* The queue of two stacks; the top of a stack is the head of its sequence. *)

push(q, node) == [q EXCEPT !.stack1 = <<node>> \o @]

pop(q) ==
  LET full == IF q.stack2 = << >> THEN [q EXCEPT !.stack2 = Reverse(q.stack1), !.stack1 = << >>] ELSE q
  IN  [full EXCEPT !.stack2 = Tail(@), !.popped = Append(@, Head(full.stack2))]

\* A sequence of calls: a value is pushed, 0 is a pop.
RECURSIVE Calls(_, _)
Calls(q, s) ==
  IF s = << >> THEN q.popped ELSE Calls(IF Head(s) = 0 THEN pop(q) ELSE push(q, Head(s)), Tail(s))

-----------------------------------------------------------------------------
(* The inputs: a list s; where a program asks for more, a number n, or a   *)
(* second list behind the first in memory.  The queue is never popped when *)
(* it is empty.                                                            *)

Lists == SeqOf(Val, MaxLen)
Sorted(s) == \A j \in 1 .. Len(s) - 1 : s[j] <= s[j + 1]

\* Two lists of a and b nodes of their own, and c nodes they share.
Forked(a, b, c) ==
  [p \in 1 .. a + b + c |->
     [val  |-> 0,
      next |-> IF p = a THEN IF c = 0 THEN nullptr ELSE a + b + 1
               ELSE IF p = a + b THEN IF c = 0 THEN nullptr ELSE a + b + 1
               ELSE IF p = a + b + c THEN nullptr ELSE p + 1]]
HeadA(a, b, c) == IF a > 0 THEN 1 ELSE IF c > 0 THEN a + b + 1 ELSE nullptr
HeadB(a, b, c) == IF b > 0 THEN a + 1 ELSE IF c > 0 THEN a + b + 1 ELSE nullptr

TwoLists(s, t) ==
  [p \in 1 .. Len(s) + Len(t) |->
     IF p <= Len(s) THEN Chain(s, nullptr)[p]
     ELSE LET c == Chain(t, nullptr)[p - Len(s)]
          IN  [c EXCEPT !.next = IF @ = nullptr THEN nullptr ELSE @ + Len(s)]]

Pushed(s) == SelectSeq(s, LAMBDA v : v # 0)
Pops(s) == Len(s) - Len(Pushed(s))
CallSequences ==
  {s \in SeqOf({0} \cup Val, MaxLen + 1) :
     \A j \in DOMAIN s : 2 * Pops(SubSeq(s, 1, j)) <= j}

Input ==
  [program : {"reverseList", "sortInList", "swapPairs"}, s : Lists, n : {0}]
    \cup [program : {"deleteDuplicates"}, s : {s \in Lists : Sorted(s)}, n : {0}]
    \cup [program : {"queue"}, s : CallSequences, n : {0}]
    \cup [program : {"removeElements"}, s : Lists, n : Val]
    \cup UNION {[program : {"removeNthFromEnd", "removeNthFromEnd2"}, s : {s}, n : 1 .. Len(s)] : s \in Lists}
    \cup [program : {"reverseKGroup", "reverseKGroup2"}, s : Lists, n : 1 .. MaxLen]
    \cup UNION {[program : {"cycles"}, s : {s}, n : 0 .. Len(s)] : s \in Lists}
    \cup [program : {"Merge"}, s : {s \in Lists : Sorted(s)}, n : {t \in SeqOf(Val, 3) : Sorted(t)}]
    \cup [program : {"getIntersectionNode"}, s : {<<a, b>> : a, b \in 0 .. MaxLen}, n : 0 .. 2]

Result(p, s, n) ==
  LET h == Chain(s, nullptr)
      head == HeadOf(s)
  IN  CASE p = "removeElements" -> removeElements(h, head, n)
        [] p = "deleteDuplicates" -> deleteDuplicates(h, head)
        [] p = "removeNthFromEnd" -> removeNthFromEnd(h, head, n)
        [] p = "removeNthFromEnd2" -> removeNthFromEnd2(h, head, n)
        [] p = "reverseList" -> reverseList(h, head)
        [] p = "reverseKGroup" -> reverseKGroup(h, head, n)
        [] p = "reverseKGroup2" -> reverseKGroup2(h, head, n)
        [] p = "swapPairs" -> swapPairs(h, head)
        [] p = "sortInList" -> sortInList(h, head)
        [] p = "Merge" -> Merge(TwoLists(s, n), head, IF n = << >> THEN nullptr ELSE Len(s) + 1)
        [] p = "getIntersectionNode" ->
             getIntersectionNode(Forked(s[1], s[2], n), HeadA(s[1], s[2], n), HeadB(s[1], s[2], n))
        [] p = "queue" -> Calls([stack1 |-> << >>, stack2 |-> << >>, popped |-> << >>], s)
        [] p = "cycles" ->
             LET c == Chain(s, n)
             IN  <<hasCycle(c, head), hasCycle2(c, head),
                   EntryNodeOfLoop(c, head), EntryNodeOfLoop2(c, head)>>

Init == \E i \in Input : program = i.program /\ input = <<i.s, i.n>> /\ output = << >>

Run ==
  /\ output = << >>
  /\ output' = <<Result(program, input[1], input[2])>>
  /\ UNCHANGED <<program, input>>

Next == Run
Spec == Init /\ [][Next]_vars

-----------------------------------------------------------------------------
(* What the programs promise, in terms of node addresses.                  *)

\* The nodes of the input that satisfy a predicate, in order, are Kept.
Nodes(s) == [j \in 1 .. Len(s) |-> j]
Kept(s, drop) == SelectSeq(Nodes(s), LAMBDA j : j \notin drop)

\* Nodes in groups of k, each full one reversed.
Grouped(s, k) ==
  [j \in 1 .. Len(s) |->
     LET g == (j - 1) \div k IN IF (g + 1) * k <= Len(s) THEN (2 * g + 1) * k + 1 - j ELSE j]

Right(p, s, n, r) ==
  CASE p = "removeElements" ->
         /\ Walk(r.heap, r.head) = Kept(s, {j \in DOMAIN s : s[j] = n})
         /\ DOMAIN r.heap = {j \in DOMAIN s : s[j] # n}
    [] p = "deleteDuplicates" ->
         Walk(r.heap, r.head) = Kept(s, {j \in DOMAIN s : \E k \in DOMAIN s \ {j} : s[k] = s[j]})
    [] p \in {"removeNthFromEnd", "removeNthFromEnd2"} ->
         Walk(r.heap, r.head) = Kept(s, {Len(s) + 1 - n})
    [] p = "reverseList" -> Walk(r.heap, r.head) = Reverse(Nodes(s))
    [] p \in {"reverseKGroup", "reverseKGroup2"} -> Walk(r.heap, r.head) = Grouped(s, n)
    [] p = "swapPairs" -> Walk(r.heap, r.head) = Grouped(s, 2)
    [] p = "sortInList" ->
         LET t == [j \in DOMAIN s |-> r.heap[j].val]
         IN  /\ Walk(r.heap, r.head) = Nodes(s)
             /\ Sorted(t)
             /\ \A v \in Val : Cardinality({j \in DOMAIN s : s[j] = v}) = Cardinality({j \in DOMAIN t : t[j] = v})
    [] p = "Merge" ->
         LET w == Walk(r.heap, r.head)
         IN  /\ Len(w) = Len(s) + Len(n)
             /\ Range(w) = 1 .. Len(s) + Len(n)
             /\ Sorted([j \in DOMAIN w |-> r.heap[w[j]].val])
    [] p = "getIntersectionNode" -> r = IF n = 0 THEN nullptr ELSE s[1] + s[2] + 1
    [] p = "queue" -> r = SubSeq(Pushed(s), 1, Pops(s))
    [] p = "cycles" -> r = <<n # nullptr, n # nullptr, n, n>>

\* Each program on linked lists leaves exactly the list its name promises: the
\* right nodes, not only equal values, in the right order, none lost and none
\* shared, whatever the length and wherever the cycle; what it deletes it does
\* not touch again.  The queue of two stacks gives the values out in the order
\* they came in.
ListsAreRight == output # << >> => Right(program, input[1], input[2], output[1])
=============================================================================
