------------------------------ MODULE TaskDSL ------------------------------
(***************************************************************************)
(* Task<LINKS...> of recipes/TaskDSL.cpp over the type lists of            *)
(* recipes/Typelist.hpp: at compile time the jobs of a list of links are   *)
(* sorted with a quicksort whose comparison is "is among all descendants", *)
(* a partial order; Run() calls them in that order.  A type list is a      *)
(* sequence, a link a pair <<from, dst>>.  Links with a cycle make the     *)
(* templates recurse for ever: they do not compile.                        *)
(***************************************************************************)
EXTENDS Naturals, Sequences, FiniteSets, SequencesExt

CONSTANTS Job,     \* the functions that are jobs
          MaxLinks \* bound: the links of a task

VARIABLES links, todo, done
vars == <<links, todo, done>>

(***************************************************************************)
(* Typelist.hpp                                                            *)
(***************************************************************************)
\* Map_t<IN, F>, F being a projection of links: 1 is GetFrom, 2 is GetDst.
Map(in, f) == [i \in DOMAIN in |-> in[i][f]]
Elem(in, e) == e \in Range(in)

Unique(in) == FoldLeft(LAMBDA acc, e : IF Elem(acc, e) THEN acc ELSE Append(acc, e), << >>, in)

\* Partition_t<IN, LT>, LT holding of what lt has before h.
Partition(in, lt, h) ==
  [satisfied |-> SelectSeq(in, LAMBDA e : <<e, h>> \in lt),
   rest |-> SelectSeq(in, LAMBDA e : <<e, h>> \notin lt)]

\* Sort_t<IN, CMP>, lt being the pairs CMP holds of: the head is the pivot.
RECURSIVE Sort(_, _)
Sort(in, lt) ==
  IF in = << >> THEN << >>
  ELSE LET p == Partition(Tail(in), lt, Head(in)) IN
       Append(Sort(p.satisfied, lt), Head(in)) \o Sort(p.rest, lt)

(***************************************************************************)
(* Task                                                                    *)
(***************************************************************************)
Connections(ls) == Unique(ls)
AllJobs(ls) == Unique(Map(Connections(ls), 1) \o Map(Connections(ls), 2))

\* JobDescendantsMap: the direct descendants of a job.
Descendants(ls, j) == Map(SelectSeq(Connections(ls), LAMBDA c : c[1] = j), 2)

\* FindAllDescendants that stops at the direct ones.
AllDescendantsDirect(ls, ds) == ds

\* FindAllDescendants: each of ds, followed by all of its own.
RECURSIVE AllDescendants(_, _)
AllDescendants(ls, ds) ==
  FoldLeft(LAMBDA acc, j : Append(acc, j) \o AllDescendants(ls, Descendants(ls, j)), << >>, ds)

JobCmp(ls) == {<<a, b>> \in Job \X Job : Elem(AllDescendants(ls, Descendants(ls, a)), b)}

SortedJobs(ls) == Sort(AllJobs(ls), JobCmp(ls))

-----------------------------------------------------------------------------
Links == {<<a, b>> \in Job \X Job : a # b}

\* The links have no cycle: some ranking of the jobs goes up along each of them.
Acyclic(ls) == \E rank \in [Job -> 1 .. Cardinality(Job)] :
                 \A i \in DOMAIN ls : rank[ls[i][1]] < rank[ls[i][2]]

Init ==
  /\ links \in {ls \in UNION {[1 .. n -> Links] : n \in 1 .. MaxLinks} : Acyclic(ls)}
  /\ todo = SortedJobs(links)
  /\ done = << >>

\* Run(): the fold over the comma operator.
Run ==
  /\ todo # << >>
  /\ done' = Append(done, Head(todo))
  /\ todo' = Tail(todo)
  /\ UNCHANGED links

Spec == Init /\ [][Run]_vars

\* A job runs only after every job that is linked to it, although the
\* comparison of the quicksort leaves most pairs unordered.
RunsAfterPredecessors ==
  \A i \in DOMAIN links : links[i][2] \in Range(done) => links[i][1] \in Range(done)
=============================================================================
