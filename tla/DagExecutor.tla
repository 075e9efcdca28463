----------------------------- MODULE DagExecutor -----------------------------
(***************************************************************************)
(* The excutor of dag.cpp: a depth-first walk of the modules that runs a   *)
(* module after those it depends on.  modules_ is an unordered_map, so the *)
(* walk starts from its entries in any order.  A dependency nobody added   *)
(* is inserted as a null pointer by modules_[dep], and then dereferenced.  *)
(***************************************************************************)
EXTENDS Naturals, Sequences, FiniteSets, Functions

CONSTANT Name \* the names of modules, as keys and as dependencies

VARIABLES modules_, \* name -> the dependencies of the module added under it
          pc,       \* "adding" | "running" | "done" | "crashed"
          pending,  \* the entries the loop of excutor_all has not come to
          visited,
          stack,    \* the calls of execute(): the module and the deps left
          ran       \* history: the modules executed, in order
vars == <<modules_, pc, pending, visited, stack, ran>>

Added == DOMAIN modules_

Init ==
  /\ modules_ = [n \in {} |-> {}]
  /\ pc = "adding"
  /\ pending = {} /\ visited = {} /\ stack = << >> /\ ran = << >>

\* A module added again under a name replaces the one before.
add_module(n, deps) ==
  /\ pc = "adding"
  /\ modules_' = [m \in Added \cup {n} |-> IF m = n THEN deps ELSE modules_[m]]
  /\ UNCHANGED <<pc, pending, visited, stack, ran>>

excutor_all ==
  /\ pc = "adding"
  /\ pc' = "running"
  /\ pending' = Added
  /\ UNCHANGED <<modules_, visited, stack, ran>>

\* execute() on entry, called with frames below it: the module is marked before
\* its dependencies are.
Enter(m, below) ==
  /\ visited' = visited \cup {m}
  /\ stack' = Append(below, [mod |-> m, left |-> modules_[m]])

\* The innermost call, and the calls once it has taken its dependency dep.
Top == stack[Len(stack)]
Taken(dep) == [stack EXCEPT ![Len(stack)].left = @ \ {dep}]

\* The loop of excutor_all when a visited entry does not move it on.
NextEntryStuck(m) ==
  /\ pc = "running" /\ stack = << >> /\ m \in pending
  /\ IF m \in visited THEN UNCHANGED <<visited, stack, pending>>
     ELSE Enter(m, << >>) /\ pending' = pending \ {m}
  /\ UNCHANGED <<modules_, pc, ran>>

\* The loop of excutor_all.
NextEntry(m) ==
  /\ pc = "running" /\ stack = << >> /\ m \in pending
  /\ pending' = pending \ {m}
  /\ IF m \in visited THEN UNCHANGED <<visited, stack>> ELSE Enter(m, << >>)
  /\ UNCHANGED <<modules_, pc, ran>>

\* The loop of execute().  left is a set: the deps in any order.
VisitDep(dep) ==
  /\ pc = "running" /\ stack # << >> /\ dep \in Top.left
  /\ \/ /\ dep \in visited
        /\ stack' = Taken(dep)
        /\ UNCHANGED <<visited, pc>>
     \/ /\ dep \notin visited /\ dep \in Added
        /\ Enter(dep, Taken(dep))
        /\ UNCHANGED pc
     \/ /\ dep \notin visited /\ dep \notin Added
        /\ pc' = "crashed"
        /\ UNCHANGED <<visited, stack>>
  /\ UNCHANGED <<modules_, pending, ran>>

\* execute() that runs the module before the loop over its dependencies.
RunEarly ==
  /\ pc = "running" /\ stack # << >>
  /\ ran' = Append(ran, Top.mod)
  /\ stack' = SubSeq(stack, 1, Len(stack) - 1)
  /\ UNCHANGED <<modules_, pc, pending, visited>>

\* The end of execute(): mod->execute().
Run ==
  /\ pc = "running" /\ stack # << >>
  /\ Top.left = {}
  /\ ran' = Append(ran, Top.mod)
  /\ stack' = SubSeq(stack, 1, Len(stack) - 1)
  /\ UNCHANGED <<modules_, pc, pending, visited>>

Finish ==
  /\ pc = "running" /\ stack = << >> /\ pending = {}
  /\ pc' = "done"
  /\ UNCHANGED <<modules_, pending, visited, stack, ran>>

Step == (\E n \in Name : NextEntry(n) \/ VisitDep(n)) \/ Run \/ Finish
Next == (\E n \in Name, deps \in SUBSET Name : add_module(n, deps)) \/ excutor_all \/ Step
Spec == Init /\ [][Next]_vars

-----------------------------------------------------------------------------
\* C holds what the modules of A depend on, of what was added.
HoldsDeps(C, A) == \A x \in A : modules_[x] \cap Added \subseteq C

\* b is reached from a along dependencies: it is in every set that holds what a
\* and its own members depend on.
Reaches(a, b) == \A C \in SUBSET Added : HoldsDeps(C, C \cup {a}) => b \in C

\* Whatever the order of the entries and of the dependencies, a module runs
\* after each of its dependencies that does not depend on it in turn: in an
\* acyclic graph, after all of them.
RunsAfterDeps ==
  \A i \in DOMAIN ran : \A d \in modules_[ran[i]] :
    d \in Added /\ ~Reaches(d, ran[i]) => \E j \in 1 .. i - 1 : ran[j] = d

\* The recursion ends for every graph, cyclic ones included: excutor_all returns
\* with each module that was added run, and once, or crashes on the null pointer
\* of a module that was never added.
RunsAllOnce ==
  pc = "running" ~>
    \/ pc = "done" /\ Range(ran) = Added /\ Len(ran) = Cardinality(Added)
    \/ pc = "crashed" /\ \E m \in Added : ~(modules_[m] \subseteq Added)
=============================================================================
