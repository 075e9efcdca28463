---------------------------- MODULE TopologySort ----------------------------
(***************************************************************************)
(* The path of a topology from a configuration to a sorted list:           *)
(* RpcComponentImpl's pack_*_topology, the checks of                       *)
(* ModuleTopologyManager::add_topology and topology_sort, one step per     *)
(* iteration of its inner loop.  An element is [name, dep, allow], a       *)
(* module definition [name, factory].                                      *)
(***************************************************************************)
EXTENDS Naturals, Sequences, FiniteSets

CONSTANTS SyncFactory, \* the factories of SyncModules
          Input        \* configurations, with the flags of the server:
                       \*   kind     "minimal", "simple", "semi" or "runnable"
                       \*   global   the global module definitions
                       \*   module   the definitions of the configuration
                       \*   element  its elements
                       \*   flag     parallel: enable_parallel_module_scheduling,
                       \*            check: enable_check_allow_parallel_field

VARIABLES
  input,            \* the configuration being added
  topology,         \* packed.runnable_topology().element()
  pc,               \* "pack", "check", "scan" or "done"
  i,                \* the inner loop's index
  found,            \* zero_upstream_node_found
  removed,          \* names of the removed elements
  wave,             \* sync_modules and async_modules of this pass
  sorted,           \* sorted_topology
  parallel_modules,
  result            \* what add_topology returns

vars == <<input, topology, pc, i, found, removed, wave, sorted, parallel_modules, result>>
sortVars == <<i, found, removed, wave, sorted, parallel_modules>>

Names(s) == {s[j].name : j \in DOMAIN s}
Unique(s) == \A j, k \in DOMAIN s : s[j].name = s[k].name => j = k

Init ==
  /\ input \in Input
  /\ topology = << >>
  /\ pc = "pack"
  /\ i = 1
  /\ found = FALSE
  /\ removed = {}
  /\ wave = {}
  /\ sorted = << >>
  /\ parallel_modules = {}
  /\ result = FALSE

-----------------------------------------------------------------------------
(* The factory of a module: definitions of the topology before global ones. *)

Defines(defs, n, f) == \E j \in DOMAIN defs : defs[j] = [name |-> n, factory |-> f]

HasFactory(n, f) ==
  IF n \in Names(input.module) THEN Defines(input.module, n, f)
                               ELSE Defines(input.global, n, f)

is_sync_module(n) == \E f \in SyncFactory : HasFactory(n, f)

-----------------------------------------------------------------------------
(* pack_minimal_topology, pack_simple_topology: a chain.                   *)

\* Mutant: name_of_last_element is set once.
ChainedToFirst ==
  [j \in DOMAIN input.element |->
     [name  |-> input.element[j].name,
      dep   |-> IF j = 1 THEN {} ELSE {input.element[1].name},
      allow |-> FALSE]]

Chained ==
  [j \in DOMAIN input.element |->
     [name  |-> input.element[j].name,
      dep   |-> IF j = 1 THEN {} ELSE {input.element[j - 1].name},
      allow |-> FALSE]]

\* pack_semi_sequential_topology: every element also waits for the last sync
\* element before it.
PriorSync(j) ==
  {k \in 1 .. (j - 1) : /\ is_sync_module(input.element[k].name)
                        /\ \A l \in (k + 1) .. (j - 1) :
                             ~is_sync_module(input.element[l].name)}

SemiSequential ==
  [j \in DOMAIN input.element |->
     [name  |-> input.element[j].name,
      dep   |-> input.element[j].dep \cup {input.element[k].name : k \in PriorSync(j)},
      allow |-> FALSE]]

Fail == pc' = "done" /\ result' = FALSE

Pack ==
  /\ pc = "pack"
  /\ IF input.kind = "semi" /\ ~(Names(input.element) \subseteq Names(input.module))
       THEN Fail /\ UNCHANGED topology
       ELSE /\ topology' = CASE input.kind \in {"minimal", "simple"} -> Chained
                             [] input.kind = "semi" -> SemiSequential
                             [] OTHER -> input.element
            /\ pc' = "check"
            /\ UNCHANGED result
  /\ UNCHANGED <<input, sortVars>>

\* The checks of add_topology, each of which returns false.
Accepted ==
  /\ \A j \in DOMAIN input.module, k \in DOMAIN input.global :
       input.module[j].name = input.global[k].name => input.module[j] = input.global[k]
  /\ Unique(input.module)
  /\ topology # << >>
  /\ Names(topology) \subseteq Names(input.module) \cup Names(input.global)
  /\ Unique(topology)
  /\ \A j \in DOMAIN topology : topology[j].dep \subseteq Names(topology)

Check ==
  /\ pc = "check"
  /\ IF Accepted THEN pc' = "scan" /\ UNCHANGED result ELSE Fail
  /\ UNCHANGED <<input, topology, sortVars>>

-----------------------------------------------------------------------------
(* topology_sort.                                                          *)

\* Mutant: one removed upstream element is enough.
ReadyOnFirst(e) == e.name \notin removed /\ (e.dep = {} \/ e.dep \cap removed # {})

Ready(e) == e.name \notin removed /\ e.dep \subseteq removed

\* With parallel_modules an element is removed at the end of the pass.
Scan ==
  /\ pc = "scan"
  /\ i <= Len(topology)
  /\ i' = i + 1
  /\ IF Ready(topology[i])
       THEN /\ found' = TRUE
            /\ sorted' = Append(sorted, topology[i])
            /\ IF input.flag.parallel
                 THEN wave' = wave \cup {topology[i]} /\ UNCHANGED removed
                 ELSE removed' = removed \cup {topology[i].name} /\ UNCHANGED wave
       ELSE UNCHANGED <<found, sorted, wave, removed>>
  /\ UNCHANGED <<input, topology, pc, parallel_modules, result>>

SyncWave == {e \in wave : is_sync_module(e.name)}

\* Mutant: a single sync module is marked as well.
MarkedAlone ==
  IF input.flag.check THEN {e \in SyncWave : e.allow}
  ELSE IF Cardinality(SyncWave) > 0 THEN SyncWave ELSE {}

Marked ==
  IF input.flag.check THEN {e \in SyncWave : e.allow}
  ELSE IF Cardinality(SyncWave) > 1 THEN SyncWave ELSE {}

\* Mutant: there is no second pass.
EndPassOnce ==
  /\ pc = "scan"
  /\ i > Len(topology)
  /\ parallel_modules' = parallel_modules \cup {e.name : e \in Marked}
  /\ removed' = removed \cup {e.name : e \in wave}
  /\ wave' = {}
  /\ i' = 1
  /\ found' = FALSE
  /\ IF Cardinality(removed') = Len(topology) THEN pc' = "done" /\ result' = TRUE ELSE Fail
  /\ UNCHANGED <<input, topology, sorted>>

\* The end of a pass, and the test of the while loop.
EndPass ==
  /\ pc = "scan"
  /\ i > Len(topology)
  /\ parallel_modules' = parallel_modules \cup {e.name : e \in Marked}
  /\ removed' = removed \cup {e.name : e \in wave}
  /\ wave' = {}
  /\ i' = 1
  /\ found' = FALSE
  /\ IF ~found THEN Fail
     ELSE IF Cardinality(removed') = Len(topology) THEN pc' = "done" /\ result' = TRUE
     ELSE UNCHANGED <<pc, result>>
  /\ UNCHANGED <<input, topology, sorted>>

Next == Pack \/ Check \/ Scan \/ EndPass

Spec == Init /\ [][Next]_vars

-----------------------------------------------------------------------------
(* Properties.                                                             *)

\* The sorted list runs every module after all modules it depends on, at every
\* moment, and once the topology is accepted it is whole: no element is lost,
\* and none runs twice.
SortedIsTopological ==
  /\ \A j \in DOMAIN sorted : \A d \in sorted[j].dep :
       \E k \in 1 .. (j - 1) : sorted[k].name = d
  /\ pc = "done" /\ result =>
       Len(sorted) = Len(topology) /\ Names(sorted) = Names(topology)

\* A set of elements each of which waits for another one of the set.
Stuck(S) ==
  /\ S # {}
  /\ S \subseteq Names(topology)
  /\ \A j \in DOMAIN topology : topology[j].name \in S => topology[j].dep \cap S # {}

\* topology_sort finds a loop exactly when there is one: "loop found in
\* topology" is reported for the topologies some of whose elements wait for
\* each other, and for no others.
RejectsExactlyLoops ==
  pc = "done" /\ Accepted => (result <=> \A S \in SUBSET Names(topology) : ~Stuck(S))

\* The elements a module waits for, directly or through others.
Upstream(n) ==
  {m \in Names(topology) :
     \A S \in SUBSET Names(topology) :
       (\A j \in DOMAIN topology : topology[j].name \in S \cup {n} => topology[j].dep \subseteq S)
         => m \in S}

\* A module is marked to run in parallel only if there is another sync module
\* that it neither waits for nor is waited for by.  Under
\* enable_check_allow_parallel_field it is the configuration that decides, by the
\* field of the module alone, and no such peer is asked for.
ParallelHasPeer ==
  pc = "done" /\ result /\ ~input.flag.check =>
    \A n \in parallel_modules :
      \E m \in Names(topology) \ {n} :
        is_sync_module(m) /\ n \notin Upstream(m) /\ m \notin Upstream(n)

\* What the short forms of a configuration promise: in a minimal or simple
\* topology every module waits for all those before it, in a semi-sequential one
\* for the sync modules before it, and none is ever marked as parallel.
ShortFormsAreSequential ==
  pc = "done" /\ result /\ input.kind \in {"minimal", "simple", "semi"} =>
    /\ \A j, k \in DOMAIN input.element :
         j < k /\ (input.kind = "semi" => is_sync_module(input.element[j].name)) =>
           input.element[j].name \in Upstream(input.element[k].name)
    /\ parallel_modules = {}
=============================================================================
