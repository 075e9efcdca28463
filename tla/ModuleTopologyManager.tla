----------------------- MODULE ModuleTopologyManager -----------------------
(***************************************************************************)
(* DAG/sw/server/ModuleTopologyManager.cpp with its callers: the main      *)
(* thread that starts and stops the server (SearchWorker), the threads     *)
(* that load and unload topologies (AppProxy, RpcComponentImpl) and the    *)
(* requests that run on them (RpcServiceImpl).                             *)
(*                                                                         *)
(* The index of topologies is a butil::DoublyBufferedData<Index>; what is  *)
(* used of it is ReadMostlyData.  A Topo is the address of a               *)
(* ModuleTopology: it can be allocated again once it has been freed.       *)
(***************************************************************************)
EXTENDS Naturals, FiniteSets

CONSTANTS Name,       \* topology names
          Default,    \* the name "default", which is never unloaded
          Served,     \* topology_name of the method that is served
          Topo,       \* addresses of ModuleTopology objects
          Request,    \* RPCs in flight
          Main,       \* the main thread
          AppThread,  \* threads of the app, which may add topologies at any time
          BizThread,  \* threads of the WorkerTargetController, which load and unload
          Inspector,  \* threads that look at the index: bvar's, and those of the app
          NULL

Loader == {Main} \cup AppThread \cup BizThread

ASSUME ConstantsAssumption ==
  /\ Default \in Name /\ Served \in Name
  /\ NULL \notin Topo /\ NULL \notin Name /\ NULL \notin Loader
  /\ NULL \notin [Name -> Topo \cup {NULL}]
  /\ Main \notin Request \cup AppThread \cup BizThread \cup Inspector
  /\ AppThread \cap BizThread = {} /\ Request \cap Inspector = {}

VARIABLES
  phase,     \* where the main thread is between SearchWorker::init and exit
  app_initialized, \* _app_initialized
  index,     \* _dbd: the published Index
  view,      \* the Index each ScopedPtr refers to, or NULL
  modifying, \* a Modify() has published and waits for the readers
  old,       \* the readers it waits for
  heap,      \* "free" or "live", for each address
  tested,    \* the session local data pool has been tested and reserved
  refs,      \* _reference_count
  storage,   \* _storage->_module_topology_storage
  monitors,  \* the names in _storage->_monitor_storage
  pc,        \* next step of each loading thread
  name,      \* its topology_name
  topo,      \* its module_topology
  replaced,  \* its set `replaced` or `removed`
  rpc,       \* step of each request
  final      \* its final_topology

dbdVars  == <<index, view, modifying, old>>
memVars  == <<heap, tested, refs, storage, monitors>>
loadVars == <<pc, name, topo, replaced>>
reqVars  == <<rpc, final>>
mainVars == <<phase, app_initialized>>
vars == <<phase, app_initialized, index, view, modifying, old, heap, tested, refs, storage,
          monitors, pc, name, topo, replaced, rpc, final>>

Listed(ix) == {ix[n] : n \in Name} \ {NULL}

\* Index::replace and Index::remove (topo = NULL).
Modifier == [name : Name, topo : Topo \cup {NULL}]
ApplyModifier(f, ix, other) == [ix EXCEPT ![f.name] = f.topo]
EmptyIndex == [n \in Name |-> NULL]

Reader == Request \cup {Main} \cup Inspector

DBD == INSTANCE ReadMostlyData WITH
         Thread <- Reader, Fn <- Modifier, Apply <- ApplyModifier,
         InitData <- EmptyIndex, value <- index

Goto(k, l) == pc' = [pc EXCEPT ![k] = l]

Init ==
  /\ phase = "appInit"
  /\ app_initialized = FALSE
  /\ DBD!Init
  /\ heap = [t \in Topo |-> "free"]
  /\ tested = [t \in Topo |-> FALSE]
  /\ refs = [t \in Topo |-> 0]
  /\ storage = {}
  /\ monitors = {}
  /\ pc = [k \in Loader |-> "idle"]
  /\ name = [k \in Loader |-> NULL]
  /\ topo = [k \in Loader |-> NULL]
  /\ replaced = [k \in Loader |-> {}]
  /\ rpc = [r \in Request |-> "idle"]
  /\ final = [r \in Request |-> NULL]

-----------------------------------------------------------------------------
(* add_topology.  A description that fails validation returns before any   *)
(* state changes (TopologySort models the validation).                     *)

MayAdd(k) ==
  \/ k = Main /\ phase = "appInit"
  \/ k \in AppThread /\ phase \in {"appInit", "initialized", "validating", "serving"}
  \/ k \in BizThread /\ phase = "serving"

\* What the call does, whenever it is made.
StartAdd(k, n) ==
  /\ pc[k] = "idle"
  /\ name' = [name EXCEPT ![k] = n]
  /\ Goto(k, "monitor")
  /\ UNCHANGED <<mainVars, dbdVars, memVars, topo, replaced, reqVars>>

add_topology(k, n) == MayAdd(k) /\ StartAdd(k, n)

\* EmplaceTopologyMonitor: reuse the monitor of this name, or expose a new
\* one, which may fail.
EmplaceTopologyMonitor(k) ==
  /\ pc[k] = "monitor"
  /\ \/ monitors' = monitors \cup {name[k]} /\ Goto(k, "pool") /\ UNCHANGED name
     \/ /\ name[k] \notin monitors
        /\ Goto(k, "idle")
        /\ name' = [name EXCEPT ![k] = NULL]
        /\ UNCHANGED monitors
  /\ UNCHANGED <<mainVars, dbdVars, heap, tested, refs, storage, topo, replaced, reqVars>>

\* Mutant: test_and_reserve left at its default, false.
CreateTopologyUntested(k) ==
  /\ pc[k] = "pool"
  /\ \E t \in Topo :
       /\ heap[t] = "free"
       /\ heap' = [heap EXCEPT ![t] = "live"]
       /\ tested' = [tested EXCEPT ![t] = FALSE]
       /\ refs' = [refs EXCEPT ![t] = 0]
       /\ topo' = [topo EXCEPT ![k] = t]
  /\ Goto(k, "modify")
  /\ UNCHANGED <<mainVars, dbdVars, storage, monitors, name, replaced, reqVars>>

\* new ModuleTopology and CreateSessionLocalDataPool: once the app is
\* initialized the pool is tested and reserved here.
CreateTopology(k) ==
  /\ pc[k] = "pool"
  /\ \E t \in Topo :
       /\ heap[t] = "free"
       /\ heap' = [heap EXCEPT ![t] = "live"]
       /\ tested' = [tested EXCEPT ![t] = app_initialized]
       /\ refs' = [refs EXCEPT ![t] = 0]
       /\ topo' = [topo EXCEPT ![k] = t]
  /\ Goto(k, "modify")
  /\ UNCHANGED <<mainVars, dbdVars, storage, monitors, name, replaced, reqVars>>

\* The test of the pool fails: the unique_ptr frees the new topology.
CreateTopologyFails(k) ==
  /\ pc[k] = "pool"
  /\ app_initialized
  /\ Goto(k, "idle")
  /\ name' = [name EXCEPT ![k] = NULL]
  /\ UNCHANGED <<mainVars, dbdVars, memVars, topo, replaced, reqVars>>

-----------------------------------------------------------------------------
(* remove_topology, called by AppProxy::unloadTopologyByName.              *)

\* Mutant: "default" is not spared.
StartUnloadAny(k, n) ==
  /\ pc[k] = "idle"
  /\ name' = [name EXCEPT ![k] = n]
  /\ topo' = [topo EXCEPT ![k] = NULL]
  /\ Goto(k, "modify")
  /\ UNCHANGED <<mainVars, dbdVars, memVars, replaced, reqVars>>

StartUnload(k, n) ==
  /\ pc[k] = "idle"
  /\ n # Default
  /\ name' = [name EXCEPT ![k] = n]
  /\ topo' = [topo EXCEPT ![k] = NULL]
  /\ Goto(k, "modify")
  /\ UNCHANGED <<mainVars, dbdVars, memVars, replaced, reqVars>>

unloadTopologyByName(k, n) == k \in BizThread /\ phase = "serving" /\ StartUnload(k, n)

-----------------------------------------------------------------------------
(* _dbd.Modify(modifier), shared by both.                                  *)

Modify(k) ==
  /\ pc[k] = "modify"
  /\ DBD!Publish([name |-> name[k], topo |-> topo[k]])
  /\ topo[k] # NULL \/ index[name[k]] # NULL
  /\ replaced' = [replaced EXCEPT ![k] = {index[name[k]]} \ {NULL}]
  /\ Goto(k, "grace")
  /\ UNCHANGED <<mainVars, memVars, name, topo, reqVars>>

\* Index::remove returns 0 for a name it does not find: nothing is published.
ModifyNothing(k) ==
  /\ pc[k] = "modify"
  /\ ~modifying
  /\ topo[k] = NULL
  /\ index[name[k]] = NULL
  /\ Goto(k, "idle")
  /\ name' = [name EXCEPT ![k] = NULL]
  /\ UNCHANGED <<mainVars, dbdVars, memVars, topo, replaced, reqVars>>

ModifyReturns(k) ==
  /\ pc[k] = "grace"
  /\ DBD!Return
  /\ Goto(k, IF topo[k] # NULL THEN "storageAdd" ELSE "wait")
  /\ UNCHANGED <<mainVars, memVars, name, topo, replaced, reqVars>>

\* Mutant: a topology that replaces another is not stored.
StorageAddIfNew(k) ==
  /\ pc[k] = "storageAdd"
  /\ storage' = IF replaced[k] = {} THEN storage \cup {topo[k]} ELSE storage
  /\ topo' = [topo EXCEPT ![k] = NULL]
  /\ Goto(k, "wait")
  /\ UNCHANGED <<mainVars, dbdVars, heap, tested, refs, monitors, name, replaced, reqVars>>

\* ManagerStorage::Add, after the topology has been published.
StorageAdd(k) ==
  /\ pc[k] = "storageAdd"
  /\ storage' = storage \cup {topo[k]}
  /\ topo' = [topo EXCEPT ![k] = NULL]
  /\ Goto(k, "wait")
  /\ UNCHANGED <<mainVars, dbdVars, heap, tested, refs, monitors, name, replaced, reqVars>>

-----------------------------------------------------------------------------
(* wait_and_delete.                                                        *)

\* Mutant: the topology is deleted without the spin.
WaitReferencesSkipped(k) ==
  /\ pc[k] = "wait"
  /\ Goto(k, "delete")
  /\ UNCHANGED <<mainVars, dbdVars, memVars, name, topo, replaced, reqVars>>

\* The spin ends when the count is seen to be zero.
WaitReferences(k) ==
  /\ pc[k] = "wait"
  /\ \A t \in replaced[k] : refs[t] = 0
  /\ Goto(k, "delete")
  /\ UNCHANGED <<mainVars, dbdVars, memVars, name, topo, replaced, reqVars>>

\* ManagerStorage::Delete: only what is in the storage is deleted.
StorageDelete(k) ==
  /\ pc[k] = "delete"
  /\ heap' = [t \in Topo |-> IF t \in replaced[k] \cap storage THEN "free" ELSE heap[t]]
  /\ storage' = storage \ replaced[k]
  /\ replaced' = [replaced EXCEPT ![k] = {}]
  /\ name' = [name EXCEPT ![k] = NULL]
  /\ Goto(k, "idle")
  /\ UNCHANGED <<mainVars, dbdVars, tested, refs, monitors, topo, reqVars>>

-----------------------------------------------------------------------------
(* Threads that only look: each holds a ScopedPtr while it walks through   *)
(* the Index and copies what it finds.                                     *)

\* A TopologyUsingCountMonitor that is exposed asks topology_using_count.
print_session_using_count(m) ==
  /\ monitors # {}
  /\ DBD!BeginRead(m)
  /\ UNCHANGED <<mainVars, memVars, loadVars, reqVars>>

\* contain, DeepCopyTopologyDesc, DeepCopyTopologyParams, DeepCopyAllTopologyDesc.
DeepCopy(m) ==
  /\ phase \notin {"cleared", "exited"}
  /\ DBD!BeginRead(m)
  /\ UNCHANGED <<mainVars, memVars, loadVars, reqVars>>

\* The copy is made, and the ScopedPtr goes.
Copied(m) ==
  /\ DBD!EndRead(m)
  /\ UNCHANGED <<mainVars, memVars, loadVars, reqVars>>

-----------------------------------------------------------------------------
(* RpcServiceImpl::CallMethod.                                             *)

StartRequest(r) ==
  /\ rpc[r] = "idle"
  /\ DBD!BeginRead(r)
  /\ rpc' = [rpc EXCEPT ![r] = "pick"]
  /\ UNCHANGED <<mainVars, memVars, loadVars, final>>

ReadTopologyList(r) == phase = "serving" /\ StartRequest(r)

\* Mutant: counted when it is picked and again when it is final.
PickTopologyCountsTwice(r) ==
  /\ rpc[r] = "pick"
  /\ \E n \in Name :
       LET t == IF view[r][n] # NULL THEN view[r][n] ELSE view[r][Served]
       IN  /\ final' = [final EXCEPT ![r] = t]
           /\ refs' = IF t # NULL THEN [refs EXCEPT ![t] = @ + 2] ELSE refs
  /\ rpc' = [rpc EXCEPT ![r] = "picked"]
  /\ UNCHANGED <<mainVars, dbdVars, heap, tested, storage, monitors, loadVars>>

\* The picker of the app names any topology; one that is not listed falls back
\* to the topology of the method.
PickTopology(r) ==
  /\ rpc[r] = "pick"
  /\ \E n \in Name :
       LET t == IF view[r][n] # NULL THEN view[r][n] ELSE view[r][Served]
       IN  /\ final' = [final EXCEPT ![r] = t]
           /\ refs' = IF t # NULL THEN [refs EXCEPT ![t] = @ + 1] ELSE refs
  /\ rpc' = [rpc EXCEPT ![r] = "picked"]
  /\ UNCHANGED <<mainVars, dbdVars, heap, tested, storage, monitors, loadVars>>

\* The ScopedPtr is destructed, then the request is scheduled or failed.
Schedule(r) ==
  /\ rpc[r] = "picked"
  /\ DBD!EndRead(r)
  /\ rpc' = [rpc EXCEPT ![r] = IF final[r] # NULL THEN "running" ELSE "idle"]
  /\ UNCHANGED <<mainVars, memVars, loadVars, final>>

\* ModuleScheduler drops the reference when the request is done.
Finish(r) ==
  /\ rpc[r] = "running"
  /\ refs' = [refs EXCEPT ![final[r]] = @ - 1]
  /\ final' = [final EXCEPT ![r] = NULL]
  /\ rpc' = [rpc EXCEPT ![r] = "idle"]
  /\ UNCHANGED <<mainVars, dbdVars, heap, tested, storage, monitors, loadVars>>

-----------------------------------------------------------------------------
(* The main thread: SearchWorker::init, stop and destroy, and exit.        *)

\* AppProxy::init, from the return of SwApp::init on: the method's topology
\* must be there.  Other failures stop the worker just the same.
AppProxyInit ==
  /\ phase = "appInit"
  /\ pc[Main] = "idle"
  /\ \/ index[Served] # NULL /\ phase' = "initialized" /\ app_initialized' = TRUE
     \/ phase' = "stopped" /\ UNCHANGED app_initialized
  /\ UNCHANGED <<dbdVars, memVars, loadVars, reqVars>>

\* setup_reload_scheme returns false.
SetupFails ==
  /\ phase = "initialized"
  /\ phase' = "stopped"
  /\ UNCHANGED <<app_initialized, dbdVars, memVars, loadVars, reqVars>>

\* ValidateAndReserveSessionLocalDataOnStartup.
ValidateBegin ==
  /\ phase = "initialized"
  /\ DBD!BeginRead(Main)
  /\ phase' = "validating"
  /\ UNCHANGED <<app_initialized, memVars, loadVars, reqVars>>

ValidateEnd ==
  /\ phase = "validating"
  /\ DBD!EndRead(Main)
  /\ \/ /\ tested' = [t \in Topo |-> tested[t] \/ t \in Listed(view[Main])]
        /\ phase' = "serving"
     \/ UNCHANGED tested /\ phase' = "stopped"
  /\ UNCHANGED <<app_initialized, heap, refs, storage, monitors, loadVars, reqVars>>

\* SearchWorker::stop joins the requests, then the controller's threads.
Stop ==
  /\ phase = "serving"
  /\ \A r \in Request : rpc[r] = "idle"
  /\ \A k \in Loader : pc[k] = "idle"
  /\ phase' = "stopped"
  /\ UNCHANGED <<app_initialized, dbdVars, memVars, loadVars, reqVars>>

\* SearchWorker::destroy calls clear(): with its Modify() commented out it
\* removes nothing.
clear ==
  /\ phase = "stopped"
  /\ phase' = "cleared"
  /\ UNCHANGED <<app_initialized, dbdVars, memVars, loadVars, reqVars>>

\* ~ModuleTopologyManager, when the registered component goes: the monitors
\* first, whose destructors wait for bvar to be done with them.
Destruct ==
  /\ \A m \in Inspector : view[m] = NULL
  /\ heap' = [t \in Topo |-> IF t \in storage THEN "free" ELSE heap[t]]
  /\ storage' = {}
  /\ monitors' = {}
  /\ phase' = "exited"
  /\ UNCHANGED <<app_initialized, dbdVars, tested, refs, loadVars, reqVars>>

\* No loading thread is left by then.
Exit == phase = "cleared" /\ (\A k \in Loader : pc[k] = "idle") /\ Destruct

Exited == phase = "exited" /\ UNCHANGED vars

-----------------------------------------------------------------------------
Begin(k) == \E n \in Name : add_topology(k, n) \/ unloadTopologyByName(k, n)

LoadStep(k) ==
  \/ EmplaceTopologyMonitor(k) \/ CreateTopology(k) \/ CreateTopologyFails(k)
  \/ Modify(k) \/ ModifyNothing(k) \/ ModifyReturns(k)
  \/ StorageAdd(k) \/ WaitReferences(k) \/ StorageDelete(k)

RequestStep(r) == PickTopology(r) \/ Schedule(r) \/ Finish(r)

InspectorStep(m) == print_session_using_count(m) \/ DeepCopy(m) \/ Copied(m)

MainStep == AppProxyInit \/ SetupFails \/ ValidateBegin \/ ValidateEnd \/ Stop \/ clear \/ Exit

Next ==
  \/ \E k \in Loader : Begin(k) \/ LoadStep(k)
  \/ \E r \in Request : ReadTopologyList(r) \/ RequestStep(r)
  \/ \E m \in Inspector : InspectorStep(m)
  \/ MainStep
  \/ Exited

Spec == Init /\ [][Next]_vars

-----------------------------------------------------------------------------
(* Properties.                                                             *)

\* No request, index or reader ever reaches a topology that has been deleted:
\* not the one a request runs on, and not one that is listed in the Index its
\* ScopedPtr refers to, which the picker and the monitors walk through.
NoUseAfterFree ==
  phase # "exited" =>
    /\ \A t \in Listed(index) : heap[t] = "live"
    /\ \A r \in Reader : view[r] # NULL => \A t \in Listed(view[r]) : heap[t] = "live"
    /\ \A r \in Request : final[r] # NULL => heap[final[r]] = "live"

\* A request only runs on a topology whose session local data pool has been
\* tested and reserved.
RunsOnTestedPool == \A r \in Request : final[r] # NULL => tested[final[r]]

\* No request fails for want of a topology: what the app picks may be gone, but
\* the topology its method falls back to, whose existence AppProxy::init checks,
\* is in every Index a request can hold.  This rests on the method being served
\* by "default", the one name that unloadTopologyByName spares.
EveryRequestRuns == Served = Default => \A r \in Request : rpc[r] = "picked" => final[r] # NULL

\* Once all loads and unloads have returned, the topologies that are still
\* allocated are the listed ones: what was replaced or removed has been freed.
ReplacedAreFreed ==
  (\A k \in Loader : pc[k] = "idle") /\ phase # "exited" =>
    \A t \in Topo : heap[t] = "live" => t \in Listed(index)

\* The manager leaves no topology behind at exit, whatever failed or raced.
NothingLeftAtExit == phase = "exited" => \A t \in Topo : heap[t] = "free"
=============================================================================
