-------------------------- MODULE WorkerTopologies --------------------------
(***************************************************************************)
(* SearchWorker and ModuleTopologyManager together.  The app adds its      *)
(* topologies while the main thread is in SwApp::init; a request that the  *)
(* RpcServer runs picks a topology; a loadBiz or unloadBiz of a controller *)
(* thread adds or removes one.  Where the main thread is decides what the  *)
(* manager may be asked: its `phase` is a function of the worker's state,  *)
(* and what the manager assumes of its phase is shown here, not conjoined: *)
(* calls are made of the manager when the worker's own state lets them.    *)
(***************************************************************************)
EXTENDS SearchWorker

CONSTANTS Name, Default, Served, Topo, MainThread, NULL

ASSUME TopologyConstantsAssumption ==
  /\ Default \in Name /\ Served \in Name
  /\ NULL \notin Topo /\ NULL \notin Name /\ NULL \notin {MainThread} \cup Beat
  /\ NULL \notin [Name -> Topo \cup {NULL}]
  /\ MainThread \notin Request \cup Beat

VARIABLES
  app_initialized, index, view, modifying, old, heap, tested, refs, storage, monitors,
  loading,   \* next step of each thread inside add_topology or remove_topology
  name, topo, replaced,
  call,      \* step of each request inside CallMethod
  final,
  at         \* "run"; "validating" (inside ValidateAndReserve...); "exited" (static
             \* objects are gone); "appInit" (the process ended without a worker)

topologyVars == <<app_initialized, index, view, modifying, old, heap, tested, refs, storage,
                  monitors, loading, name, topo, replaced, call, final>>
allVars == <<vars, topologyVars, at>>

PhaseOf(l) ==
  CASE l \in {"setup_reload_scheme", "Validate"} -> "initialized"
    [] l \in {"RpcServer.start", "WorkerTargetController.start"} -> "serving"
    [] l \in {"stop", "destroy"} -> "stopped"
    [] l \in {"destroyApp", "closeLibrary", "exited"} -> "cleared"
    [] OTHER -> "appInit"

\* The phase of the manager: it serves until stop() has reset _started, and to
\* the end if the server is abandoned.
Phase ==
  IF at # "run" THEN at ELSE IF started \/ ServerAbandoned THEN "serving" ELSE PhaseOf(pc)

Manager == INSTANCE ModuleTopologyManager WITH
             phase <- Phase, pc <- loading, rpc <- call, Main <- MainThread,
             BizThread <- Beat, AppThread <- {}, Inspector <- {}

WorkerInit == Init /\ at = "run" /\ Manager!Init

-----------------------------------------------------------------------------
(* The main thread.                                                        *)

\* SwApp::init adds topologies; then AppProxy::init looks for the served one.
AppAdds ==
  /\ pc = "init"
  /\ UNCHANGED <<vars, at>>
  /\ (\E n \in Name : Manager!StartAdd(MainThread, n)) \/ Manager!LoadStep(MainThread)

InitApp == AppProxyInit /\ UNCHANGED at /\ Manager!AppProxyInit

ValidateTopologies ==
  /\ pc = "Validate"
  /\ \/ at = "run" /\ at' = "validating" /\ UNCHANGED vars /\ Manager!ValidateBegin
     \/ at = "validating" /\ at' = "run" /\ Validate /\ Manager!ValidateEnd

\* destroy() calls clear() first, which leaves the topologies where they are.
OtherMain ==
  /\ pc \notin {"init", "Validate"}
  /\ Main
  /\ at' = IF pc = "closeLibrary" \/ pc' # "exited" THEN at ELSE "appInit"
  /\ UNCHANGED topologyVars

MainStep == InitApp \/ ValidateTopologies \/ OtherMain

\* exit() destroys the registered components.  Under the threads of an abandoned
\* server that is undefined: there the model ends with sw_main.
ExitProcess ==
  /\ pc = "exited"
  /\ at = "run"
  /\ ~ServerAbandoned
  /\ UNCHANGED vars
  /\ at' = "exited"
  /\ Manager!Destruct

Ended == pc = "exited" /\ (at # "run" \/ ServerAbandoned) /\ UNCHANGED allVars

-----------------------------------------------------------------------------
(* Requests, and threads of the controller.                                *)

ReadTopologyList(r) ==
  /\ r \notin rpc
  /\ CallMethod(r)
  /\ UNCHANGED at
  /\ Manager!StartRequest(r)

\* The request ends with the step that leaves `call` idle.
RequestStep(r) ==
  /\ r \in rpc
  /\ UNCHANGED at
  /\ \/ UNCHANGED vars /\ Manager!RequestStep(r) /\ call'[r] # "idle"
     \/ CallMethod(r) /\ Manager!RequestStep(r) /\ call'[r] = "idle"

\* A biz whose files are no good leaves the topologies alone.
BeginBiz(b) ==
  /\ beat[b] = "idle"
  /\ loadBiz(b)
  /\ UNCHANGED at
  /\ \/ \E n \in Name : Manager!StartAdd(b, n) \/ Manager!StartUnload(b, n)
     \/ UNCHANGED topologyVars

BizStep(b) ==
  /\ beat[b] = "loadBiz"
  /\ UNCHANGED at
  /\ \/ UNCHANGED vars /\ Manager!LoadStep(b)
     \/ loading[b] = "idle" /\ loadBiz(b) /\ UNCHANGED topologyVars

Others ==
  /\ Reload \/ (\E s \in Signal : Send(s)) \/ (\E b \in Beat : checkHealth(b))
  /\ UNCHANGED <<topologyVars, at>>

WorkerNext ==
  \/ AppAdds \/ MainStep \/ ExitProcess \/ Ended \/ Others
  \/ \E r \in Request : ReadTopologyList(r) \/ RequestStep(r)
  \/ \E b \in Beat : BeginBiz(b) \/ BizStep(b)

WorkerSpec == WorkerInit /\ [][WorkerNext]_allVars

(***************************************************************************)
(* The scheduler runs the main thread, SwApp::init does not add topologies *)
(* for ever, and what another thread has begun it ends.  A join is not     *)
(* overtaken for ever, since nothing new begins once the server or the     *)
(* controller is stopping, and the destructor of the loop thread asks it   *)
(* to stop (SF).                                                           *)
(***************************************************************************)
FairWorkerSpec ==
  /\ WorkerSpec
  /\ SF_allVars(MainStep)
  /\ WF_allVars(AppAdds)
  /\ WF_allVars(reload = "reloading" /\ Reload /\ UNCHANGED <<topologyVars, at>>)
  /\ \A r \in Request : WF_allVars(RequestStep(r))
  /\ \A b \in Beat :
       /\ WF_allVars(BizStep(b))
       /\ WF_allVars(beat[b] # "idle" /\ checkHealth(b) /\ UNCHANGED <<topologyVars, at>>)

-----------------------------------------------------------------------------
(* Properties.                                                             *)

\* The worker uses the manager as ModuleTopologyManager assumes: no request
\* reads the index before the pools are tested or after a stop() that stopped
\* the server, such a stop() returns only when no thread is inside the manager,
\* and loads come only from SwApp::init and, while it serves, the controller.
ImplementsTopologyManager == Manager!Spec

\* When the app is destroyed the manager holds no topology, whose modules are
\* objects of the app: destroy() calls clear() first.
TopologiesGoBeforeApp == app = "destroyed" => storage = {}
=============================================================================
