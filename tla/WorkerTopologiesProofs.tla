----------------------- MODULE WorkerTopologiesProofs -----------------------
(***************************************************************************)
(* Proofs about the life of a worker process, whichever startup steps      *)
(* fail: the app outlives its users, the process exits cleanly, both but   *)
(* for a server that is abandoned when the controller does not start, and  *)
(* the worker uses the ModuleTopologyManager the way it assumes.           *)
(***************************************************************************)
EXTENDS WorkerTopologies, TLAPS

-----------------------------------------------------------------------------
(* The inductive invariant of SearchWorker: where the main thread is says  *)
(* what exists.                                                            *)

\* The main thread has started what stop() undoes.
Started ==
  {"waitSignal", "Stop", "Join", "deleteServer", "setNull", "stopController", "joinController"}

\* The steps of startup.
Starting ==
  {"parseAndValidateArgs", "registerSignalHandler", "loadConfiguration", "InitCatClient", "load",
   "create", "init", "setup_reload_scheme", "Validate", "RpcServer.start",
   "WorkerTargetController.start"}

\* The steps between the creation of the AppProxy and its deletion.
Up == Started \cup {"init", "setup_reload_scheme", "Validate", "RpcServer.start",
                    "WorkerTargetController.start"}

Step ==
  Up \cup {"parseAndValidateArgs", "registerSignalHandler", "loadConfiguration", "InitCatClient",
           "load", "create", "stop", "destroy", "destroyApp", "closeLibrary", "exited"}

TypeOK ==
  /\ pc \in Step
  /\ linked \in {"dynamic", "static"}
  /\ app \in {"none", "live", "destroyed"}
  /\ reload \in {"none", "sleeping", "reloading", "joined"}
  /\ server \in {"none", "built", "running", "stopping", "joined", "freed"}
  /\ controller \in {"none", "running", "stopping", "joined"}
  /\ beat \in [Beat -> {"idle", "isRunning", "check_health", "loadBiz"}]

\* The code of the app can be called, and its destructor will be.
Usable == Loader!CodeIsThere /\ _destroyer /\ rwlock = "free"

LoaderInv ==
  /\ pc \in {"parseAndValidateArgs", "registerSignalHandler", "loadConfiguration", "InitCatClient",
             "load"} => rwlock = "free"
  /\ pc = "create" => Usable
  /\ app = "live" => Usable

AppInv ==
  /\ proxy => app = "live" /\ pc \in Up \cup {"stop", "destroy"}
  /\ pc \in Up \/ started => proxy
  /\ app = "live" => proxy \/ pc = "destroyApp"
  /\ reload \in {"sleeping", "reloading"} => proxy

ServerInv ==
  /\ pc \in Started => started
  /\ started => pc \in Started \cup {"stop"}
  /\ server = "running" =>
       \/ pc \in {"WorkerTargetController.start", "waitSignal", "Stop"}
       \/ pc = "stop" /\ started
       \/ ServerAbandoned
  /\ pc = "WorkerTargetController.start" => server = "running"
  /\ server = "stopping" => pc = "Join"
  /\ server = "joined" => pc = "deleteServer"
  /\ rpc # {} => server \in {"running", "stopping"}

ControllerInv ==
  /\ controller = "running" => started
  /\ controller = "stopping" => pc = "joinController"
  /\ pc = "joinController" => controller = "stopping"
  /\ \A b \in Beat : beat[b] # "idle" => controller \in {"running", "stopping"}

\* What tells a failed startup from a stopped worker.
OutcomeInv ==
  /\ pc \in Starting \/ ServerAbandoned => ~succ /\ controller = "none"
  /\ pc = "exited" => code = IF succ THEN 0 ELSE -1

IInv == TypeOK /\ LoaderInv /\ AppInv /\ ServerInv /\ ControllerInv /\ OutcomeInv

-----------------------------------------------------------------------------
(* What is added for the topologies.                                       *)

\* Only the main thread in SwApp::init, the threads in loadBiz and the requests
\* being served are inside the manager.
TopologyInv ==
  /\ at \in {"run", "validating", "exited", "appInit"}
  /\ at = "validating" => pc = "Validate"
  /\ at \in {"exited", "appInit"} => pc = "exited"
  /\ DOMAIN call = Request
  /\ DOMAIN loading = {MainThread} \cup Beat
  /\ pc # "init" => loading[MainThread] = "idle"
  /\ \A b \in Beat : beat[b] # "loadBiz" => loading[b] = "idle"
  /\ \A r \in Request : r \notin rpc => call[r] = "idle"
-----------------------------------------------------------------------------
(* SearchWorker.                                                           *)

LEMMA InitInv == Init => IInv
  BY DEF Init, Loader!Init, IInv, TypeOK, LoaderInv, AppInv, ServerInv, ControllerInv, OutcomeInv,
         ServerAbandoned, Step, Starting, Up, Started

\* Every step of every thread keeps the invariant.
LEMMA InvStep == ASSUME IInv, [Next]_vars PROVE IInv'
  <1> USE SMTT(20) DEF IInv, TypeOK, LoaderInv, AppInv, ServerInv, ControllerInv, OutcomeInv,
        ServerAbandoned, Usable, Loader!CodeIsThere, Step, Starting, Up, Started, sigVars, loaderVars, appVars, serverVars, threadVars
  <1>1. ASSUME Prepare PROVE IInv'
    BY <1>1 DEF Prepare, Then, Exit
  <1>2. ASSUME Configure PROVE IInv'
    BY <1>2 DEF Configure, Fails, Then
  <1>3. ASSUME load PROVE IInv'
    BY <1>3 DEF load, Then, Loader!load, Loader!DynamicLoad, Loader!StaticLoad, Loader!Found,
           Loader!Symbol
  <1>4. ASSUME create PROVE IInv'
    <2>1. UNCHANGED <<succ, code, loaderVars, reload, serverVars, threadVars>>
      BY <1>4, Zenon DEF create, Fails, Then, Loader!create, Loader!destroy, Loader!vars
    <2>2. CASE pc' = "init" /\ app' = "live" /\ proxy'
      BY <1>4, <2>1, <2>2 DEF create
    <2>3. CASE pc' = "stop" /\ app' \in {"none", "destroyed"} /\ UNCHANGED proxy
      BY <1>4, <2>1, <2>3 DEF create
    <2> QED
      BY <1>4, <2>2, <2>3, Zenon DEF create, Fails, Then
  <1>5. ASSUME AppProxyInit PROVE IInv'
    BY <1>5 DEF AppProxyInit, Fails, Then
  <1>6. ASSUME setup_reload_scheme PROVE IInv'
    BY <1>6 DEF setup_reload_scheme, Fails, Then
  <1>7. ASSUME Validate PROVE IInv'
    BY <1>7 DEF Validate, Fails, Then
  <1>8. ASSUME StartServer PROVE IInv'
    BY <1>8 DEF StartServer, Fails, Then
  <1>9. ASSUME StartController PROVE IInv'
    BY <1>9 DEF StartController, Fails, Then
  <1>10. ASSUME NEW s \in Signal, waitSignal(s) PROVE IInv'
    BY <1>10 DEF waitSignal, Then
  <1>11. ASSUME stop PROVE IInv'
    BY <1>11 DEF stop, Then
  <1>12. ASSUME StopServer PROVE IInv'
    BY <1>12 DEF StopServer, Then
  <1>13. ASSUME JoinServer PROVE IInv'
    BY <1>13 DEF JoinServer, Then
  <1>14. ASSUME DeleteServer PROVE IInv'
    BY <1>14 DEF DeleteServer, Then
  <1>15. ASSUME StopController PROVE IInv'
    BY <1>15 DEF StopController, Then
  <1>16. ASSUME destroy PROVE IInv'
    BY <1>16 DEF destroy, Then, Loader!destroy, Loader!MayCall, Loader!vars
  <1>17. ASSUME Return PROVE IInv'
    BY <1>17 DEF Return, Exit, Loader!Close
  <1>18. ASSUME NEW s \in Signal, Send(s) PROVE IInv'
    BY <1>18 DEF Send
  <1>19. ASSUME NEW r \in Request, CallMethod(r) PROVE IInv'
    BY <1>19 DEF CallMethod
  <1>20. ASSUME Reload PROVE IInv'
    BY <1>20 DEF Reload
  <1>21. ASSUME NEW b \in Beat, checkHealth(b) PROVE IInv'
    BY <1>21 DEF checkHealth, BeatStep
  <1>22. ASSUME NEW b \in Beat, loadBiz(b) PROVE IInv'
    BY <1>22 DEF loadBiz, BeatStep
  <1>23. ASSUME UNCHANGED vars PROVE IInv'
    BY <1>23 DEF vars
  <1> HIDE DEF IInv
  <1> QED
    BY <1>1, <1>2, <1>3, <1>4, <1>5, <1>6, <1>7, <1>8, <1>9, <1>10, <1>11, <1>12, <1>13, <1>14,
           <1>15, <1>16, <1>17, <1>18, <1>19, <1>20, <1>21, <1>22, <1>23, Zenon
    DEF Next, Main, Exited

\* Whatever thread runs the app's code, stop() and destroy() have not taken the
\* app away, nor ~CdlLoader its library: for any number of requests, of threads
\* of the controller and of signals, and whichever startup steps fail.  Only the
\* requests of a server abandoned by start() may outlive the app.
THEOREM AppIsThereForItsUsers == Spec => []AppOutlivesUsers
  <1>1. IInv => AppOutlivesUsers
    BY DEF IInv, TypeOK, LoaderInv, AppInv, ServerInv, ControllerInv, Usable, Up, Started,
           AppOutlivesUsers, AppIsThere
  <1> QED
    BY <1>1, InitInv, InvStep, PTL DEF Spec

\* Whichever startup steps fail, the controller's start included: when sw_main
\* has returned the controller and the reload thread are joined and the app is
\* destroyed, and a server that still runs is one whose controller did not start.
THEOREM ProcessExitsCleanly == Spec => []ExitIsClean
  <1>1. IInv => ExitIsClean
    BY DEF IInv, TypeOK, AppInv, ServerInv, ControllerInv, OutcomeInv, ServerAbandoned, Up, Started,
           ExitIsClean
  <1> QED
    BY <1>1, InitInv, InvStep, PTL DEF Spec

-----------------------------------------------------------------------------
(* WorkerTopologies.                                                       *)

\* The topologies only restrict what the worker does.
LEMMA WorkerStep == ASSUME [WorkerNext]_allVars PROVE [Next]_vars
  <1>1. ASSUME UNCHANGED allVars PROVE UNCHANGED vars
    BY <1>1, Zenon DEF allVars
  <1>2. ASSUME AppAdds \/ ExitProcess PROVE UNCHANGED vars
    BY <1>2, Zenon DEF AppAdds, ExitProcess
  <1>3. ASSUME MainStep PROVE [Main]_vars
    BY <1>3, Zenon DEF MainStep, InitApp, ValidateTopologies, OtherMain, Main
  <1>4. ASSUME NEW r \in Request, ReadTopologyList(r) \/ RequestStep(r) PROVE [CallMethod(r)]_vars
    BY <1>4, Zenon DEF ReadTopologyList, RequestStep
  <1>5. ASSUME NEW b \in Beat, BeginBiz(b) \/ BizStep(b) PROVE [loadBiz(b)]_vars
    BY <1>5, Zenon DEF BeginBiz, BizStep
  <1> QED
    BY <1>1, <1>2, <1>3, <1>4, <1>5, Zenon DEF WorkerNext, Ended, Others, Next

LEMMA WorkerImplementsSearchWorker == WorkerSpec => Spec
  <1>1. WorkerInit => Init
    BY DEF WorkerInit
  <1> QED
    BY <1>1, WorkerStep, PTL DEF WorkerSpec, Spec

LEMMA InitTopologyInv == WorkerInit => TopologyInv
  BY DEF WorkerInit, Init, TopologyInv, Manager!Init, Manager!Loader

\* Only a request's own steps move it inside the manager, and only a loading
\* thread's own steps that thread.
LEMMA CallStep ==
  ASSUME NEW r, Manager!StartRequest(r) \/ Manager!RequestStep(r)
  PROVE  /\ \E s : call' = [call EXCEPT ![r] = s]
         /\ UNCHANGED loading
  BY Zenon DEF Manager!StartRequest, Manager!RequestStep, Manager!PickTopology, Manager!Schedule,
       Manager!Finish, Manager!loadVars

LEMMA LoadingStep ==
  ASSUME NEW k,
         \/ \E n \in Name : Manager!StartAdd(k, n) \/ Manager!StartUnload(k, n)
         \/ Manager!LoadStep(k)
  PROVE  /\ \E s : loading' = [loading EXCEPT ![k] = s]
         /\ UNCHANGED call
  BY Zenon DEF Manager!StartAdd, Manager!StartUnload, Manager!LoadStep,
       Manager!EmplaceTopologyMonitor, Manager!CreateTopology, Manager!CreateTopologyFails,
       Manager!Modify, Manager!ModifyNothing, Manager!ModifyReturns, Manager!StorageAdd,
       Manager!WaitReferences, Manager!StorageDelete, Manager!Goto, Manager!reqVars

\* The main thread's own steps leave the loading threads and the requests alone.
LEMMA ManagerMainStep ==
  ASSUME Manager!AppProxyInit \/ Manager!ValidateBegin \/ Manager!ValidateEnd \/ Manager!Destruct
  PROVE  UNCHANGED <<loading, call>>
  BY Zenon DEF Manager!AppProxyInit, Manager!ValidateBegin, Manager!ValidateEnd,
       Manager!Destruct, Manager!loadVars, Manager!reqVars

\* Only CallMethod changes the requests being served, only the controller's
\* threads change what they do.
LEMMA MainFrame == Main => UNCHANGED threadVars
  BY Zenon DEF Main, Prepare, Configure, load, create, AppProxyInit, setup_reload_scheme, Validate,
       StartServer, StartController, waitSignal, stop, StopServer, JoinServer, DeleteServer,
       StopController, destroy, Return, threadVars

\* Nobody gets into SwApp::init but from create, and the process does not leave
\* "exited".
LEMMA MainMoves == Main => pc # "exited" /\ (pc' = "init" => pc = "create")
  BY Zenon DEF Main, Prepare, Configure, load, create, AppProxyInit, setup_reload_scheme, Validate,
       StartServer, StartController, waitSignal, stop, StopServer, JoinServer, DeleteServer,
       StopController, destroy, Return, Then, Exit, Fails

LEMMA TopologyInvStep == ASSUME IInv, TopologyInv, [WorkerNext]_allVars PROVE TopologyInv'
  <1> USE SMTT(20) DEF TopologyInv
  <1>1. MainThread \notin Beat /\ DOMAIN beat = Beat
    BY TopologyConstantsAssumption DEF IInv, TypeOK
  <1>2. ASSUME AppAdds PROVE TopologyInv'
    <2>1. /\ UNCHANGED <<at, pc, rpc, beat>>
          /\ pc = "init"
          /\ (\E n \in Name : Manager!StartAdd(MainThread, n)) \/ Manager!LoadStep(MainThread)
      BY <1>2 DEF AppAdds, vars, threadVars
    <2> QED
      BY <1>1, <2>1, LoadingStep
  <1>3. ASSUME InitApp PROVE TopologyInv'
    <2>1. /\ UNCHANGED <<at, rpc, beat>>
          /\ pc = "init"
          /\ pc' \notin {"init", "exited"}
          /\ Manager!AppProxyInit
      BY <1>3 DEF InitApp, AppProxyInit, Fails, Then, threadVars
    <2>2. loading[MainThread] = "idle"
      BY <2>1 DEF Manager!AppProxyInit
    <2> QED
      BY <2>1, <2>2, ManagerMainStep
  <1>4. ASSUME ValidateTopologies PROVE TopologyInv'
    <2>1. /\ UNCHANGED <<rpc, beat>>
          /\ pc = "Validate"
          /\ at = "run" \/ at = "validating"
          /\ \/ at' = "validating" /\ pc' = pc
             \/ at' = "run" /\ pc' # "init"
          /\ Manager!ValidateBegin \/ Manager!ValidateEnd
      BY <1>4 DEF ValidateTopologies, Validate, Fails, Then, vars, threadVars
    <2> QED
      BY <2>1, ManagerMainStep
  <1>5. ASSUME OtherMain PROVE TopologyInv'
    <2>1. /\ UNCHANGED <<rpc, beat, loading, call>>
          /\ pc \notin {"init", "Validate", "exited"}
          /\ at' = IF pc = "closeLibrary" \/ pc' # "exited" THEN at ELSE "appInit"
          /\ pc' = "init" => pc = "create"
      BY <1>5, MainFrame, MainMoves DEF OtherMain, threadVars, topologyVars
    <2> QED
      BY <2>1
  <1>6. ASSUME ExitProcess PROVE TopologyInv'
    <2>1. UNCHANGED <<pc, rpc, beat>> /\ pc = "exited" /\ at' = "exited" /\ Manager!Destruct
      BY <1>6 DEF ExitProcess, vars, threadVars
    <2> QED
      BY <2>1, ManagerMainStep
  <1>7. ASSUME Others PROVE TopologyInv'
    <2>1. UNCHANGED <<pc, rpc, loading, call, at>>
      BY <1>7, Zenon DEF Others, Reload, Send, checkHealth, topologyVars, threadVars
    <2>2. \A b \in Beat : beat'[b] # "loadBiz" => beat[b] # "loadBiz"
      BY <1>1, <1>7 DEF Others, Reload, Send, checkHealth, BeatStep, threadVars
    <2> QED
      BY <2>1, <2>2
  <1>8. ASSUME NEW r \in Request, ReadTopologyList(r) PROVE TopologyInv'
    <2>1. /\ UNCHANGED <<at, pc, beat>>
          /\ rpc' = rpc \cup {r}
          /\ Manager!StartRequest(r)
      BY <1>8 DEF ReadTopologyList, CallMethod
    <2> QED
      BY <2>1, CallStep
  <1>9. ASSUME NEW r \in Request, RequestStep(r) PROVE TopologyInv'
    <2>1. /\ UNCHANGED <<at, pc, beat>>
          /\ \/ rpc' = rpc /\ r \in rpc
             \/ rpc' = rpc \ {r} /\ call'[r] = "idle"
          /\ Manager!RequestStep(r)
      BY <1>9 DEF RequestStep, CallMethod, vars, threadVars
    <2> QED
      BY <2>1, CallStep
  <1>10. ASSUME NEW b \in Beat, BeginBiz(b) PROVE TopologyInv'
    <2>1. /\ UNCHANGED <<at, pc, rpc>>
          /\ beat' = [beat EXCEPT ![b] = "loadBiz"]
          /\ \/ \E n \in Name : Manager!StartAdd(b, n) \/ Manager!StartUnload(b, n)
             \/ UNCHANGED <<loading, call>>
      BY <1>10 DEF BeginBiz, loadBiz, BeatStep, topologyVars
    <2> QED
      BY <1>1, <2>1, LoadingStep
  <1>11. ASSUME NEW b \in Beat, BizStep(b) PROVE TopologyInv'
    <2>1. /\ UNCHANGED <<at, pc, rpc>>
          /\ beat[b] = "loadBiz"
          /\ \/ UNCHANGED beat /\ Manager!LoadStep(b)
             \/ /\ loading[b] = "idle"
                /\ beat' = [beat EXCEPT ![b] = "idle"]
                /\ UNCHANGED <<loading, call>>
      BY <1>11 DEF BizStep, loadBiz, BeatStep, topologyVars, vars, threadVars
    <2> QED
      BY <1>1, <2>1, LoadingStep
  <1>12. ASSUME UNCHANGED allVars PROVE TopologyInv'
    BY <1>12 DEF allVars, vars, threadVars, topologyVars
  <1> HIDE DEF TopologyInv
  <1> QED
    BY <1>2, <1>3, <1>4, <1>5, <1>6, <1>7, <1>8, <1>9, <1>10, <1>11, <1>12, Zenon
    DEF WorkerNext, MainStep, Ended

\* A step of the main thread outside SwApp::init and ValidateAndReserve... is
\* one of the manager's main thread, or none: stop() has waited for the requests
\* and the loads when the manager's phase becomes "stopped", and what the main
\* thread does beside an abandoned server the manager does not see.
LEMMA OtherMainStep ==
  ASSUME IInv, TopologyInv, OtherMain
  PROVE  \/ Manager!AppProxyInit \/ Manager!SetupFails \/ Manager!Stop \/ Manager!clear
         \/ UNCHANGED Manager!vars
  <1> DEFINE Kept == UNCHANGED topologyVars
             NoneInside == /\ \A k \in Manager!Loader : loading[k] = "idle"
                           /\ \A r \in Request : call[r] = "idle"
  <1>1. Kept /\ pc \notin {"init", "Validate", "exited"} /\ at = "run" /\ Main
    BY MainMoves DEF OtherMain, TopologyInv
  <1>2. at' = IF pc = "closeLibrary" \/ pc' # "exited" THEN "run" ELSE "appInit"
    BY <1>1 DEF OtherMain
  <1>3. loading[MainThread] = "idle"
    BY <1>1 DEF TopologyInv
  <1>4. ASSUME Phase = "appInit", Phase' = "stopped" PROVE Manager!AppProxyInit
    BY <1>1, <1>3, <1>4, Zenon DEF Manager!AppProxyInit, topologyVars, Manager!dbdVars,
           Manager!memVars,
       Manager!loadVars, Manager!reqVars
  <1>5. ASSUME Phase = "initialized", Phase' = "stopped" PROVE Manager!SetupFails
    BY <1>1, <1>5, Zenon DEF Manager!SetupFails, topologyVars, Manager!dbdVars, Manager!memVars,
       Manager!loadVars, Manager!reqVars
  <1>6. ASSUME Phase = "serving", Phase' = "stopped", NoneInside PROVE Manager!Stop
    BY <1>1, <1>6, Zenon DEF Manager!Stop, topologyVars, Manager!dbdVars, Manager!memVars,
       Manager!loadVars, Manager!reqVars
  <1>7. ASSUME Phase = "stopped", Phase' = "cleared" PROVE Manager!clear
    BY <1>1, <1>7, Zenon DEF Manager!clear, topologyVars, Manager!dbdVars, Manager!memVars,
       Manager!loadVars, Manager!reqVars
  <1>8. ASSUME Phase' = Phase PROVE UNCHANGED Manager!vars
    BY <1>1, <1>8, Zenon DEF topologyVars, Manager!vars
  <1>9. ASSUME rpc = {}, \A b \in Beat : beat[b] # "loadBiz" PROVE NoneInside
    BY <1>3, <1>9 DEF TopologyInv, Manager!Loader
  <1> HIDE DEF Kept, NoneInside
  <1> DEFINE Goal == \/ Phase' = Phase
                     \/ Phase = "appInit" /\ Phase' = "stopped"
                     \/ Phase = "initialized" /\ Phase' = "stopped"
                     \/ Phase = "serving" /\ Phase' = "stopped" /\ NoneInside
                     \/ Phase = "stopped" /\ Phase' = "cleared"
  <1> USE <1>1, <1>2 DEF Phase, PhaseOf, ServerAbandoned, Then, Fails, Exit
  <1>10. ASSUME Prepare PROVE Goal
    BY <1>10 DEF Prepare, serverVars, IInv, ServerInv, Started
  <1>11. ASSUME Configure PROVE Goal
    BY <1>11 DEF Configure, serverVars, IInv, ServerInv, Started
  <1>12. ASSUME load PROVE Goal
    BY <1>12 DEF load, serverVars, IInv, ServerInv, Started
  <1>13. ASSUME create PROVE Goal
    BY <1>13, Zenon DEF create, serverVars, IInv, ServerInv, Started
  <1>14. ASSUME setup_reload_scheme PROVE Goal
    BY <1>14 DEF setup_reload_scheme, serverVars, IInv, ServerInv, Started
  <1>15. ASSUME StartServer PROVE Goal
    BY <1>9, <1>15 DEF StartServer, IInv, ServerInv, ControllerInv, Started
  <1>16. ASSUME StartController PROVE Goal
    BY <1>16 DEF StartController, IInv, ServerInv, Started
  <1>17. ASSUME NEW s \in Signal, waitSignal(s) PROVE Goal
    BY <1>17 DEF waitSignal, serverVars, IInv, ServerInv, Started
  <1>18. ASSUME stop PROVE Goal
    BY <1>18 DEF stop, serverVars
  <1>19. ASSUME StopServer PROVE Goal
    BY <1>19 DEF StopServer, IInv, ServerInv, Started
  <1>20. ASSUME JoinServer PROVE Goal
    BY <1>20 DEF JoinServer, IInv, ServerInv, Started
  <1>21. ASSUME DeleteServer PROVE Goal
    BY <1>21 DEF DeleteServer, IInv, ServerInv, Started
  <1>22. ASSUME StopController PROVE Goal
    BY <1>9, <1>22 DEF StopController, IInv, ServerInv, Started
  <1>23. ASSUME destroy PROVE Goal
    BY <1>23 DEF destroy, serverVars, IInv, ServerInv, Started
  <1>24. ASSUME Return PROVE Goal
    BY <1>24 DEF Return, serverVars, IInv, ServerInv, Started
  <1>25. Goal
    BY <1>10, <1>11, <1>12, <1>13, <1>14, <1>15, <1>16, <1>17, <1>18, <1>19, <1>20, <1>21, <1>22,
           <1>23, <1>24, Zenon DEF Main, AppProxyInit, Validate
  <1> QED
    BY <1>4, <1>5, <1>6, <1>7, <1>8, <1>25, Zenon

\* Every step of the process is a step of the manager's specification, or none.
LEMMA ManagerStep ==
  ASSUME IInv, TopologyInv, [WorkerNext]_allVars
  PROVE  [Manager!Next]_(Manager!vars)
  <1>0. /\ pc = "init" => Phase = "appInit"
        /\ server = "running" /\ pc # "exited" => Phase = "serving"
        /\ controller = "running" => Phase = "serving"
        /\ pc = "exited" /\ at = "run" /\ ~ServerAbandoned => Phase = "cleared"
    BY DEF IInv, ServerInv, ControllerInv, TopologyInv, Started, ServerAbandoned, Phase, PhaseOf
  <1>1. ASSUME AppAdds PROVE Manager!Next
    BY <1>0, <1>1, Zenon
    DEF AppAdds, Manager!Next, Manager!Loader, Manager!Begin, Manager!add_topology, Manager!MayAdd
  <1>2. ASSUME InitApp \/ ValidateTopologies PROVE Manager!Next
    BY <1>2, Zenon DEF InitApp, ValidateTopologies, Manager!Next, Manager!MainStep
  <1>8. ASSUME ExitProcess PROVE Manager!Next
    <2>1. \A k \in Manager!Loader : loading[k] = "idle"
      BY <1>8 DEF ExitProcess, IInv, ServerInv, ControllerInv, Started, TopologyInv, Manager!Loader
    <2> QED
      BY <1>0, <1>8, <2>1, Zenon DEF ExitProcess, Manager!Exit, Manager!Next, Manager!MainStep
  <1>3. ASSUME OtherMain PROVE Manager!Next \/ UNCHANGED Manager!vars
    BY <1>3, OtherMainStep, Zenon DEF Manager!Next, Manager!MainStep
  <1>4. ASSUME UNCHANGED <<topologyVars, at, pc, server, started>> PROVE UNCHANGED Manager!vars
    BY <1>4 DEF topologyVars, Manager!vars, Phase, PhaseOf, ServerAbandoned
  <1>5. ASSUME Others \/ UNCHANGED allVars PROVE UNCHANGED <<topologyVars, at, pc, server, started>>
    BY <1>5, Zenon DEF Others, Reload, Send, checkHealth, serverVars, allVars, vars
  <1>6. ASSUME NEW r \in Request, ReadTopologyList(r) \/ RequestStep(r) PROVE Manager!Next
    <2>1. ASSUME ReadTopologyList(r) PROVE Phase = "serving"
      BY <1>0, <2>1, Zenon DEF ReadTopologyList, CallMethod
    <2> QED
      BY <1>6, <2>1, Zenon
      DEF ReadTopologyList, RequestStep, Manager!Next, Manager!ReadTopologyList
  <1>7. ASSUME NEW b \in Beat, BeginBiz(b) \/ BizStep(b)
        PROVE  Manager!Next \/ UNCHANGED <<topologyVars, at, pc, server, started>>
    <2>1. ASSUME BeginBiz(b) PROVE Phase = "serving"
      BY <1>0, <2>1 DEF BeginBiz, loadBiz, BeatStep
    <2>2. b \in Manager!Loader
      BY DEF Manager!Loader
    <2> QED
      BY <1>7, <2>1, <2>2, Zenon
      DEF BeginBiz, BizStep, loadBiz, serverVars, Manager!Next, Manager!Begin,
          Manager!add_topology, Manager!MayAdd, Manager!unloadTopologyByName
  <1> QED
    BY <1>1, <1>2, <1>3, <1>4, <1>5, <1>6, <1>7, <1>8, Zenon DEF WorkerNext, MainStep, Ended

\* The worker uses the manager the way ModuleTopologyManager assumes: whatever
\* startup step fails, and however requests, controller threads and signals
\* interleave, no request reads the index before the pools are tested or after
\* a stop() that stopped the server, and such a stop() returns only when no
\* thread is inside the manager.
THEOREM WorkerImplementsManager == WorkerSpec => ImplementsTopologyManager
  <1>1. WorkerInit => IInv /\ TopologyInv /\ Manager!Init
    BY InitInv, InitTopologyInv, Zenon DEF WorkerInit
  <1>2. ASSUME IInv, TopologyInv, [WorkerNext]_allVars PROVE IInv' /\ TopologyInv'
    BY <1>2, InvStep, TopologyInvStep, WorkerStep
  <1> QED
    BY <1>1, <1>2, ManagerStep, PTL DEF WorkerSpec, ImplementsTopologyManager, Manager!Spec

\* In the composed process, too, and whichever startup steps fail, the app
\* outlives its users and the exit is clean, but for a server that is abandoned
\* when the controller does not start.
THEOREM WorkerIsSafe == WorkerSpec => [](AppOutlivesUsers /\ ExitIsClean)
  BY WorkerImplementsSearchWorker, AppIsThereForItsUsers, ProcessExitsCleanly, PTL

-----------------------------------------------------------------------------
(* What ModuleTopologyManagerProofs shows of the manager holds in the      *)
(* process that uses it.                                                   *)

Proved == INSTANCE ModuleTopologyManagerProofs WITH
            phase <- Phase, pc <- loading, rpc <- call, Main <- MainThread,
            BizThread <- Beat, AppThread <- {}, Inspector <- {}

\* The manager's proofs are about the specification it has in WorkerTopologies:
\* the two instances are the same formula.
LEMMA SameSpecification == Manager!Spec => Proved!Spec
  <1>1. Manager!Init => Proved!Init
    BY Zenon
    DEF Manager!Init, Proved!Init, Manager!Loader, Proved!Loader, Manager!DBD!Init,
        Proved!DBD!Init, Manager!Reader, Proved!Reader, Manager!EmptyIndex, Proved!EmptyIndex
  <1>2. [Manager!Next]_(Manager!vars) => [Proved!Next]_(Proved!vars)
    BY ZenonT(30)
    DEF Manager!Next, Proved!Next, Manager!Loader, Proved!Loader, Manager!Begin,
        Proved!Begin, Manager!LoadStep, Proved!LoadStep, Manager!RequestStep,
        Proved!RequestStep, Manager!InspectorStep, Proved!InspectorStep,
        Manager!MainStep, Proved!MainStep, Manager!add_topology, Proved!add_topology, Manager!StartAdd,
        Proved!StartAdd,
        Manager!MayAdd, Proved!MayAdd, Manager!Goto, Proved!Goto,
        Manager!EmplaceTopologyMonitor, Proved!EmplaceTopologyMonitor,
        Manager!CreateTopology, Proved!CreateTopology, Manager!CreateTopologyFails,
        Proved!CreateTopologyFails, Manager!unloadTopologyByName,
        Proved!unloadTopologyByName, Manager!StartUnload,
        Proved!StartUnload, Manager!Modify, Proved!Modify,
        Manager!ModifyNothing, Proved!ModifyNothing, Manager!ModifyReturns,
        Proved!ModifyReturns, Manager!StorageAdd, Proved!StorageAdd,
        Manager!WaitReferences, Proved!WaitReferences, Manager!StorageDelete,
        Proved!StorageDelete, Manager!ReadTopologyList, Proved!ReadTopologyList, Manager!StartRequest,
        Proved!StartRequest,
        Manager!PickTopology, Proved!PickTopology, Manager!Schedule, Proved!Schedule,
        Manager!Finish, Proved!Finish, Manager!AppProxyInit, Proved!AppProxyInit,
        Manager!SetupFails, Proved!SetupFails, Manager!ValidateBegin,
        Proved!ValidateBegin, Manager!ValidateEnd, Proved!ValidateEnd, Manager!Stop,
        Proved!Stop, Manager!clear, Proved!clear, Manager!Exit, Proved!Exit, Manager!Destruct,
        Proved!Destruct,
        Manager!Exited, Proved!Exited, Manager!Listed, Proved!Listed,
        Manager!print_session_using_count, Proved!print_session_using_count,
        Manager!DeepCopy, Proved!DeepCopy, Manager!Copied, Proved!Copied,
        Manager!ApplyModifier, Proved!ApplyModifier, Manager!Reader, Proved!Reader,
        Manager!dbdVars, Proved!dbdVars, Manager!memVars, Proved!memVars,
        Manager!loadVars, Proved!loadVars, Manager!reqVars, Proved!reqVars,
        Manager!mainVars, Proved!mainVars, Manager!vars, Proved!vars,
        Manager!DBD!BeginRead, Proved!DBD!BeginRead, Manager!DBD!EndRead,
        Proved!DBD!EndRead, Manager!DBD!Publish, Proved!DBD!Publish, Manager!DBD!Return,
        Proved!DBD!Return, Manager!DBD!Reading, Proved!DBD!Reading
  <1> QED
    BY <1>1, <1>2, PTL DEF Manager!Spec, Proved!Spec

\* The manager keeps its promises in the whole process, where the requests come
\* from the RpcServer, the loads from the controller, and the main thread starts
\* and stops both: no request, reader or index reaches a topology that has been
\* deleted, requests run on tested pools, none fails for want of a topology, and
\* exit() leaves none behind.
THEOREM TopologiesAreSafe ==
  WorkerSpec => [](/\ Manager!NoUseAfterFree
                   /\ Manager!RunsOnTestedPool
                   /\ Manager!EveryRequestRuns
                   /\ Manager!NothingLeftAtExit)
  <1>1. /\ Default \in Name /\ Served \in Name
        /\ NULL \notin Topo /\ NULL \notin Name /\ NULL \notin Proved!Loader
        /\ NULL \notin [Name -> Topo \cup {NULL}]
        /\ MainThread \notin Request \cup {} \cup Beat \cup {}
        /\ {} \cap Beat = {} /\ Request \cap {} = {}
    BY TopologyConstantsAssumption, Zenon DEF Proved!Loader
  <1>2. Proved!Spec => []Proved!NoUseAfterFree
    BY <1>1, Proved!UseAfterFreeImpossible, Zenon
  <1>3. Proved!Spec => []Proved!RunsOnTestedPool
    BY <1>1, Proved!PoolsAreTested, Zenon
  <1>4. Proved!Spec => []Proved!EveryRequestRuns
    BY <1>1, Proved!RequestsFindTopology, Zenon
  <1>5. Proved!Spec => []Proved!NothingLeftAtExit
    BY <1>1, Proved!NothingLeaksAtExit, Zenon
  <1>6. /\ Proved!NoUseAfterFree => Manager!NoUseAfterFree
        /\ Proved!RunsOnTestedPool => Manager!RunsOnTestedPool
        /\ Proved!EveryRequestRuns => Manager!EveryRequestRuns
        /\ Proved!NothingLeftAtExit => Manager!NothingLeftAtExit
    BY Zenon
    DEF Manager!NoUseAfterFree, Proved!NoUseAfterFree, Manager!Listed, Proved!Listed,
        Manager!Reader, Proved!Reader, Manager!RunsOnTestedPool, Proved!RunsOnTestedPool,
        Manager!EveryRequestRuns, Proved!EveryRequestRuns, Manager!NothingLeftAtExit,
        Proved!NothingLeftAtExit
  <1> QED
    BY <1>2, <1>3, <1>4, <1>5, <1>6, SameSpecification, WorkerImplementsManager, PTL
    DEF ImplementsTopologyManager
=============================================================================
