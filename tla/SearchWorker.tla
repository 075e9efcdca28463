---------------------------- MODULE SearchWorker ----------------------------
(***************************************************************************)
(* The life of a search worker process: sw_main (ServerMain.cpp),          *)
(* SearchWorker, AppProxy, AppLoader and RpcServer.  The main thread       *)
(* starts and stops; brpc threads run requests, threads of the             *)
(* WorkerTargetController check health and load bizs, the reload thread    *)
(* reloads modules.  All of them use the app, whose code AppLoader has got *)
(* hold of.                                                                *)
(***************************************************************************)
EXTENDS Integers

CONSTANTS Request, \* RPCs
          Beat,    \* threads of the WorkerTargetController
          MayFail, \* the startup steps that can fail in this instance
          Signal   \* the signals of global_mask that are sent

\* The startup steps in order, named after the call that can fail; whether load()
\* does is up to the library.
Startup == <<"parseAndValidateArgs", "registerSignalHandler", "loadConfiguration",
             "InitCatClient", "create", "init", "setup_reload_scheme",
             "Validate", "RpcServer.start", "WorkerTargetController.start">>

ASSUME ConstantsAssumption ==
  /\ MayFail \subseteq {Startup[j] : j \in DOMAIN Startup}
  /\ Signal \subseteq {"SIGINT", "SIGTERM", "SIGUSR1", "SIGUSR2", "SIGPIPE"}

VARIABLES
  pc,         \* next step of the main thread
  succ,       \* startSearchWorker returned true
  code,       \* what sw_main returned
  sent,       \* the signals sent so far; each is sent at most once
  pending,    \* blocked signals that wait for sigwait
  linked, library, m_pHandle, _creator, _destroyer, rwlock, \* _appLoader
  app,        \* the SwApp: "none", "live" or "destroyed"
  proxy,      \* _appProxy # nullptr
  reload,     \* _reload_thread: "none", "sleeping", "reloading" or "joined"
  rpcServer,  \* _rpcServer # nullptr
  server,     \* that RpcServer: "none", "built", "running", "stopping", "joined" or "freed"
  controller, \* "none", "running", "stopping" or "joined"
  started,    \* _started
  rpc,        \* the requests being served
  beat        \* what each controller thread is doing

Loader == INSTANCE AppLoader

sigVars    == <<sent, pending>>
loaderVars == <<linked, library, m_pHandle, _creator, _destroyer, rwlock>>
appVars    == <<loaderVars, app, proxy, reload>>
serverVars == <<rpcServer, server, controller, started>>
threadVars == <<rpc, beat>>
vars == <<pc, succ, code, sigVars, appVars, serverVars, threadVars>>

Init ==
  /\ pc = "parseAndValidateArgs"
  /\ succ = FALSE
  /\ code = 1
  /\ sent = {}
  /\ pending = {}
  /\ Loader!Init
  /\ app = "none"
  /\ proxy = FALSE
  /\ reload = "none"
  /\ rpcServer = FALSE
  /\ server = "none"
  /\ controller = "none"
  /\ started = FALSE
  /\ rpc = {}
  /\ beat = [b \in Beat |-> "idle"]

-----------------------------------------------------------------------------
(* Startup.                                                                *)

Then(l) == pc' = l /\ UNCHANGED <<succ, code>>

Exit(c) == pc' = "exited" /\ code' = c /\ UNCHANGED succ

\* Mutant: the worker is not deleted.
FailsUndeleted(step) == pc = step /\ step \in MayFail /\ Exit(-1)

\* startSearchWorker deletes the worker, whose destructor begins with stop().
Fails(step) == pc = step /\ step \in MayFail /\ Then("stop")

\* Arguments and signal mask; before the worker exists a failure returns -1.
Prepare ==
  /\ \/ pc = "parseAndValidateArgs" /\ Then("registerSignalHandler")
     \/ pc = "registerSignalHandler" /\ Then("loadConfiguration")
     \/ pc \in {"parseAndValidateArgs", "registerSignalHandler"} \cap MayFail /\ Exit(-1)
  /\ UNCHANGED <<sigVars, appVars, serverVars, threadVars>>

\* The beginning of SearchWorker::init.
Configure ==
  /\ \/ pc = "loadConfiguration" /\ Then("InitCatClient")
     \/ pc = "InitCatClient" /\ Then("load")
     \/ Fails("loadConfiguration")
     \/ Fails("InitCatClient")
  /\ UNCHANGED <<sigVars, appVars, serverVars, threadVars>>

load ==
  /\ pc = "load"
  /\ \E ok \in BOOLEAN : Loader!load(ok) /\ Then(IF ok THEN "create" ELSE "stop")
  /\ UNCHANGED <<sigVars, app, proxy, reload, serverVars, threadVars>>

\* An app that is no SwApp is destroyed again; one of another interface is not
\* made at all.
create ==
  /\ pc = "create"
  /\ \/ Loader!create(TRUE) /\ Then("init") /\ app' = "live" /\ proxy' = TRUE
     \/ Loader!destroy(TRUE) /\ Fails("create") /\ app' \in {"none", "destroyed"} /\ UNCHANGED proxy
  /\ UNCHANGED <<sigVars, reload, serverVars, threadVars>>

AppProxyInit ==
  /\ \/ pc = "init" /\ Then("setup_reload_scheme")
     \/ Fails("init")
  /\ UNCHANGED <<sigVars, appVars, serverVars, threadVars>>

\* The thread is started last, after every module's init and first load.
setup_reload_scheme ==
  /\ \/ pc = "setup_reload_scheme" /\ Then("Validate") /\ reload' = "sleeping"
     \/ Fails("setup_reload_scheme") /\ UNCHANGED reload
  /\ UNCHANGED <<sigVars, loaderVars, app, proxy, serverVars, threadVars>>

Validate ==
  /\ \/ pc = "Validate" /\ Then("RpcServer.start")
     \/ Fails("Validate")
  /\ UNCHANGED <<sigVars, appVars, serverVars, threadVars>>

\* addService or brpc's Start fails: the RpcServer is there and does not run.
StartServer ==
  /\ pc = "RpcServer.start"
  /\ rpcServer' = TRUE
  /\ \/ Then("WorkerTargetController.start") /\ server' = "running"
     \/ Fails("RpcServer.start") /\ server' = "built"
  /\ UNCHANGED <<sigVars, appVars, controller, started, threadVars>>

\* Only now is the worker _started.  If the controller does not start, the
\* server that runs by now is left to a stop() that does nothing.
StartController ==
  /\ pc = "WorkerTargetController.start"
  /\ \/ /\ pc' = "waitSignal"
        /\ succ' = TRUE
        /\ controller' = "running"
        /\ started' = TRUE
        /\ UNCHANGED code
     \/ Fails("WorkerTargetController.start") /\ UNCHANGED <<controller, started>>
  /\ UNCHANGED <<sigVars, appVars, rpcServer, server, threadVars>>

-----------------------------------------------------------------------------
(* Signals are blocked, so that one sent during startup waits for sigwait. *)

Send(s) ==
  /\ pc \notin {"parseAndValidateArgs", "registerSignalHandler", "exited"}
  /\ s \notin sent
  /\ sent' = sent \cup {s}
  /\ pending' = pending \cup {s}
  /\ UNCHANGED <<pc, succ, code, appVars, serverVars, threadVars>>

\* Mutant: no case for SIGTERM in the switch.
waitSignalNoTerm(s) ==
  /\ pc = "waitSignal"
  /\ s \in pending
  /\ pending' = pending \ {s}
  /\ IF s \in {"SIGPIPE", "SIGTERM"} THEN UNCHANGED <<pc, succ, code>> ELSE Then("stop")
  /\ UNCHANGED <<sent, appVars, serverVars, threadVars>>

waitSignal(s) ==
  /\ pc = "waitSignal"
  /\ s \in pending
  /\ pending' = pending \ {s}
  /\ IF s = "SIGPIPE" THEN UNCHANGED <<pc, succ, code>> ELSE Then("stop")
  /\ UNCHANGED <<sent, appVars, serverVars, threadVars>>

-----------------------------------------------------------------------------
(* SearchWorker::stop.                                                     *)

stop ==
  /\ pc = "stop"
  /\ IF started THEN Then("Stop") ELSE Then("destroy")
  /\ UNCHANGED <<sigVars, appVars, serverVars, threadVars>>

StopServer ==
  /\ pc = "Stop"
  /\ server' = "stopping"
  /\ Then("Join")
  /\ UNCHANGED <<sigVars, appVars, rpcServer, controller, started, threadVars>>

JoinServer ==
  /\ pc = "Join"
  /\ rpc = {}
  /\ server' = "joined"
  /\ Then("deleteServer")
  /\ UNCHANGED <<sigVars, appVars, rpcServer, controller, started, threadVars>>

\* DELETE_AND_SET_NULL(_rpcServer): two steps for a thread that looks on.
DeleteServer ==
  /\ \/ pc = "deleteServer" /\ server' = "freed" /\ Then("setNull") /\ UNCHANGED rpcServer
     \/ pc = "setNull" /\ rpcServer' = FALSE /\ Then("stopController") /\ UNCHANGED server
  /\ UNCHANGED <<sigVars, appVars, controller, started, threadVars>>

\* Mutant: the threads of the controller are not joined.
StopControllerUnjoined ==
  /\ \/ pc = "stopController" /\ controller' = "stopping" /\ Then("joinController")
        /\ UNCHANGED started
     \/ pc = "joinController" /\ controller' = "joined" /\ started' = FALSE /\ Then("destroy")
  /\ UNCHANGED <<sigVars, appVars, rpcServer, server, threadVars>>

StopController ==
  /\ \/ pc = "stopController" /\ controller' = "stopping" /\ Then("joinController")
        /\ UNCHANGED started
     \/ /\ pc = "joinController"
        /\ \A b \in Beat : beat[b] = "idle"
        /\ controller' = "joined"
        /\ started' = FALSE
        /\ Then("destroy")
  /\ UNCHANGED <<sigVars, appVars, rpcServer, server, threadVars>>

-----------------------------------------------------------------------------
(* SearchWorker::destroy, and the rest of sw_main.                         *)

\* Mutant: the app is destroyed before the proxy, whose thread uses it.
destroyAppFirst ==
  /\ \/ /\ pc = "destroy"
        /\ app' = IF proxy THEN "destroyed" ELSE app
        /\ Then(IF proxy THEN "destroyApp" ELSE "closeLibrary")
        /\ UNCHANGED <<proxy, reload>>
     \/ /\ pc = "destroyApp"
        /\ reload # "reloading"
        /\ reload' = IF reload = "none" THEN "none" ELSE "joined"
        /\ proxy' = FALSE
        /\ Then("closeLibrary")
        /\ UNCHANGED app
  /\ UNCHANGED <<sigVars, loaderVars, serverVars, threadVars>>

\* ~AppProxy joins the reload thread before the loader destroys the app.  (What
\* clear() does to the topologies is WorkerTopologies.)
destroy ==
  /\ \/ /\ pc = "destroy"
        /\ reload # "reloading"
        /\ reload' = IF reload = "none" THEN "none" ELSE "joined"
        /\ proxy' = FALSE
        /\ Then(IF proxy THEN "destroyApp" ELSE "closeLibrary")
        /\ UNCHANGED <<loaderVars, app>>
     \/ /\ pc = "destroyApp"
        /\ \E done \in BOOLEAN : Loader!destroy(done) /\ app' = IF done THEN "destroyed" ELSE app
        /\ Then("closeLibrary")
        /\ UNCHANGED <<proxy, reload>>
  /\ UNCHANGED <<sigVars, serverVars, threadVars>>

\* After a failed startup the worker is deleted, and its loader with it; after a
\* signal the worker is left to the end of the process.
Return ==
  /\ pc = "closeLibrary"
  /\ IF succ THEN Exit(0) /\ UNCHANGED loaderVars ELSE Exit(-1) /\ Loader!Close
  /\ UNCHANGED <<sigVars, app, proxy, reload, serverVars, threadVars>>

Exited == pc = "exited" /\ UNCHANGED vars

-----------------------------------------------------------------------------
(* The other threads.                                                      *)

CallMethod(r) ==
  /\ pc # "exited"
  /\ \/ server = "running" /\ r \notin rpc /\ rpc' = rpc \cup {r}
     \/ r \in rpc /\ rpc' = rpc \ {r}
  /\ UNCHANGED <<pc, succ, code, sigVars, appVars, serverVars, beat>>

Reload ==
  /\ pc # "exited"
  /\ \/ reload = "sleeping" /\ reload' = "reloading"
     \/ reload = "reloading" /\ reload' = "sleeping"
  /\ UNCHANGED <<pc, succ, code, sigVars, loaderVars, app, proxy, serverVars, threadVars>>

BeatStep(b, from, to) == beat[b] = from /\ beat' = [beat EXCEPT ![b] = to]

\* checkHealth, one step per access, or loadBiz and unloadBiz.  What a freed
\* server answers is anything.
checkHealth(b) ==
  /\ \/ controller = "running" /\ BeatStep(b, "idle", IF rpcServer THEN "isRunning" ELSE "idle")
     \/ server # "running" /\ BeatStep(b, "isRunning", "idle")
     \/ server \in {"running", "freed"} /\ BeatStep(b, "isRunning", "check_health")
     \/ BeatStep(b, "check_health", "idle")
  /\ UNCHANGED <<pc, succ, code, sigVars, appVars, serverVars, rpc>>

loadBiz(b) ==
  /\ \/ controller = "running" /\ BeatStep(b, "idle", "loadBiz")
     \/ BeatStep(b, "loadBiz", "idle")
  /\ UNCHANGED <<pc, succ, code, sigVars, appVars, serverVars, rpc>>

-----------------------------------------------------------------------------
Main ==
  \/ Prepare \/ Configure \/ load \/ create \/ AppProxyInit \/ setup_reload_scheme
  \/ Validate \/ StartServer \/ StartController
  \/ \E s \in Signal : waitSignal(s)
  \/ stop \/ StopServer \/ JoinServer \/ DeleteServer \/ StopController
  \/ destroy \/ Return

Next ==
  \/ Main
  \/ \E s \in Signal : Send(s)
  \/ \E r \in Request : CallMethod(r)
  \/ Reload
  \/ \E b \in Beat : checkHealth(b) \/ loadBiz(b)
  \/ Exited

Spec == Init /\ [][Next]_vars

-----------------------------------------------------------------------------
(* Properties.                                                             *)

\* start() returned false with the server running: stop() of a worker that is
\* not _started returns at once, and nobody else stops the server.
ServerAbandoned ==
  /\ server = "running"
  /\ ~started
  /\ pc \in {"stop", "destroy", "destroyApp", "closeLibrary", "exited"}

AppIsThere == app = "live" /\ Loader!CodeIsThere

\* Whatever thread runs the app's code, the app has not been destroyed and its
\* library is open: stop() and destroy() wait for every kind of user before
\* they take the app away.  The requests of a server that start() abandons, when
\* the controller fails to start, are the one exception.
AppOutlivesUsers ==
  /\ reload = "reloading" => AppIsThere
  /\ \A b \in Beat : beat[b] \in {"check_health", "loadBiz"} => AppIsThere
  /\ rpc # {} => AppIsThere \/ ServerAbandoned

\* When sw_main returns, whichever step failed, the controller and the reload
\* thread are joined and the app has been destroyed ("reverse of start",
\* "reverse of init"), and so is the server: unless the controller failed to
\* start, the last step of all, after which the server is still running and
\* sw_main has returned -1.
ExitIsClean ==
  pc = "exited" =>
    /\ controller \in {"none", "joined"}
    /\ reload \in {"none", "joined"}
    /\ app # "live"
    /\ \/ server \in {"none", "built", "freed"}
       \/ server = "running" /\ controller = "none" /\ code = -1

\* checkHealth of a controller thread never looks at a deleted RpcServer, as
\* it could not if stop() were the "reverse of start".
NoFreedServer == \A b \in Beat : beat[b] = "isRunning" => server # "freed"

\* A request to terminate is not lost, even if it comes during startup: the
\* process exits.
TerminatesOnSignal == "SIGTERM" \in pending ~> pc = "exited"
=============================================================================
