-------------------- MODULE MCModuleTopologyManagerLive --------------------
(***************************************************************************)
(* Liveness.  _modify_mutex promises no turn to a waiting thread, so each  *)
(* loading thread makes at most MaxCalls calls; requests keep coming.      *)
(***************************************************************************)
EXTENDS MCModuleTopologyManager

CONSTANT MaxCalls  \* bound on the calls of a loading thread

VARIABLE calls  \* calls made so far by each loading thread

liveVars == <<vars, calls>>

LiveInit == Init /\ calls = [k \in Loader |-> 0]

LiveBegin(k) ==
  /\ calls[k] < MaxCalls
  /\ Begin(k)
  /\ calls' = [calls EXCEPT ![k] = @ + 1]

LiveLoad(k) == LoadStep(k) /\ UNCHANGED calls
LiveRequest(r) == RequestStep(r) /\ UNCHANGED calls
LiveMain == (ValidateEnd \/ AppProxyInit \/ SetupFails \/ ValidateBegin) /\ UNCHANGED calls

LiveNext ==
  \/ \E k \in Loader : LiveBegin(k) \/ LiveLoad(k)
  \/ \E r \in Request : LiveRequest(r) \/ (ReadTopologyList(r) /\ UNCHANGED calls)
  \/ LiveMain
  \/ (Stop \/ clear \/ Exit \/ Exited) /\ UNCHANGED calls

\* A thread makes its next step unless it is blocked for ever, and a request
\* that is scheduled finishes.
LiveSpec ==
  /\ LiveInit
  /\ [][LiveNext]_liveVars
  /\ \A k \in Loader : WF_liveVars(LiveLoad(k))
  /\ \A r \in Request : WF_liveVars(LiveRequest(r))
  /\ WF_liveVars(LiveMain)

\* Every add_topology and remove_topology returns although requests never stop
\* coming: the spin in wait_and_delete ends, since no new request can pick the
\* topology that was taken out of the index.
LoadsReturn == \A k \in Loader : pc[k] # "idle" ~> pc[k] = "idle"
=============================================================================
