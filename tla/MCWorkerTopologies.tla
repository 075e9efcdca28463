------------------------- MODULE MCWorkerTopologies -------------------------
(* TLC instances of WorkerTopologies.                                      *)
EXTENDS WorkerTopologies

AnyStep == {Startup[j] : j \in DOMAIN Startup}
None == {}
=============================================================================
