--------------------------- MODULE MCSearchWorker ---------------------------
(***************************************************************************)
(* A TLC instance of SearchWorker.                                         *)
(***************************************************************************)
EXTENDS SearchWorker

None == {}  \* every startup step succeeds
=============================================================================
