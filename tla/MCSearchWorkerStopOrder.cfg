SPECIFICATION Spec
CONSTANTS
  Request = {r1, r2}
  Beat = {b1}
  MayFail <- None
  Signal = {"SIGTERM", "SIGPIPE"}
INVARIANT NoFreedServer
