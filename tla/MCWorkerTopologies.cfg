SPECIFICATION FairWorkerSpec
CONSTANTS
  Request = {r1}
  Beat = {b1}
  MayFail <- AnyStep
  Signal = {"SIGTERM", "SIGPIPE"}
  Name = {default, n1}
  Default = default
  Served = default
  Topo = {a, b, c}
  MainThread = main
  NULL = NULL
INVARIANTS AppOutlivesUsers ExitIsClean
PROPERTIES TerminatesOnSignal ImplementsTopologyManager
