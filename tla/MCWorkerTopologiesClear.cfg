SPECIFICATION WorkerSpec
CONSTANTS
  Request = {r1}
  Beat = {b1}
  MayFail <- None
  Signal = {"SIGTERM"}
  Name = {default, n1}
  Default = default
  Served = default
  Topo = {a, b, c}
  MainThread = main
  NULL = NULL
INVARIANT TopologiesGoBeforeApp
