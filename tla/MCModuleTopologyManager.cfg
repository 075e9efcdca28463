CONSTANTS
  Name = {default, n1}
  Default = default
  Served = default
  Topo = {a, b, c, d}
  Request = {r1, r2}
  Main = main
  AppThread = {}
  BizThread = {k1, k2}
  Inspector = {m1}
  NULL = NULL
SPECIFICATION Spec
SYMMETRY Symmetry
INVARIANTS NoUseAfterFree RunsOnTestedPool NothingLeftAtExit EveryRequestRuns
