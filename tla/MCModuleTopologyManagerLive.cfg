CONSTANTS
  Name = {default, n1}
  Default = default
  Served = default
  Topo = {a, b, c}
  Request = {r1, r2}
  Main = main
  AppThread = {k2}
  BizThread = {k1}
  Inspector = {}
  NULL = NULL
  MaxCalls = 1
SPECIFICATION LiveSpec
PROPERTY LoadsReturn
