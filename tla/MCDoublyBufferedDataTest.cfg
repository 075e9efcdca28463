CONSTANTS
  Thread = {t1, t2}
  Wrapper = {w1, w2}
  Data <- MCData
  Fn <- TestFn
  Apply <- TestApply
  Ret <- TestRet
  InitData <- MCInitData
  NULL = NULL
  MaxCalls = 4
SPECIFICATION BoundedSpec
INVARIANT InstancesEquivalent
