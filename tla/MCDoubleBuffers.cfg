CONSTANTS
  Thread = {t1, t2, t3}
  Wrapper = {w1, w2}
  Data <- MCData
  Fn <- GoodFn
  Apply <- GoodApply
  Ret <- GoodRet
  InitData <- MCInitData
  NULL = NULL
  MaxCalls = 4
  Reader = {r1, r2}
  Writer = {u1, u2}
SPECIFICATION AllSpec
INVARIANTS NoDataRace NoFreedWrapper InstancesEquivalent FirstUpdateIsAlone
PROPERTIES ImplementsReadMostlyData AllCallsReturn
