SPECIFICATION Spec
CONSTANTS
  NumThreads = 2
  Configs <- WarmupConfig
  TestsHandle = FALSE
  MayFail = FALSE
INVARIANTS
  WarmupCountExact
