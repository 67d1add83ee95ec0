SPECIFICATION FairSpec
CONSTANTS
  NumThreads = 2
  Configs <- UnevenConfig
  TestsHandle = FALSE
  MayFail = FALSE
PROPERTIES
  RunAlwaysTerminates
