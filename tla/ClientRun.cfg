SPECIFICATION FairSpec
CONSTANTS
  NumThreads = 2
  Configs <- MCConfigs
  TestsHandle = TRUE
  MayFail = TRUE
INVARIANTS
  TypeOK
  MeasurementAfterWarmup
  MeasuredOperationsAreTimed
  AllOperationsDone
  FinalStatusComplete
  WarmupNotMeasured
  OpenDuringRun
PROPERTIES
  RunTerminates
