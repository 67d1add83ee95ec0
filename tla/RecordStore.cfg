CONSTANTS
  t1 = t1
  t2 = t2
  a = a
  b = b
  NoThread = NoThread
  Threads <- MCThreads
  Values <- MCValues
  Keys <- MCKeys
  FieldLists <- MCFieldLists
  Writes <- MCWrites
  FieldCount = 2
  MaxScan = 2
  Configs <- BearableConfigs
SPECIFICATION Spec
SYMMETRY Symmetry
INVARIANTS TypeOK RowsComplete
PROPERTY AtomicButOvertaken
