\* A window no key can outrun, and inserts that always succeed.
SPECIFICATION FairSpec
CONSTANTS
  Threads = {t1, t2, t3}
  RecordCount = 2
  WindowSize = 8
  MaxKey = 5
  InsertMayFail = FALSE
INVARIANTS
  ChosenKeysExist
PROPERTIES
  IsPrefixCounter
  AckedBecomesVisible
