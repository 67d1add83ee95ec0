\* Three threads and a window that can be filled and overrun.
SPECIFICATION Spec
CONSTANTS
  Threads = {t1, t2, t3}
  RecordCount = 1
  WindowSize = 3
  MaxKey = 5
  InsertMayFail = TRUE
SYMMETRY ThreadSymmetry
INVARIANTS
  TypeOK
  ChosenKeysTried
  LimitIsPrefix
  ThrowsOnlyOnOverrun
PROPERTIES
  LimitNeverRetreats
