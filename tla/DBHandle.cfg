\* LMDB and SQLite: the count decides.
SPECIFICATION HSpec
CONSTANTS
  Clients = {t1, t2, t3, t4, t5}
  TestsHandle = FALSE
INVARIANTS
  HTypeOK
  HandleOpenWhileConnected
  HandleClosedAtEnd
PROPERTIES
  HandleChangesAlone
