SPECIFICATION Spec
CONSTANTS
  Threads = {t1, t2}
  RecordCount = 2
  NewKeys = 2
  HotStart = 1
  Distributions = {"zipfian"}
  MaxInserts = 2
INVARIANTS
  ChosenKeysGiven
