SPECIFICATION Spec
CONSTANTS
  Threads = {t1, t2, t3}
  RecordCount = 2
  NewKeys = 2
  HotStart = 1
  Distributions = {"uniform", "zipfian", "latest"}
  MaxInserts = 4
SYMMETRY ThreadSymmetry
INVARIANTS
  TypeOK
  KeysGivenOnce
  ChosenKeysIssued
