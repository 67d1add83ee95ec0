SPECIFICATION Spec
CONSTANTS
  Threads = {t1, t2}
  NumOps = 2
  Latencies = {1, 2}
  NoMin = 9
  CountModulus = 3
  MaxReports = 3
SYMMETRY ThreadSymmetry
INVARIANTS
  TypeOK
  ExactAtRest
  StatusBetween
  StatusPlausible
