\* Two clients, seconds of two ticks, tokens of three parts.
SPECIFICATION FairSpec
CONSTANTS
  NumClients = 2
  Second = 2
  Precision = 3
  IntMax = 47
  MaxAge = 3
  MaxSets = 3
  Garbage <- MCGarbage
  Configs <- MCConfigs
INVARIANTS
  TypeOK
  LimitKept
  NothingLost
  CrashOnlyOnZeroRate
PROPERTIES
  RunEnds
