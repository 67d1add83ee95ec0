\* Two clients at the barrier, one client that only counts, a poller.
SPECIFICATION FairSpec
CONSTANTS
  Counting = {c1, c2, c3}
  Awaiting = {c1, c2}
  Polling = {p}
  Count = 3
  NoThread = none
INVARIANTS
  TypeOK
  NoEarlyReturn
  NoLostWakeup
PROPERTIES
  EveryoneReturns
  IsLatch
