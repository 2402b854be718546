\* Liveness: the most urgent thread against one that never sleeps.
SPECIFICATION FairSpec
CONSTANTS
  t1 = t1
  t2 = t2
  t3 = t3
  Idle = Idle
  None = None
  Threads = {Idle, t1, t2, t3}
  BasePrio <- Prios
  Mutexes = {"m1"}
  Conds = {}
  Levels <- Fixed
  OwnersMay = FALSE
  Rank <- InOrder
PROPERTIES
  UrgentGetsMutex
