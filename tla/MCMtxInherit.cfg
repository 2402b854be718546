\* Priority inheritance against chThdSetPriority.
SPECIFICATION Spec
CONSTANTS
  t1 = t1
  t2 = t2
  t3 = t3
  Idle = Idle
  None = None
  Threads = {Idle, t1, t2, t3}
  BasePrio <- Prios
  Mutexes = {"m1"}
  Conds = {}
  Levels <- AllMove
  OwnersMay = TRUE
  Rank <- InOrder
INVARIANT
  HoldersInherit
