\* A thread, a more urgent one and handlers on a mailbox of two slots.
SPECIFICATION MBFairSpec
CONSTANTS
  t1 = t1
  t2 = t2
  Idle = Idle
  None = None
  Threads = {Idle, t1, t2}
  BasePrio <- TwoPrios
  Sems = {"empty", "full"}
  MaxReset = 0
  MaxAdd = 1
  MaxCnt = 0
  DbgAsserts = FALSE
  Payloads = {"a", "b"}
  Slots = 2
  ResetAnyTime = FALSE
INVARIANTS
  MBTypeOK
  SlotsBalance
PROPERTIES
  NoWaiterStarves
  ImplementsChannel
