\* The assertion that chSemSignal evaluates before it takes the lock.
SPECIFICATION Spec
CONSTANTS
  t1 = t1
  t2 = t2
  Idle = Idle
  None = None
  Threads = {Idle, t1, t2}
  BasePrio <- TwoPrios
  Sems = {"s1"}
  MaxReset = 0
  MaxAdd = 1
  MaxCnt = 1
  DbgAsserts = TRUE
INVARIANT
  NoSpuriousHalt
\* chSysHalt stops the system for good.
CHECK_DEADLOCK FALSE
