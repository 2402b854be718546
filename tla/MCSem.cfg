\* Two threads on two semaphores, with the unlocked assertions compiled in.  Nothing
\* in ChSem or Semaphore tells one semaphore from another.
SPECIFICATION Spec
CONSTANTS
  t1 = t1
  t2 = t2
  Idle = Idle
  None = None
  Threads = {Idle, t1, t2}
  BasePrio <- TwoPrios
  Sems = {s1, s2}
  MaxReset = 1
  MaxAdd = 2
  MaxCnt = 1
  DbgAsserts = TRUE
SYMMETRY SemSymmetry
INVARIANTS
  TypeOK
  QueuesMatchStates
  CounterMatchesQueue
  PriorityOrder
  TimerBelongsToWait
PROPERTIES
  ImplementsSemaphore
\* chSysHalt stops the system for good.
CHECK_DEADLOCK FALSE
