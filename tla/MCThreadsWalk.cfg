\* A walk of the registry meets a dynamic thread that is being released.
SPECIFICATION Spec
CONSTANTS
  main = main
  t1 = t1
  t2 = t2
  Idle = Idle
  None = None
  RList = RList
  Main = main
  Threads = {Idle, main, t1, t2}
  BasePrio <- Prios
  Dynamic = {t1}
  Walkers = {t2}
  ExitCodes = {"code"}
  MaxRefs = 1
INVARIANTS
  WalkedThreadsKept
\* Threads may all wait for each other.
CHECK_DEADLOCK FALSE
