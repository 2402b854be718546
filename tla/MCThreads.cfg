\* Two static workers are created, started, joined, listed in the registry.
SPECIFICATION Spec
CONSTANTS
  main = main
  t1 = t1
  t2 = t2
  Idle = Idle
  None = None
  RList = RList
  Main = main
  Threads = {Idle, main, t1, t2}
  BasePrio <- Prios
  Dynamic = {}
  Walkers = {main}
  ExitCodes = {"code"}
  MaxRefs = 1
INVARIANTS
  TypeOK
  JoinSeesExitCode
  RegistryExact
\* chSysHalt stops the system.
CHECK_DEADLOCK FALSE
