\* Two dynamic workers: references, exit and the release of memory.
SPECIFICATION Spec
CONSTANTS
  main = main
  t1 = t1
  t2 = t2
  Idle = Idle
  None = None
  RList = RList
  Main = main
  Threads = {Idle, main, t1, t2}
  BasePrio <- Peers
  Dynamic = {t1, t2}
  Walkers = {}
  ExitCodes = {"code"}
  MaxRefs = 2
INVARIANTS
  NoJoinerForgotten
  FreedOnce
  ReferencesCoverCalls
\* Threads may all wait for each other.
CHECK_DEADLOCK FALSE
