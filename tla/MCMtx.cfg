\* Nested mutexes and a condition variable, three threads of different
\* priority; the least urgent one changes its priority when it owns no mutex.
SPECIFICATION Spec
CONSTANTS
  t1 = t1
  t2 = t2
  t3 = t3
  Idle = Idle
  None = None
  Threads = {Idle, t1, t2, t3}
  BasePrio <- Prios
  Mutexes = {"m1", "m2"}
  Conds = {"c1"}
  Levels <- LowMoves
  OwnersMay = FALSE
  Rank <- InOrder
INVARIANTS
  TypeOK
  OwnershipConsistent
  QueuesExact
  InheritanceExact
  PriorityOrder
