\* Three threads: a reference, a queue, a message server, a listener; handlers
\* and timers.
SPECIFICATION Spec
CONSTANTS
  t1 = t1
  t2 = t2
  t3 = t3
  Idle = Idle
  None = None
  Threads = {Idle, t1, t2, t3}
  BasePrio <- Prios
  Refs = {"r1"}
  TQueues = {"q1"}
  Results = {"MSG_OK"}
  Answers = {"MSG_OK"}
  Servers = {t2}
  Waiters = {t1}
  Events = {0, 1}
  Flags = {"f1", "f2"}
  Listeners = {"l1"}
  Owner <- L1Owner
  ElEvents <- L1Events
  ElWanted <- L1Wanted
  WaitMasks <- Masks
  Emitted <- Sent
INVARIANTS
  TypeOK
  WaitersExact
  MessagesExact
  EventsNotLost
PROPERTIES
  OneAnswer
