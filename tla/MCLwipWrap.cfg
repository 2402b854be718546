\* A woken sender may be kept from running for one tick more than it had left.
SPECIFICATION Spec
CONSTANTS
  Senders = {"lwip", "tcpip"}
  RXN = 1
  TXN = 1
  SendTimeout = 1
  TimeMod = 8
  MaxDelay = 1
  MBox = 1
  Pool = 1
  SndBuf = 1
INVARIANTS
  SendersWakeInTime
