\* Liveness, with one descriptor each way and one buffer.
SPECIFICATION Spec
CONSTANTS
  Senders = {"lwip", "tcpip"}
  RXN = 1
  TXN = 1
  SendTimeout = 1
  TimeMod = 8
  MaxDelay = 0
  MBox = 1
  Pool = 1
  SndBuf = 1
PROPERTIES
  LinkFollowed
  CallsReturn
