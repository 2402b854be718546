\* Two receive descriptors, a mailbox of one message, two buffers.
SPECIFICATION Spec
CONSTANTS
  Senders = {"lwip", "tcpip"}
  RXN = 2
  TXN = 1
  SendTimeout = 1
  TimeMod = 8
  MaxDelay = 0
  MBox = 1
  Pool = 2
  SndBuf = 1
INVARIANTS
  LwTypeOK
  RingsAgree
  FrameNotForgotten
  PbufsConserved
