CONSTANTS
  HdrLen = 2
  MsgLen = 4
  MaxLen = 5
  MaxMsgs = 2
SPECIFICATION FairSpec
INVARIANTS
  TypeOK
  InStep
PROPERTIES
  EchoSpec
  BothFinish
  HangupFreesPeer
CHECK_DEADLOCK FALSE
