CONSTANTS
  NSlots = 4
  MaxMsgs = 3
  StaggeredStart = TRUE
SPECIFICATION FairSpec
INVARIANTS
  TypeOK
  NoLostWakeup
  TransfersSucceed
  NoStaleAnswer
PROPERTIES
  EchoSpec
  ClientFinishes
  ServerFinishesWhenCalled
CHECK_DEADLOCK FALSE
