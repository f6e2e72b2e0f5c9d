CONSTANTS
  NSlots = 2
  MaxMsgs = 3
  MaxFaulty = 2
  StaggeredStart = TRUE
SPECIFICATION FairSpec
INVARIANTS
  TypeOK
  MessageOwned
  HandoverGoesOn
  SendsNewRequests
  NoStaleAnswer
  TransfersSucceed
PROPERTIES
  EchoSpec
  ClientFinishes
CHECK_DEADLOCK FALSE
