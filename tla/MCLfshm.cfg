CONSTANTS
  NSlots = 2
  FutexMod = 4
  MaxMsgs = 3
  StaggeredStart = TRUE
  UringMayFail = FALSE
SPECIFICATION FairSpec
INVARIANTS
  TypeOK
  RingExclusive
  NoStaleAnswer
  NoMutualWait
PROPERTIES
  EchoSpec
  ServerFinishesWhenCalled
CHECK_DEADLOCK FALSE
