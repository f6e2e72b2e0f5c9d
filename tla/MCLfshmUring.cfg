CONSTANTS
  NSlots = 2
  FutexMod = 8
  MaxMsgs = 3
  StaggeredStart = TRUE
  UringMayFail = TRUE
SPECIFICATION FairSpec
INVARIANTS
  NoLostWakeup
PROPERTIES
  ClientFinishes
CHECK_DEADLOCK FALSE
