CONSTANTS
  NSlots = 2
  FutexMod = 4
  MaxMsgs = 1
  StaggeredStart = FALSE
  UringMayFail = FALSE
SPECIFICATION Spec
PROPERTIES
  InitKeepsSignals
CHECK_DEADLOCK FALSE
