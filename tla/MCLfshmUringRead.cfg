CONSTANTS
  NSlots = 2
  FutexMod = 4
  MaxMsgs = 1
  StaggeredStart = TRUE
  UringMayFail = TRUE
SPECIFICATION Spec
PROPERTIES
  ReadAfterResponse
CHECK_DEADLOCK FALSE
