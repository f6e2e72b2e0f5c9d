CONSTANTS
  NSlots = 2
  MaxMsgs = 2
  StaggeredStart = FALSE
SPECIFICATION Spec
PROPERTIES
  InitKeepsRequests
CHECK_DEADLOCK FALSE
