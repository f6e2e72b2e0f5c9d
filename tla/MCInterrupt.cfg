CONSTANTS
  Threads = {t1, t2, t3}
  Capacity = 3
SPECIFICATION FairSpec
PROPERTIES
  EventSpec
  WaitReturns
CHECK_DEADLOCK FALSE
