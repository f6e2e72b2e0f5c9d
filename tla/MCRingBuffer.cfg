CONSTANTS
  Size = 16
  Base = 2
  MaxRead = 8
  Messages <- MCMessages
SPECIFICATION Spec
INVARIANTS
  TypeOK
  Contents
  Disjoint
PROPERTIES
  QueueSpec
