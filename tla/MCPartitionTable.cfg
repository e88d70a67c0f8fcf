SPECIFICATION MCPSpec
CONSTANTS
  WordSize = 32
  MaxNum = 8
  Disks <- MCDisks
INVARIANTS PTypeOK FoundRight CheckedInOrder
PROPERTY CommandEnds
CHECK_DEADLOCK FALSE
