SPECIFICATION MCP4Spec
CONSTANTS
  NInodes = 6
  InodesPerGroup = 3
  BlocksCount = 28
  BlocksPerGroup = 14
  BitsPerBlock = 14
  InodesPerBlock = 2
  EntriesPerBlock = 8
  InodeTable <- MCInodeTable
  NDirect = 1
  PerBlock = 2
  IndirectMax = 3
  DoubleIndirectMax = 6
  PointersIn <- MCPointersIn
  Images <- MCPass4Images
CHECK_DEADLOCK FALSE
INVARIANTS P4TypeOK P4TrueBitmap P4LoopAt P4Compared_OK P4Result
PROPERTIES P4NoRegress P4Terminates
