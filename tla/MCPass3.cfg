SPECIFICATION MCP3Spec
CONSTANTS
  NInodes = 6
  InodesPerGroup = 4
  BlocksCount = 20
  BlocksPerGroup = 10
  BitsPerBlock = 10
  InodesPerBlock = 2
  EntriesPerBlock = 8
  CharMax = 127
  InodeTable <- MCInodeTable
  Images <- MCPass3Images
INVARIANTS P3TypeOK P3CountsExact P3Result
PROPERTIES P3NoRegress P3OneCount
CHECK_DEADLOCK FALSE
