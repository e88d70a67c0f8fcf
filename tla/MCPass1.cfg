SPECIFICATION MCP1Spec
CONSTANTS
  NInodes = 5
  InodesPerGroup = 3
  BlocksCount = 20
  BlocksPerGroup = 10
  BitsPerBlock = 10
  InodesPerBlock = 3
  EntriesPerBlock = 8
  InodeTable <- MCInodeTable
  Images <- MCPass1Images
INVARIANTS P1TypeOK P1BufFresh P1Path P1Result
PROPERTIES P1OnlyPointers P1NoRegress
CHECK_DEADLOCK FALSE
