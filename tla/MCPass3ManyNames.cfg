SPECIFICATION P3Spec
CONSTANTS
  NInodes = 6
  InodesPerGroup = 3
  BlocksCount = 20
  BlocksPerGroup = 10
  BitsPerBlock = 10
  InodesPerBlock = 3
  EntriesPerBlock = 341
  CharMax = 127
  InodeTable <- MCInodeTable
  Images <- ManyNames
CHECK_DEADLOCK FALSE
INVARIANT P3Result
