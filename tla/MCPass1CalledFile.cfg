SPECIFICATION P1Spec
CONSTANTS
  NInodes = 5
  InodesPerGroup = 3
  BlocksCount = 20
  BlocksPerGroup = 10
  BitsPerBlock = 10
  InodesPerBlock = 3
  EntriesPerBlock = 8
  InodeTable <- MCInodeTable
  Images <- CalledFile
CHECK_DEADLOCK FALSE
PROPERTY P1FilesKept
