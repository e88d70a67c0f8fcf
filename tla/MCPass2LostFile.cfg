SPECIFICATION P2Spec
CONSTANTS
  NInodes = 7
  InodesPerGroup = 4
  BlocksCount = 20
  BlocksPerGroup = 10
  BitsPerBlock = 10
  InodesPerBlock = 4
  EntriesPerBlock = 5
  CharMax = 127
  InodeTable <- MCInodeTable
  Images <- LostFile
CHECK_DEADLOCK FALSE
INVARIANT P2FilesKept
