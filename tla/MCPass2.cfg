SPECIFICATION MCP2Spec
CONSTANTS
  NInodes = 7
  InodesPerGroup = 4
  BlocksCount = 20
  BlocksPerGroup = 10
  BitsPerBlock = 10
  InodesPerBlock = 4
  EntriesPerBlock = 5
  CharMax = 127
  InodeTable <- MCInodeTable
  Images <- MCPass2Images
INVARIANTS P2TypeOK P2Result P2TopmostOnly P2OrphanOnly P2PointersOK
PROPERTIES P2OnlyAdds P2Terminates
CHECK_DEADLOCK FALSE
