SPECIFICATION Spec
CONSTANTS
  NInodes = 6
  InodesPerGroup = 3
  BlocksCount = 20
  BlocksPerGroup = 10
  BitsPerBlock = 10
  InodesPerBlock = 3
  EntriesPerBlock = 8
  CharMax = 127
  InodeTable <- MCInodeTable
  NDirect = 12
  PerBlock = 1
  IndirectMax = 13
  DoubleIndirectMax = 14
  PointersIn <- MCPointersIn
  Images <- MCFsckImages
CHECK_DEADLOCK FALSE
CONSTANT MaxRuns = 2
INVARIANTS FsckTypeOK Mendable Enough
PROPERTIES Repairs RepairsEnd CleanUntouched
