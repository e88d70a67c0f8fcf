SPECIFICATION MCDSpec
CONSTANTS
  BlockSize = 64
  Self = 11
  Parent = 2
  Requests <- MCRequests
  LostDir <- MCLostDir
  Images <- MCDirImages
  Uninitialised <- MCUninitialised
CHECK_DEADLOCK FALSE
INVARIANTS DTypeOK ChainsOK AttachedIfRoom
PROPERTIES OnlyListSteps DTerminates
