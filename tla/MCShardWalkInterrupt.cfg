SPECIFICATION FairSpec
CONSTANTS
  NumShards = 5
  NumRecords <- MCNumRecords
  Size <- MCSize
  FetchConcurrency = 3
  MaxMemoryBytes = 3
  MayInterrupt = TRUE
PROPERTIES InterruptEndsWalk
CHECK_DEADLOCK FALSE
