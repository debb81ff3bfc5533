SPECIFICATION FairSpec
CONSTANTS
  NumShards = 5
  NumRecords <- MCNumRecords
  Size <- MCSize
  FetchConcurrency = 3
  MaxMemoryBytes = 3
  MayInterrupt = TRUE
INVARIANTS WindowIsHardCap BudgetCountsWhatIsHeld NoGoroutineLeft
PROPERTIES ImplementsSequentialWalk WalkReturns
CHECK_DEADLOCK FALSE
