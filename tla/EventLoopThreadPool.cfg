SPECIFICATION FairSpec
CONSTANTS
  numThreads_ = 3
  MaxAssigned = 2
INVARIANTS TypeOK StartedLoopsExist NotUsedAfterDestroy
PROPERTIES PoolStarts JoinReturns
CHECK_DEADLOCK FALSE
