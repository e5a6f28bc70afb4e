SPECIFICATION FairSpec
CONSTANTS
  Waiters = {w1, w2}
  Callers = {c1, c2}
  InitialCount = 2
  NumThreads = {0, 1, 2}
INVARIANTS TypeOK WaitMeansDone
PROPERTIES WaitersReleased SecondLockHangs
CHECK_DEADLOCK FALSE
