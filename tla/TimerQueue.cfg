SPECIFICATION FairSpec
CONSTANTS
  Timers = {1, 2}
  Delays = {0, 1, 3}
  Intervals = {0, 1, 2}
  MaxLate = 2
  MaxJumps = 1
INVARIANTS TypeOK ReadAssertHolds Owned TimerfdCovers
PROPERTY EveryTimerRuns
CHECK_DEADLOCK FALSE
