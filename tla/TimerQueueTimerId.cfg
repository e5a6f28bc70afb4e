SPECIFICATION Spec
CONSTANTS
  Timers = {1, 2}
  Delays = {0, 2}
  Intervals = {0, 1}
  MaxLate = 1
  MaxJumps = 1
INVARIANT TimerIdValid
CHECK_DEADLOCK FALSE
