SPECIFICATION Spec
CONSTANTS
  Loops = {"base", "io"}
  Users = {t1, t2}
  Lengths = {1, 2}
  MaxBytes = 3
  SendBuffer = 1
  HighWaterMark = 2
INVARIANT SendAssertHolds
CHECK_DEADLOCK FALSE
