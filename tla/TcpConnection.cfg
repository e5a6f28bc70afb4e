SPECIFICATION FairSpec
CONSTANTS
  Loops = {"base", "io"}
  Users = {t1}
  Lengths = {1, 2}
  MaxBytes = 3
  SendBuffer = 1
  HighWaterMark = 2
INVARIANTS TypeOK InOrder ShutdownAfterData WritingMatchesBuffer OutlivesUse LifecycleOrdered
PROPERTIES PeerCloseCleansUp OutputCompletes
CHECK_DEADLOCK FALSE
