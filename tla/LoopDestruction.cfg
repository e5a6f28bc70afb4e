SPECIFICATION EndSpec
INVARIANT EndsCleanly
CHECK_DEADLOCK FALSE
