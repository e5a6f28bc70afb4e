SPECIFICATION Spec
CONSTANTS
  c1 = c1
  c2 = c2
  c3 = c3
  c4 = c4
  NoChannel = none
  Channels <- MCChannels
  Fd <- MCFd
SYMMETRY Twins
INVARIANTS PollfdsMatch ActiveValid AssertionsHold
PROPERTY PollSetSpec
CHECK_DEADLOCK FALSE
