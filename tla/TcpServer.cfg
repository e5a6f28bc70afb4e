SPECIFICATION ServerFairSpec
CONSTANTS
  Fds = {0, 1, 2, 3}
  MaxBacklog = 2
  MaxArrivals = 3
  ThreadCounts = {0, 2}
INVARIANTS ServerTypeOK DescriptorsOwned
PROPERTIES BacklogDrains LifeSpec CleanedUp
CHECK_DEADLOCK FALSE
