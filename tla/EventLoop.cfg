SPECIFICATION FairSpec
CONSTANTS
  LoopThread = loopThread
  OtherThreads = {t1, t2}
  Functors = {f1, f2, f3}
  NoFunctor = none
  IoChannels = {io}
  EventfdMax = 2
INVARIANTS NoLostWakeup NoLostQuit
PROPERTIES QueueSpec FunctorsRun QuitEndsLoop IoNotStarved
