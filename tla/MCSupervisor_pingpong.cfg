SPECIFICATION FairSpec
CONSTANTS
  N = 2
  MaxPid = 3
  MaxFd = 8
  MaxTimers = 0
  MaxCrash = 0
  MaxSignal = 1
  MaxForkFail = 0
  MaxExtra = 0
  MaxWork = 0
CHECK_DEADLOCK FALSE
PROPERTY EveryIndexServed
