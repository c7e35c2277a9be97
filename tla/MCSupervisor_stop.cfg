SPECIFICATION FairSpec
CONSTANTS
  N = 1
  MaxPid = 2
  MaxFd = 6
  MaxTimers = 1
  MaxCrash = 1
  MaxSignal = 1
  MaxForkFail = 0
  MaxExtra = 1
  MaxWork = 1
CHECK_DEADLOCK FALSE
INVARIANT FdsAccounted
PROPERTIES WaitEnds OrphansExit EveryIndexServed
