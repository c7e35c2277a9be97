SPECIFICATION Spec
CONSTANTS
  N = 2
  MaxPid = 3
  MaxFd = 12
  MaxTimers = 1
  MaxCrash = 2
  MaxSignal = 0
  MaxForkFail = 1
  MaxExtra = 0
  MaxWork = 1
INVARIANTS OneWorkerPerIndex Supervised
PROPERTIES ChannelCutOnlyByRestart BeatIsOwn
