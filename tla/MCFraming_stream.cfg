SPECIFICATION FairSpec
CONSTANTS
  Links <- MCLinks
  DefaultSize = 2
  MaxRead = 4
  ExtraSize = 2
  HeadSize = 2
  MaxBody = 2
  Bodies = {0, 2, 3}
  Keep = 2
  KeepManager = 3
  SockSize = 2
  MaxMsg = 2
  MaxLate = 3
CHECK_DEADLOCK FALSE
INVARIANTS InBounds StreamIntact WorkerUnsentIsArmed
PROPERTIES IsMsgChannel Delivered
