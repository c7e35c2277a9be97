SPECIFICATION FairSpec
CONSTANTS
  Writes = {1, 2}
  Both = {1, 2}
  Size <- MCSize
  TimeOutMax = 1
  MaxMinute = 5
  MaxStep = 2
  MaxFail = 2
  MaxCrash = 1
INVARIANTS TypeOK Separate OncePerLife Kept
PROPERTIES Drains
CHECK_DEADLOCK FALSE
