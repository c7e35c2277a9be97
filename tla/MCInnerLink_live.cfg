CONSTANTS
    A = A
    B = B
    MaxConn = 1
    MaxMsg = 2
    MaxBeat = 2
    MaxCrash = 1
    RetryLimit = 1
SPECIFICATION FairSpec
CHECK_DEADLOCK FALSE
PROPERTIES WaitEnds
