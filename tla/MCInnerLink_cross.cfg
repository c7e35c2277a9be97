CONSTANTS
    A = A
    B = B
    MaxConn = 2
    MaxMsg = 2
    MaxBeat = 0
    MaxCrash = 1
    RetryLimit = 1
SPECIFICATION Spec
CHECK_DEADLOCK FALSE
INVARIANTS ManagerReadsOnlyConnect UnsentDataIsArmed ShellIsLive DataAfterHandshake 
PROPERTIES GivesUpByTimeoutOnly
