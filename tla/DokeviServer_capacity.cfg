SPECIFICATION Spec
CONSTANTS
    MaxThreads = 1
    MaxConn = 1
    MaxSockets = 3
    MaxConnects = 3
    MaxData = 0
    StartSizes = {0}
    MaxSends = 1
    Resets = TRUE
    AcceptResets = FALSE
    ResetErrors = {"err64"}
INVARIANTS
    ClientsBounded
CHECK_DEADLOCK FALSE
