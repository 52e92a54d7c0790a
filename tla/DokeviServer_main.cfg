SPECIFICATION FairSpec
CONSTANTS
    MaxThreads = 2
    MaxConn = 1
    MaxSockets = 3
    MaxConnects = 2
    MaxData = 1
    StartSizes = {7}
    MaxSends = 1
    Resets = TRUE
    AcceptResets = TRUE
    ResetErrors = {"err64", "other"}
INVARIANTS
    RecvSerial
    CapacityConserved
    OwnHandle
    ClientSizeMatches
PROPERTIES
    NoPacketAfterEnd
    SerialSessions
    GracefulCloseReported
CHECK_DEADLOCK FALSE
