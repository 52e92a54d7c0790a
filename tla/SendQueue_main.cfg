SPECIFICATION FairSpec
CONSTANTS
    Sockets = {s1, s2}
    s1 = s1
    s2 = s2
    Nil = Nil
    Classes = {5, 8}
    PoolSize = 2
    Messages <- Mixed
    MaxSends = 4
    Wrap = 65536
    MaxBreaks = 1
INVARIANTS
    QueuesWellFormed
    NothingLost
    NoLeak
    CallbackHasPacket
    
PROPERTIES
    PostedBufferKept
    UsesPools
    PoolsKeepPromise
    Delivered
CHECK_DEADLOCK FALSE
