SPECIFICATION FairSpec
CONSTANTS
    Producers = {p1, p2}
    Consumers = {c1, c2}
    p1 = p1
    p2 = p2
    c1 = c1
    c2 = c2
    Size = 2
    Wrap = 4
    MaxPushes = 4
    MaxPops = 4
    Logging = {TRUE, FALSE}
    Timeouts <- Timeouts_
INVARIANTS
    QueueOK
    TurnsExclusive
    WrittenOrPending
    OldestIsWritten
PROPERTIES
    
    TakenOver
CHECK_DEADLOCK FALSE
