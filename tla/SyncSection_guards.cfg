SPECIFICATION FairSpec
CONSTANTS
    Threads = {t1, t2, t3}
    t1 = t1
    t2 = t2
    t3 = t3
    NoThread = NoThread
    Types = {"READ", "WRITE"}
    MaxNest = 3
    NestInReaders = FALSE
INVARIANTS
    LockOK
    WriteExclusion
PROPERTIES
    ImplementsReentrantLock
    SomeWaiterEnters
CHECK_DEADLOCK FALSE
