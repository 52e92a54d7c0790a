SPECIFICATION Spec
CONSTANTS
    Sockets = {s1}
    s1 = s1
    Nil = Nil
    Classes = {4, 8}
    PoolSize = 3
    Messages <- Exact
    MaxSends = 2
    Wrap = 65536
    MaxBreaks = 0
INVARIANTS
    FitsBuffer
CHECK_DEADLOCK FALSE
