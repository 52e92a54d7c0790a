SPECIFICATION Spec
CONSTANTS
    Sockets = {s1}
    s1 = s1
    Nil = Nil
    Classes = {4, 8}
    PoolSize = 3
    Messages <- Small
    MaxSends = 4
    Wrap = 65536
    MaxBreaks = 0
INVARIANTS
    NoSharedPacket
CHECK_DEADLOCK FALSE
