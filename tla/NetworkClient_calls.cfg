SPECIFICATION FairSpec
CONSTANTS
    HDR = 2
    BUF = 5
    Lens = {4, 5}
    InLengths = {1}
    W = 7
    MaxFrames = 2
    MaxConnects = 2
    MaxSends = 1
INVARIANTS
    FramingKept
    EndsItsThread
PROPERTIES
    CallsReturn
CHECK_DEADLOCK FALSE
