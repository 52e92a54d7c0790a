SPECIFICATION FairSpec
CONSTANTS
    HDR = 2
    BUF = 5
    Lens = {2, 3, 5}
    MaxFrames = 4
    Windows = {5, 9}
INVARIANTS
    BufferFits
    FramingInv
PROPERTIES
    ImplementsFrameChannel
    PacketsHandled
CHECK_DEADLOCK FALSE
