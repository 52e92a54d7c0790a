SPECIFICATION FairSpec
CONSTANTS
    Main = main
    Workers = {w1, w2}
    w1 = w1
    w2 = w2
    Askers = {w2}
    Faulters = {w1}
    MaxDepth = 3
    MaxNest = 3
    Keys = {k1}
    Nil = Nil
INVARIANTS
    IndicesDiffer
    DumpCoversStack
    KeyHasOneValue
PROPERTIES
    ReportMade
CHECK_DEADLOCK FALSE
