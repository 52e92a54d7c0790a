SPECIFICATION ReleaseSpec
CONSTANTS
    Main = main
    Workers = {w1}
    w1 = w1
    Askers = {}
    Faulters = {}
    MaxDepth = 3
    MaxNest = 2
    Keys = {k1}
    Nil = Nil
PROPERTIES
    Released
CHECK_DEADLOCK FALSE
