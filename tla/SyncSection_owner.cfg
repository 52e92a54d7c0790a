SPECIFICATION Spec
CONSTANTS
    Threads = {t1, t2}
    t1 = t1
    t2 = t2
    NoThread = NoThread
    Types = {"WRITE"}
    MaxNest = 1
    NestInReaders = FALSE
INVARIANTS
    HolderIsEntered
