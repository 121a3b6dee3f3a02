SPECIFICATION Spec
CONSTANTS
    w1 = w1
    w2 = w2
    w3 = w3
    p1 = p1
    p2 = p2
    Writers = {w1, w2, w3}
    Procs = {p1, p2}
    ProcOf <- TwoRuns
    Pids = {1}
    PidOf <- SamePid
    Size <- Lengths
    Stamps = {1}
    MaxSuffix = 2
    MaxLosses = 1
    NoPath = NoPath
INVARIANTS
    TempIsOwn
    FilesComplete
    ReportsTrue
    NoLitter
    RefusedOnlyWhenFull
    WriterInv
PROPERTIES
    NeverReplaced
    ImplementsInbox
CHECK_DEADLOCK FALSE
