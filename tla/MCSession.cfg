SPECIFICATION FairSpec
CONSTANTS
    Conns = {c1}
    UpCap = 2
    DownCap = 1
    Bytes = {1, 2}
    Crc <- Sum7
    PeerFrames <- SomeFrames
INVARIANTS
    AckTruth
    TempDiscipline
    PublishedWhole
    DropIsGraceful
    StoredNotReported
    IInv
PROPERTIES
    VerdictFinal
    AckResolved
    Reaped
CHECK_DEADLOCK FALSE
