SPECIFICATION FairSpec
CONSTANTS
    Conns = {c1}
    UpCap = 2
    DownCap = 1
    Bytes = {1, 2}
    Crc <- Sum7
    PeerFrames <- SomeFrames
PROPERTY HandlerReturns
CHECK_DEADLOCK FALSE
