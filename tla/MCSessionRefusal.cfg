SPECIFICATION Spec
CONSTANTS
    Conns = {c1}
    UpCap = 1
    DownCap = 1
    Bytes = {1, 2}
    Crc <- Sum7
    PeerFrames <- SomeFrames
INVARIANT RefusalIsGraceful
CHECK_DEADLOCK FALSE
