SPECIFICATION ServerSpec
CONSTANTS
    Conns = {c1, c2}
    UpCap = 1
    DownCap = 1
    Bytes = {1}
    Crc <- NoSum
    PeerFrames <- OneHello
    Fds = {3, 4}
    Listener = 1
    Signal = 2
    NoConn = NoConn
    MaxSessions = 1
    MaxEvents = 3
INVARIANTS
    ServerInv
    LimitKept
    StopsClean
CHECK_DEADLOCK FALSE
SYMMETRY Anyone
