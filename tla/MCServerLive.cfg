SPECIFICATION FairServerSpec
CONSTANTS
    Conns = {c1, c2}
    UpCap = 1
    DownCap = 1
    Bytes = {1}
    Crc <- NoSum
    PeerFrames <- OnePart
    Fds = {3}
    Listener = 1
    Signal = 2
    NoConn = NoConn
    MaxSessions = 2
    MaxEvents = 3
PROPERTIES
    StopsInTheEnd
    Served
CHECK_DEADLOCK FALSE
