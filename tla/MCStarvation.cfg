SPECIFICATION KeptSpec
CONSTANTS
    Conns = {c1, c2}
    UpCap = 1
    DownCap = 1
    Bytes = {1}
    Crc <- NoSum
    PeerFrames <- OneFrame
    Fds = {3, 4}
    Listener = 1
    Signal = 2
    NoConn = NoConn
    MaxSessions = 2
    MaxEvents = 3
CHECK_DEADLOCK FALSE
PROPERTY SweptForSilence
