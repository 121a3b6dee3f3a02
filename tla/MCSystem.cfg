SPECIFICATION FairSystemSpec
CONSTANTS
    Conns = {c1}
    UpCap = 1
    DownCap = 2
    Bytes = {1, 2}
    Crc <- Sum5
    PeerFrames <- ClientFrames
    Contents <- TwoFiles
    Chunk = 2
    Fds = {3}
    Listener = 1
    Signal = 2
    NoConn = NoConn
    MaxSessions = 1
    MaxEvents = 3
PROPERTIES
    EverybodyLeaves
    ImplementsTransfer
CHECK_DEADLOCK FALSE
