SPECIFICATION FairTransferSpec
CONSTANTS
    Conns = {c1}
    UpCap = 2
    DownCap = 2
    Bytes = {1, 2}
    Crc <- Sum5
    PeerFrames <- ClientFrames
    Contents <- SmallFiles
    Chunk = 2
INVARIANTS
    TransferInv
    StoredAsSent
    ServerWaitsForClient
    DataInv
PROPERTIES
    ExitCodesTrue
    ClientExits
CHECK_DEADLOCK FALSE
