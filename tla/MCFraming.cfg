SPECIFICATION FramingSpec
CONSTANTS
    MAGIC = 78
    MAX_PAYLOAD = 4
    Crc <- Crc31
    ReadMax = 12
    MAX_NAME_LEN = 1
    Speeches <- Talk
    Noise = {1, 5}
CHECK_DEADLOCK FALSE
INVARIANTS
    DecodesStream
    BufferBounded
    RightVerdict
    OnlyWhatWasSaid
    NothingMissed
    RunningCrc
