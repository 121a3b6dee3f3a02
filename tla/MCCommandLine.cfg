SPECIFICATION Spec
CONSTANTS
    CommandLines <- Lines
    Dashed <- DashedWords
    Numeral <- Texts
    parse <- Address
    ULongMax = 1023
    IntMax = 127
    MsPerSecond = 4
    NsPerSecond = 5
INVARIANT TimeoutAsAsked
CHECK_DEADLOCK FALSE
