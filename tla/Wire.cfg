CONSTANTS
    Bytes = {0, 1, 254, 255}
    Chunks = {1, 63, 129, 250}
    MaxInput <- MCMaxInput
SPECIFICATION WireSpec
INVARIANTS
    PacketsRight
    SocksRead
    OutsideExact
CHECK_DEADLOCK FALSE
