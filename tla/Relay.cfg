CONSTANTS
    Kinds = {"connect", "associate", "udp_in_tcp"}
    DomainLens = {0, 2}
    Payloads <- MCPayloads
    MaxPayloads = 2
    Slices = 2
    RxCap = 8
    TxCap = 8
    MinFrame = 2
    Sizes = {2, 3}
    MaxSent = 2
SPECIFICATION FairSpec
INVARIANTS
    BlameIsRight
    DatagramsWhole
    OnlyServerEnds
PROPERTIES
    Ends
    RepliesArrive
CHECK_DEADLOCK FALSE
