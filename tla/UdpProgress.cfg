CONSTANTS
    Slots = {s1, s2}
    Keys = {k1}
    Workers = {w1}
    Fds = {f1}
    None = None
    MaxUdp = 2
    TxCap = 1
    GcCap = 1
    UdpInTcp = TRUE
    Hard = {}
SPECIFICATION FairSpec
PROPERTY Reclaimed
