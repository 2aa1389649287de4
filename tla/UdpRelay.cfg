CONSTANTS
    Slots = {s1, s2}
    Keys = {k1}
    Workers = {w1, w2}
    Fds = {f1, f2, f3}
    None = None
    MaxUdp = 2
    TxCap = 1
    GcCap = 1
    UdpInTcp = TRUE
    Hard = {}
SPECIFICATION Spec
SYMMETRY Sym
INVARIANTS
    NoUseAfterFree
    SocketOwnership
    BooksBalance
    Serves
