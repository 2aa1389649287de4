CONSTANTS
    Slots = {s1, s2}
    Keys = {k1}
    Workers = {w1, w2}
    Fds = {f1, f2}
    Hosts = {h1, h2}
    None = None
    MaxTcp = 2
    SweepCap = 1
    GcCap = 1
    RemoteDns = TRUE
    JobAllocFails = FALSE
    Reconnects = TRUE
SPECIFICATION Spec
SYMMETRY Sym
INVARIANTS
    IInv
    NoUseAfterFree
    SocketOwnership
    BooksBalance
    OneLivePerEndpoint
    NoStaleServer
PROPERTY RefinesTwoPhase
