CONSTANTS
    Slots = {s1, s2}
    Keys = {k1, k2}
    Workers = {w1}
    Fds = {f1}
    Hosts = {h1}
    None = None
    MaxTcp = 2
    SweepCap = 1
    GcCap = 2
    RemoteDns = TRUE
    JobAllocFails = FALSE
    Reconnects = FALSE
SPECIFICATION FairSpec
INVARIANT SomeoneWillFinish
PROPERTIES
    Reclaimed
    StopCompletes
