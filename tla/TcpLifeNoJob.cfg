CONSTANTS
    Slots = {s1, s2}
    Keys = {k1}
    Workers = {w1}
    Fds = {f1}
    Hosts = {h1}
    None = None
    MaxTcp = 2
    SweepCap = 1
    GcCap = 1
    RemoteDns = FALSE
    JobAllocFails = TRUE
    Reconnects = TRUE
SPECIFICATION Spec
INVARIANT SomeoneWillFinish
