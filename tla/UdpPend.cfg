CONSTANTS
    Slots = {s1}
    Keys = {k1}
    Workers = {w1}
    Fds = {f1, f2}
    None = None
    MaxUdp = 1
    TxCap = 1
    GcCap = 1
    UdpInTcp = FALSE
    Hard = {"pend_window"}
SPECIFICATION Spec
INVARIANT PendingForwarded
