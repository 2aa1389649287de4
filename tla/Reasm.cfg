CONSTANTS
    a = a
    b = b
    c = c
    d = d
    Dgrams = {a, b, c, d}
    Sent <- MCSent
    MaxEntries = 2
    MaxFrags = 2
    MaxSize = 3
    Timeout = 1
    GcEvery = 1
    Poll = 0
    None = None
SPECIFICATION Spec
INVARIANTS
    Reassembles
