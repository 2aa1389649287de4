CONSTANTS
    Workers = {w1, w2}
    Runnables = {r1, r2, r3}
    None = None
    FailWindow = 2
    FailThreshold = 2
    BaseDelay = 2
    MaxDelay = 3
    Hard = {"ok_while_posted"}
SPECIFICATION Spec
INVARIANT NoOrphan
