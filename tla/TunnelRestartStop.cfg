CONSTANTS
    Hosts = {h1}
    Jobs = {j1, j2}
    Engines = {e1, e2}
    None = None
    MaxRetries = 2
    MaxPosts = 2
    AlwaysOn = {FALSE}
    Hard = {"stop_overlap"}
SPECIFICATION Spec
INVARIANT StopIsFinal
