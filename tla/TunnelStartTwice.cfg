CONSTANTS
    Hosts = {h1, h2}
    Jobs = {j1, j2}
    Engines = {e1, e2}
    None = None
    MaxRetries = 2
    MaxPosts = 2
    AlwaysOn = {FALSE}
    Hard = {"start_in_start"}
SPECIFICATION Spec
INVARIANT RightServer
