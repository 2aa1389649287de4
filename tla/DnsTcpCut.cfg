CONSTANTS
    Words = {"x"}
    Spellings = {"lower"}
    Passthrough = {}
    Entries = 1
    Idle = 1
    Ttl = 1
    MaxFlows = 0
    Hard = {}
    Messages <- MCMessages
    Queries <- MCQueries
    MaxAsked = 2
    SrvCap = 2
    MayCut = TRUE
SPECIFICATION MCSpec
INVARIANTS
    QueriesAnswered
CHECK_DEADLOCK FALSE
