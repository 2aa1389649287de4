CONSTANTS
    Words = {"x", "y", "z", "p"}
    Spellings = {"lower"}
    Passthrough = {"p"}
    Entries = 2
    Idle = 2
    Ttl = 1
    MaxFlows = 1
    Hard = {}
    Messages <- MCMessages
    Queries <- MCQueries
    MaxAsked = 3
    SrvCap = 2
    MayCut = FALSE
SPECIFICATION MCSpec
INVARIANTS
    TableSound
    QueriesAnswered
PROPERTIES
    ConversationEnds
CHECK_DEADLOCK FALSE
