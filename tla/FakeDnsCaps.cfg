CONSTANTS
    Words = {"x", "y"}
    Spellings = {"lower", "upper"}
    Passthrough = {}
    Entries = 2
    Idle = 2
    Ttl = 1
    MaxFlows = 1
    Hard = {"caps"}
SPECIFICATION Spec
INVARIANT ReplyFromAsked
