CONSTANTS
    AppCap = 4
    SrvCap = 3
    SndCap = 1
    Mss = 2
    Chunk = 2
    WinUnit = 2
    Mod = 16
    AppIsn = 13
    SrvIsn = 13
    MaxUp = 5
    MaxDown = 3
    SegLens = {1, 2}
    Wins = {0, 3}
    Hard = {"tun_full", "abort", "idle", "dup_syn"}
SPECIFICATION Spec
INVARIANTS
    StreamsIntact
    EndsExact
    WindowKept
    NothingSilent
