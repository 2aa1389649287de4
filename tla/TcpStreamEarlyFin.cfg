CONSTANTS
    AppCap = 3
    SrvCap = 2
    SndCap = 1
    Mss = 2
    Chunk = 2
    WinUnit = 2
    Mod = 16
    AppIsn = 13
    SrvIsn = 13
    MaxUp = 4
    MaxDown = 3
    SegLens = {1, 2}
    Wins = {0, 1, 3}
    Hard = {"early_fin"}
SPECIFICATION Spec
INVARIANTS
    HalfClosePassedOn
