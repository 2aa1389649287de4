CONSTANTS
    AppCap = 3
    SrvCap = 2
    SndCap = 1
    Mss = 2
    Chunk = 2
    WinUnit = 2
    Mod = 16
    AppIsn = 13
    SrvIsn = 13
    MaxUp = 1
    MaxDown = 1
    SegLens = {1}
    Wins = {0}
    Hard = {"post_fin", "idle"}
SPECIFICATION FairSpec
PROPERTIES
    IdleReclaimed
