CONSTANTS
    AppCap = 2
    SrvCap = 2
    SndCap = 1
    Mss = 1
    Chunk = 2
    WinUnit = 2
    Mod = 16
    AppIsn = 13
    SrvIsn = 14
    MaxUp = 2
    MaxDown = 2
    SegLens = {1}
    Wins = {0, 1}
    Hard = {}
SPECIFICATION FairAppSpec
PROPERTIES
    AllArrives
    BothEndsClose
