SPECIFICATION FairSpec
CONSTANTS
    SeqSpace = 32
    TCP_WND = 6
    TCP_MSS = 3
    WndThreshold = 4
    MaxSacks = 2
    StreamLen = 12
    Irs = 28
    MboxSize = 2
    MaxChunk = 4
    TCP_SND_BUF = 6
    TCP_MAXRTX = 2
    DupThreshold = 3
INVARIANTS
    NothingLost
    OoseqOK
    SackedIsHeld
    WindowAccounted
PROPERTIES
    
    StreamArrives
CHECK_DEADLOCK FALSE
