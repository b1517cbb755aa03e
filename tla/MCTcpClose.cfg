SPECIFICATION FairSpec
CONSTANTS
    SeqSpace = 16
    TCP_WND = 2
    TCP_MSS = 1
    WndThreshold = 1
    MaxSacks = 2
    TCP_SND_BUF = 2
    TCP_MAXRTX = 1
    DupThreshold = 1
    MboxSize = 1
    MaxChunk = 4
    Iss <- MCIss
    MaxSend <- MCNoData
    Writes = {1}
    Hows = {"WR"}
    NetCap = 2
    MaxFaults = 2
INVARIANTS
    DanglingOnlyHalfClosed
PROPERTIES
    ConnectReturns
    
CHECK_DEADLOCK FALSE
