SPECIFICATION Spec
CONSTANTS
    SeqSpace = 16
    TCP_WND = 4
    TCP_MSS = 2
    WndThreshold = 1
    MaxSacks = 2
    TCP_SND_BUF = 4
    TCP_MAXRTX = 1
    DupThreshold = 1
    MboxSize = 1
    MaxChunk = 4
    Iss <- MCIss
    MaxSend <- MCTransfer
    Writes = {6}
    Hows = {}
    NetCap = 2
    MaxFaults = 2
INVARIANTS
    InOrder
    
    SenderHoldsRest
    PersistSane
CHECK_DEADLOCK FALSE
