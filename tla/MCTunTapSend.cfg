SPECIFICATION FairAdapterSpec
CONSTANTS
    Ip <- MCIp
    Mac <- MCMac
    None = None
    Ndp = FALSE
    Frames <- MCFrames
    Routes <- MCRoutes
INVARIANTS
    FramesToAnnouncedMac
PROPERTY EntriesExpire
