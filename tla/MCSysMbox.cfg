SPECIFICATION FairSpec
CONSTANTS
    SYS_MBOX_SIZE = 3
    Posters = {p1, p2}
    MaxPosts = 3
    NoMsg = NoMsg
    EMPTY = EMPTY
    TIMEOUT = TIMEOUT
PROPERTIES
    ImplementsMailbox
    PostReturns
    AllFetched
