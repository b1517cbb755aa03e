SPECIFICATION FairSpec
CONSTANTS
    Netif = {n1, n2}
    Ip = {a1, a2}
    Mac = {m1, m2}
    NoMac = NoMac
    n1 = n1
    n2 = n2
    a1 = a1
    a2 = a2
    Neighbour <- MCNeighbour
    Watched <- MCWatched
    ARP_TABLE_SIZE = 2
    ARP_QUEUE_LEN = 2
    ARP_MAXAGE = 3
    ARP_MAXPENDING = 2
    ARP_AGE_REREQUEST_USED_UNICAST = 0
    MaxPackets = 3
INVARIANTS
    
    ReferencesQueued
PROPERTIES
    SentToLatest
    SentInOrder
    HeldIsReleased
