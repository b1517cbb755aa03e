CONSTANTS
    Udp = {u1}
    Svc = {s1, s2}
    Tun = {t1}
    Worker = {w1}
    Main = main
    Bus = bus
    Null = null
    MaxCalls = 2
SPECIFICATION FairSpec
INVARIANTS  NoNullRead 
CHECK_DEADLOCK FALSE
PROPERTIES StopReturns ThreadsEnd
