SPECIFICATION SvcFairSpec
CONSTANTS
    Iface <- MCIface
    Network = {n1, n2}
    None = None
    New = New
    Kinds <- MCKinds
INVARIANTS
    NoLostActivation
    QuietStopClearsProxies
    AloneIsSafe
    ActiveHasUpstreamUnlessStale
PROPERTY ProxiesEventuallyStart
