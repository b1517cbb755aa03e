----------------------------- MODULE TunTapSend -----------------------------
(***************************************************************************)
(* The sending side of TunTapAdapter (service/TunTapAdapter.java): the TUN *)
(* receive thread finds the next hop of a unicast packet and its MAC       *)
(* address and hands a frame to the node.  It runs beside the table's      *)
(* timeout thread and the network thread that learns addresses.            *)
(*                                                                         *)
(* With Ndp = FALSE this is handleIPv4Packet with its caches of the        *)
(* network configuration and of the last destination; with Ndp = TRUE,     *)
(* handleIPv6Packet, which has none.  Multicast packets need no table.     *)
(***************************************************************************)
EXTENDS NeighbourTable

CONSTANTS
    Frames,  \* what a frame may announce: sequences of [ip, mac]
    Routes   \* what routeMap and the gateway rule may say: functions from a
             \* destination to its gateway or itself, None where no route matches

ASSUME FramesAssumption ==
    \A f \in Frames : f \in Seq([ip : Ip, mac : Mac]) /\ f # <<>>

ASSUME RoutesAssumption == Routes \subseteq [Ip -> Ip \cup {None}]

VARIABLES
    routes,        \* the member of Routes in force
    cachedConfig,  \* cachedConfig: "none", or a configuration "without" or "with"
                   \* an address of this family
    cache,         \* cachedDest*: None or [dst, hop, mac] (hop is history)
    rpc, rdst,     \* the thread: "idle", or "known" between has and get
    sent           \* the frame of the last step: None or [hop, mac]; None as MAC is -1

sendVars == <<routes, cachedConfig, cache, rpc, rdst>>
adapterVars == <<tableVars, sendVars, sent>>

Configs == {"none", "without", "with"}

AdapterInit ==
    /\ TableInit
    /\ routes \in Routes
    /\ cachedConfig = "none"
    /\ cache = None
    /\ rpc = "idle" /\ rdst = None
    /\ sent = None

\* Without a route an IPv6 packet goes to its destination itself.
Hop(d) == IF Ndp /\ routes[d] = None THEN d ELSE routes[d]

\* A packet is read and finds configuration c.  The service's configuration may
\* be any, at any packet; the first one that handleIPv4Packet finds is kept for
\* ever.
ReadPacket(c) ==
    /\ rpc = "idle"
    /\ Ndp \/ cachedConfig = "none" \/ c = cachedConfig
    /\ cachedConfig' = IF Ndp THEN "none" ELSE c
    /\ UNCHANGED <<tableVars, routes, cache>>

CacheHit(d) == ~Ndp /\ cache # None /\ cache.dst = d

DropNoAddress ==
    /\ \E c \in Configs \ {"with"} : ReadPacket(c)
    /\ sent' = None
    /\ UNCHANGED <<rpc, rdst>>

SendCached(d) ==
    /\ ReadPacket("with")
    /\ CacheHit(d)
    /\ sent' = [hop |-> cache.hop, mac |-> cache.mac]
    /\ UNCHANGED <<rpc, rdst>>

DropNoRoute(d) ==
    /\ ReadPacket("with")
    /\ ~CacheHit(d) /\ Hop(d) = None
    /\ sent' = None
    /\ UNCHANGED <<rpc, rdst>>

\* An ARP request or a neighbour solicitation instead of the packet.
SendQuery(d) ==
    /\ ReadPacket("with")
    /\ ~CacheHit(d) /\ Hop(d) # None
    /\ ~HasMacForAddress(Hop(d))
    /\ sent' = None
    /\ UNCHANGED <<rpc, rdst>>

Known(d) ==
    /\ ReadPacket("with")
    /\ ~CacheHit(d) /\ Hop(d) # None
    /\ HasMacForAddress(Hop(d))
    /\ rpc' = "known" /\ rdst' = d
    /\ sent' = None

\* Mutant: the cached MAC is only replaced when there is a new one.
SendKnownKeepsMac ==
    /\ rpc = "known"
    /\ LET h == Hop(rdst) m == ipToMac[h] IN
        /\ Refresh(m)
        /\ sent' = [hop |-> h, mac |-> m]
        /\ cache' = IF Ndp THEN None
                    ELSE IF m = None /\ cache # None THEN [cache EXCEPT !.dst = rdst, !.hop = h]
                    ELSE [dst |-> rdst, hop |-> h, mac |-> m]
    /\ rpc' = "idle" /\ rdst' = None
    /\ UNCHANGED <<ipToMac, tpc, snap, cur, stopped, todo, wpc, announced,
                   routes, cachedConfig>>

SendKnown ==
    /\ rpc = "known"
    /\ LET h == Hop(rdst) m == ipToMac[h] IN
        /\ Refresh(m)
        /\ sent' = [hop |-> h, mac |-> m]
        /\ cache' = IF Ndp THEN None ELSE [dst |-> rdst, hop |-> h, mac |-> m]
    /\ rpc' = "idle" /\ rdst' = None
    /\ UNCHANGED <<ipToMac, tpc, snap, cur, stopped, todo, wpc, announced,
                   routes, cachedConfig>>

\* updateTunnelConfig stops the thread, which stops and drops the tables, sets
\* the routes, and starts the thread again with new tables.  The caches are
\* fields of the adapter and stay.
Reconfigure ==
    /\ rpc = "idle" /\ ~stopped
    /\ routes' \in Routes
    /\ ipToMac' = [i \in Ip |-> None]
    /\ entries' = [m \in Mac |-> None]
    /\ tpc' = "scan" /\ snap' = {} /\ cur' = None
    /\ todo' = <<>> /\ wpc' = "idle"
    /\ sent' = None
    /\ UNCHANGED <<stopped, announced, cachedConfig, cache, rpc, rdst>>

Tun == SendKnown \/ DropNoAddress
       \/ \E d \in Ip : SendCached(d) \/ DropNoRoute(d) \/ SendQuery(d) \/ Known(d)

InTable(A) == A /\ UNCHANGED sendVars /\ sent' = None

Table ==
    \/ InTable(PutIp) \/ InTable(PutEntry) \/ InTable(Timeout) \/ InTable(Stop)
    \/ \E f \in Frames : InTable(Receive(f))
    \/ \E m \in Mac : InTable(Age(m))

AdapterNext == Tun \/ Table \/ Reconfigure

AdapterSpec == AdapterInit /\ [][AdapterNext]_adapterVars

\* The JVM runs the timeout thread, a setAddress that has begun is finished, and
\* time passes.
FairAdapterSpec ==
    /\ AdapterSpec
    /\ WF_adapterVars(InTable(Timeout))
    /\ WF_adapterVars(InTable(PutIp) \/ InTable(PutEntry))
    /\ \A m \in Mac : WF_adapterVars(InTable(Age(m)))

-----------------------------------------------------------------------------
(* Properties.                                                             *)

SendTypeOK ==
    /\ routes \in Routes
    /\ cachedConfig \in Configs
    /\ cache \in [dst : Ip, hop : Ip, mac : Mac \cup {None}] \cup {None}
    /\ rpc \in {"idle", "known"} /\ rdst \in Ip \cup {None}
    /\ rpc = "known" => rdst # None /\ Hop(rdst) # None
    /\ sent \in [hop : Ip, mac : Mac \cup {None}] \cup {None}

\* The types, and which steps of the threads hold a work list, an expired entry
\* or a destination with a next hop.
AdapterTypeOK == TableTypeOK /\ SendTypeOK

\* The timeout thread's copy: an entry still shared with entriesMap is there, and
\* no two copied entries, nor the one being removed, have the same MAC, so that
\* one pass never removes what the same pass has already removed.
CopyOK ==
    /\ \A o \in snap : o.shared => entries[o.mac] # None
    /\ \A o, q \in snap : o.mac = q.mac => o = q
    /\ cur # None => \A o \in snap : o.mac # cur.mac

\* The MAC address of a frame is one that its next hop announced, or -1: no
\* interleaving of lookups, expiry, learning and reconfiguration sends to a
\* neighbour the address of another (getMacForAddress, the destination cache).
FramesToAnnouncedMac ==
    sent # None /\ sent.mac # None => [ip |-> sent.hop, mac |-> sent.mac] \in announced

\* The inductive form of FramesToAnnouncedMac: the table and the cache only
\* hold announced pairs.
OnlyAnnounced ==
    /\ \A i \in Ip : ipToMac[i] # None => [ip |-> i, mac |-> ipToMac[i]] \in announced
    /\ cache # None /\ cache.mac # None => [ip |-> cache.hop, mac |-> cache.mac] \in announced
    /\ FramesToAnnouncedMac

\* Once frames and packets stop, every entry expires: ARPTable's timeout thread
\* survives the exceptions its unlocked copy may throw.
Traffic == PutEntry \/ SendKnown
EntriesExpire ==
    <>[](~stopped) /\ <>[][~Traffic]_adapterVars => \A m \in Mac : <>[](entries[m] = None)
=============================================================================
