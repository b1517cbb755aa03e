--------------------------- MODULE TetherPackets ---------------------------
(***************************************************************************)
(* What happens to an IPv4 packet read from the TUN device before it is    *)
(* routed: TetherL3Bridge.processOutbound, then NatEngine.processOutbound  *)
(* (tether/TetherL3Bridge.java, tether/NatEngine.java, and the head of     *)
(* TunTapAdapter.handleIPv4Packet).  The receive thread handles a packet   *)
(* in one step; the service configures and removes the two engines between *)
(* packets.                                                                *)
(*                                                                         *)
(* A header is what its checksum sees: the TTL byte, the checksum field,   *)
(* the sum of the two source-address words, and the sum of all the other   *)
(* 16-bit words (with the TTL byte zero).  Only packets of version 4 come  *)
(* this way.  The bridge compares the source with the subnet it was        *)
(* configured with (bridged), the NAT engine with the detector's present   *)
(* interfaces (tether); the two may differ.                                *)
(***************************************************************************)
EXTENDS Integers

CONSTANTS
    Packet,  \* records [short, bridged, tether, tracked, flow, ttl, ck, src, rest]
    ZtSrc,   \* the sum of the two words of the phone's ZeroTier address
    Flow,    \* the keys of connectionTable
    NoPacket

MaxTtl == 255
MaxWord == 65535
\* An IPv4 header has at most 30 words of 16 bits, the checksum among them.
MaxRest == 27 * MaxWord

UpTo(n) == {x \in Nat : x <= n}

PacketType ==
    [short : BOOLEAN, bridged : BOOLEAN, tether : BOOLEAN, tracked : BOOLEAN, flow : Flow,
     ttl : UpTo(MaxTtl), ck : UpTo(MaxWord), src : UpTo(2 * MaxWord), rest : UpTo(MaxRest)]

\* The first word of an IPv4 header starts with the version, 4.
ASSUME PacketAssumption ==
    /\ Packet \subseteq PacketType
    /\ \A p \in Packet : p.rest >= 4 * 4096
    /\ NoPacket \notin PacketType

ASSUME ZtSrcAssumption == ZtSrc \in UpTo(2 * MaxWord)

VARIABLES
    l3,      \* tunTapAdapter.tetherL3Bridge is set and active
    nat,     \* ZeroTierOneService.natEngine # null
    ttlFix,  \* NatEngine.ttlFixEnabled
    conns,   \* the keys of NatEngine.connectionTable
    in, out  \* the packet just read, and the frame handed to the node for it

enginesVars == <<l3, nat, ttlFix, conns, in, out>>

\* x & 0xFFFF plus x >> 16, for a negative x too (the shift is arithmetic).
Fold(x) == (x % 65536) + (x \div 65536)

\* Mutant: the carry is dropped.
FixTtlDropsCarry(p) ==
    IF p.ttl = 64 THEN p
    ELSE [p EXCEPT !.ttl = 64, !.ck = (p.ck + (p.ttl - 64) * 256) % 65536]

FixTtl(p) ==
    IF p.ttl = 64 THEN p
    ELSE [p EXCEPT !.ttl = 64, !.ck = Fold(Fold(p.ck + (p.ttl - 64) * 256))]

\* The header checksum computed from nothing.  The code folds until no carry is
\* left; two folds are enough for a header.
Checksum(p) == MaxWord - Fold(Fold(p.rest + p.src + p.ttl * 256))

FixIpChecksum(p) == [p EXCEPT !.ck = Checksum(p)]

EnginesInit ==
    /\ l3 = FALSE
    /\ nat = FALSE
    /\ ttlFix \in BOOLEAN
    /\ conns = {}
    /\ in = NoPacket
    /\ out = NoPacket

-----------------------------------------------------------------------------
(* The service.  Its steps fall between two packets.                       *)

BetweenPackets == in' = NoPacket /\ out' = NoPacket

\* startTetherServices creates a NatEngine; the setting is read once.
CreateNatEngine ==
    /\ ~nat
    /\ nat' = TRUE
    /\ conns' = {}
    /\ ttlFix' \in BOOLEAN
    /\ BetweenPackets
    /\ UNCHANGED l3

\* stopTetherServices resets and drops it.
DropNatEngine ==
    /\ nat
    /\ nat' = FALSE
    /\ conns' = {}
    /\ BetweenPackets
    /\ UNCHANGED <<l3, ttlFix>>

\* configureTetherL3Bridge, in TUNNEL mode, once a tether interface is known.
\* Nothing stops the bridge again.
ConfigureL3Bridge ==
    /\ nat
    /\ l3' = TRUE
    /\ BetweenPackets
    /\ UNCHANGED <<nat, ttlFix, conns>>

\* onStartCommand makes a new TunTapAdapter, without a bridge, once a stop has
\* closed the node.
NewTunTapAdapter ==
    /\ ~nat
    /\ l3' = FALSE
    /\ BetweenPackets
    /\ UNCHANGED <<nat, ttlFix, conns>>

-----------------------------------------------------------------------------
(* The receive thread.                                                     *)

\* TetherL3Bridge.processOutbound: the source becomes the phone's ZeroTier
\* address and the copy goes straight to the node.
L3Bridged(p) == FixIpChecksum([p EXCEPT !.src = ZtSrc])
L3Takes(p) == l3 /\ ~p.short /\ p.bridged

\* NatEngine.processOutbound works on the packet in place.
NatTakes(p) == nat /\ ~p.short /\ p.tether
NatProcessed(p) == IF NatTakes(p) /\ ttlFix THEN FixTtl(p) ELSE p

TrackConnection(p) ==
    conns' = IF NatTakes(p) /\ p.tracked THEN conns \cup {p.flow} ELSE conns

\* The node accepts the bridged frame: the packet goes no further.
HandleBridged(p) ==
    /\ L3Takes(p)
    /\ in' = p
    /\ out' = L3Bridged(p)
    /\ UNCHANGED <<l3, nat, ttlFix, conns>>

\* No bridge, or the node refused the frame: the NAT engine, then routing, which
\* sends the packet or drops it.
HandleRouted(p) ==
    /\ in' = p
    /\ out' \in {NatProcessed(p), NoPacket}
    /\ TrackConnection(p)
    /\ UNCHANGED <<l3, nat, ttlFix>>

EnginesNext ==
    \/ CreateNatEngine \/ DropNatEngine \/ ConfigureL3Bridge \/ NewTunTapAdapter
    \/ \E p \in Packet : HandleBridged(p) \/ HandleRouted(p)

EnginesSpec == EnginesInit /\ [][EnginesNext]_enginesVars

-----------------------------------------------------------------------------
(* Properties.                                                             *)

\* A receiver accepts a header whose words, checksum included, sum to all ones.
Valid(p) == Fold(Fold(p.rest + p.src + p.ttl * 256 + p.ck)) = MaxWord

\* The engines leave every header field within its width.
HeadersOK ==
    /\ l3 \in BOOLEAN /\ nat \in BOOLEAN /\ ttlFix \in BOOLEAN
    /\ conns \subseteq Flow
    /\ in \in Packet \cup {NoPacket}
    /\ out \in PacketType \cup {NoPacket}

\* A packet with a valid header leaves with a valid header, whichever engine
\* rewrote it: the incremental update of fixTtl, with its negative differences
\* and end-around carries, and the recomputation of fixIpChecksum agree with
\* what a receiver checks.
HeaderStaysValid ==
    in # NoPacket /\ out # NoPacket /\ Valid(in) => Valid(out)
=============================================================================
