--------------------------- MODULE TetherProofs ---------------------------
(* TLAPS proofs about TetherPackets, for every header an IPv4 packet can   *)
(* have, about TetherBridge, and about TetherServices on top of it, for    *)
(* every set of interfaces and of networks and every list of proxies.      *)
EXTENDS TetherServices, TetherPackets, TLAPS

(***************************************************************************)
(* TetherPackets.                                                          *)
(***************************************************************************)

\* A fold leaves a 16-bit value alone, ...
LEMMA FoldSmall ==
    ASSUME NEW x \in Int, 0 <= x, x < 65536
    PROVE  Fold(x) = x
BY SMT DEF Fold

\* ... brings one carry back as one, ...
LEMMA FoldCarry ==
    ASSUME NEW x \in Int, 65536 <= x, x < 131072
    PROVE  Fold(x) = x - 65535
BY SMT DEF Fold

\* ... and a borrow too (Java's shift is arithmetic).
LEMMA FoldBorrow ==
    ASSUME NEW x \in Int, x < 0, 0 - 65536 <= x
    PROVE  Fold(x) = x + 65535
BY SMT DEF Fold

\* In general it subtracts a multiple of 65535, so it keeps the ones'-complement
\* sum.
LEMMA FoldCongruent ==
    ASSUME NEW x \in Int
    PROVE  Fold(x) \in Int /\ x \div 65536 \in Int /\ Fold(x) = x - 65535 * (x \div 65536)
BY SMT DEF Fold

\* A sum of 32 words folds to one with at most one carry.
LEMMA FoldBounds ==
    ASSUME NEW x \in Int, 0 < x, x <= 2097120
    PROVE  0 < Fold(x) /\ Fold(x) < 131072
BY SMT DEF Fold

\* How often two folds subtract 65535.
Folded(x) == (x \div 65536) + (Fold(x) \div 65536)

\* Two folds of a positive sum of 32 words leave 16 bits that are not zero.
LEMMA FoldTwice ==
    ASSUME NEW x \in Int, 0 < x, x <= 2097120
    PROVE  /\ Fold(Fold(x)) \in Int
           /\ 0 < Fold(Fold(x)) /\ Fold(Fold(x)) <= 65535
           /\ Folded(x) \in Int
           /\ Fold(Fold(x)) = x - 65535 * Folded(x)
<1>1. /\ Fold(x) \in Int /\ 0 < Fold(x) /\ Fold(x) < 131072
      /\ x \div 65536 \in Int /\ Fold(x) = x - 65535 * (x \div 65536)
  BY FoldCongruent, FoldBounds, SMT
<1>2. /\ Fold(Fold(x)) \in Int /\ Fold(x) \div 65536 \in Int
      /\ Fold(Fold(x)) = Fold(x) - 65535 * (Fold(x) \div 65536)
  BY <1>1, FoldCongruent, SMT
<1>3. 0 < Fold(Fold(x)) /\ Fold(Fold(x)) <= 65535
  <2>1. CASE Fold(x) < 65536
    BY <1>1, <2>1, FoldSmall, SMT
  <2>2. CASE 65536 <= Fold(x)
    BY <1>1, <2>2, FoldCarry, SMT
  <2> QED
    BY <1>1, <2>1, <2>2, SMT
<1> QED
  BY <1>1, <1>2, <1>3, SMT DEF Folded

\* A receiver accepts exactly the positive multiples of 65535.
LEMMA AcceptedSums ==
    ASSUME NEW x \in Int, 0 < x, x <= 2097120
    PROVE  Fold(Fold(x)) = 65535 <=> x % 65535 = 0
<1> DEFINE f == Fold(Fold(x))
           m == Folded(x)
<1>1. f \in Int /\ 0 < f /\ f <= 65535 /\ m \in Int /\ f = x - 65535 * m
  BY FoldTwice, SMT
<1> HIDE DEF f, m
<1>2. ASSUME f = 65535 PROVE x % 65535 = 0
  BY <1>1, <1>2, SMT
<1>3. ASSUME x % 65535 = 0 PROVE f = 65535
  BY <1>1, <1>3, SMT
<1> QED
  BY <1>2, <1>3, SMT DEF f

\* fixTtl's arithmetic: the difference of the TTLs is added to the checksum, and
\* a carry or a borrow out of 16 bits comes back as one.
LEMMA FixTtlChecksum ==
    ASSUME NEW n \in Int, 0 - 16384 <= n, n <= 114431
    PROVE  Fold(Fold(n)) = IF n < 0 THEN n + 65535 ELSE IF n < 65536 THEN n ELSE n - 65535
<1>1. CASE n < 0
  <2>1. Fold(n) = n + 65535
    BY <1>1, FoldBorrow, SMT
  <2> QED
    BY <1>1, <2>1, FoldSmall, SMT
<1>2. CASE 0 <= n /\ n < 65536
  BY <1>2, FoldSmall, SMT
<1>3. CASE 65536 <= n
  <2>1. Fold(n) = n - 65535
    BY <1>3, FoldCarry, SMT
  <2> QED
    BY <1>3, <2>1, FoldSmall, SMT
<1> QED
  BY <1>1, <1>2, <1>3, SMT

\* The words of a header, checksum included.
Total(p) == p.rest + p.src + p.ttl * 256 + p.ck

\* The bounds of a header's fields.
LEMMA Fields ==
    ASSUME NEW p \in PacketType
    PROVE  /\ p.ttl \in Int /\ 0 <= p.ttl /\ p.ttl <= 255
           /\ p.ck \in Int /\ 0 <= p.ck /\ p.ck <= 65535
           /\ p.src \in Int /\ 0 <= p.src /\ p.src <= 131070
           /\ p.rest \in Int /\ 0 <= p.rest /\ p.rest <= 1769445
<1>1. /\ p.ttl \in UpTo(MaxTtl) /\ p.ck \in UpTo(MaxWord)
      /\ p.src \in UpTo(2 * MaxWord) /\ p.rest \in UpTo(MaxRest)
  BY Zenon DEF PacketType
<1> QED
  BY <1>1, SMT DEF UpTo, MaxTtl, MaxWord, MaxRest

\* Replacing the fields that the engines rewrite.
LEMMA SourceRewritten ==
    ASSUME NEW p \in PacketType, NEW s \in UpTo(2 * MaxWord)
    PROVE  [p EXCEPT !.src = s] \in PacketType /\ [p EXCEPT !.src = s].rest = p.rest
BY Zenon DEF PacketType

LEMMA ChecksumRewritten ==
    ASSUME NEW p \in PacketType, NEW c \in UpTo(MaxWord)
    PROVE  /\ [p EXCEPT !.ck = c] \in PacketType
           /\ [p EXCEPT !.ck = c].ck = c
           /\ [p EXCEPT !.ck = c].ttl = p.ttl
           /\ [p EXCEPT !.ck = c].src = p.src
           /\ [p EXCEPT !.ck = c].rest = p.rest
BY Zenon DEF PacketType

\* A header is valid when its words sum to a positive multiple of 65535.
LEMMA ValidTotal ==
    ASSUME NEW p \in PacketType, 0 < Total(p)
    PROVE  Total(p) \in Int /\ (Valid(p) <=> Total(p) % 65535 = 0)
<1>1. Total(p) \in Int /\ Total(p) <= 2097120
  BY Fields, SMT DEF Total
<1>2. Valid(p) <=> Fold(Fold(Total(p))) = 65535
  BY SMT DEF Valid, Total, MaxWord
<1> QED
  BY <1>1, <1>2, AcceptedSums, SMT

\* fixTtl keeps a valid header valid.
LEMMA FixTtlValid ==
    ASSUME NEW p \in PacketType
    PROVE  FixTtl(p) \in PacketType /\ (Valid(p) => Valid(FixTtl(p)))
<1>1. CASE p.ttl = 64
  BY <1>1, SMT DEF FixTtl
<1>2. CASE p.ttl # 64
  <2> DEFINE n == p.ck + (p.ttl - 64) * 256
             c == Fold(Fold(n))
             r == FixTtl(p)
  <2>1. n \in Int /\ 0 - 16384 <= n /\ n <= 114431
    BY Fields, SMT
  <2>2. c = IF n < 0 THEN n + 65535 ELSE IF n < 65536 THEN n ELSE n - 65535
    BY <2>1, FixTtlChecksum, SMT
  <2>3. c \in UpTo(MaxWord)
    <3> HIDE DEF n, c
    <3> QED
      BY <2>1, <2>2, SMT DEF UpTo, MaxWord
  <2>t. PICK t \in UpTo(MaxTtl) : t = 64
    BY SMT DEF UpTo, MaxTtl
  <2>4. r = [p EXCEPT !.ttl = t, !.ck = c]
    BY <1>2, <2>t, SMT DEF FixTtl
  <2> HIDE DEF c, r
  <2>5. r \in PacketType /\ r.ttl = t /\ r.ck = c /\ r.src = p.src /\ r.rest = p.rest
    BY <2>3, <2>4, Zenon DEF PacketType
  <2>6. Total(r) = p.rest + p.src + 16384 + c /\ Total(p) = p.rest + p.src + p.ttl * 256 + p.ck
    BY <2>t, <2>3, <2>5, Fields, SMT DEF Total, UpTo
  <2>7. p.rest \in Int /\ p.src \in Int /\ 0 <= p.rest /\ 0 <= p.src /\ p.ttl \in Int /\ p.ck \in Int
        /\ 0 <= p.ttl /\ 0 <= p.ck
    BY Fields, SMT
  <2>8. \/ Total(r) = Total(p) + 65535
        \/ Total(r) = Total(p)
        \/ Total(r) = Total(p) - 65535
    BY <2>1, <2>2, <2>6, <2>7, SMT
  <2>9. Total(r) \in Int /\ 0 < Total(r)
    BY <2>3, <2>6, <2>7, SMT DEF UpTo
  <2>10. ASSUME Valid(p) PROVE 0 < Total(p)
    <3>1. Total(p) # 0
      <4>1. ASSUME Total(p) = 0 PROVE FALSE
        <5>1. Fold(Fold(0)) = 65535
          BY <2>10, <4>1, SMT DEF Valid, Total, MaxWord
        <5>2. Fold(0) = 0
          BY FoldSmall, SMT
        <5> QED
          BY <5>1, <5>2, SMT
      <4> QED
        BY <4>1
    <3>2. Total(p) \in Int /\ 0 <= Total(p)
      BY <2>6, <2>7, SMT
    <3> QED
      BY <3>1, <3>2, SMT
  <2>11. Valid(p) => Valid(r)
    <3> SUFFICES ASSUME Valid(p) PROVE Total(r) % 65535 = 0
      BY <2>5, <2>9, ValidTotal, SMT
    <3>1. Total(p) \in Int /\ Total(p) % 65535 = 0
      BY <2>10, ValidTotal, SMT
    <3> QED
      BY <3>1, <2>8, SMT
  <2> QED
    BY <2>5, <2>11, SMT DEF r
<1> QED
  BY <1>1, <1>2, SMT

\* The L3 bridge's recomputed checksum is valid, whatever the header was.
LEMMA L3BridgedValid ==
    ASSUME NEW p \in PacketType, 0 < p.rest
    PROVE  L3Bridged(p) \in PacketType /\ Valid(L3Bridged(p))
<1> DEFINE a == [p EXCEPT !.src = ZtSrc]
           s == a.rest + a.src + a.ttl * 256
           c == Checksum(a)
           r == [a EXCEPT !.ck = c]
<1>1. a \in PacketType /\ a.rest = p.rest
  BY ZtSrcAssumption, SourceRewritten, Zenon
<1> HIDE DEF a
<1>2. s \in Int /\ 0 < s /\ s <= 2097120
  BY <1>1, Fields, SMT
<1> HIDE DEF s
<1>3. c = 65535 - Fold(Fold(s))
  BY SMT DEF s, Checksum, MaxWord
<1>4. /\ Fold(Fold(s)) \in Int /\ 0 < Fold(Fold(s)) /\ Fold(Fold(s)) <= 65535
      /\ Folded(s) \in Int /\ Fold(Fold(s)) = s - 65535 * Folded(s)
  BY <1>2, FoldTwice, SMT
<1>5. c \in UpTo(MaxWord)
  BY <1>2, <1>3, <1>4, SMT DEF UpTo, MaxWord
<1> HIDE DEF c, r
<1>6. r \in PacketType /\ Total(r) = s + c
  <2>1. r \in PacketType /\ r.ck = c /\ r.ttl = a.ttl /\ r.src = a.src /\ r.rest = a.rest
    BY <1>1, <1>5, ChecksumRewritten, Zenon DEF r
  <2> QED
    BY <2>1, SMT DEF Total, s
<1>7. 0 < Total(r) /\ Total(r) % 65535 = 0
  <2>1. c \in Int /\ 0 <= c
    BY <1>3, <1>4, SMT
  <2>2. Total(r) = 65535 * (Folded(s) + 1)
    BY <1>2, <1>3, <1>4, <1>6, SMT
  <2> QED
    BY <1>2, <1>4, <1>6, <2>1, <2>2, SMT
<1>8. Valid(r)
  BY <1>6, <1>7, ValidTotal, SMT
<1> QED
  BY <1>6, <1>8, Zenon DEF r, c, a, L3Bridged, FixIpChecksum

-----------------------------------------------------------------------------
(* The theorems.                                                           *)

\* What the receive thread hands to the node for p.
LEMMA SentHeaders ==
    ASSUME NEW p \in Packet
    PROVE  /\ L3Bridged(p) \in PacketType /\ Valid(L3Bridged(p))
           /\ NatProcessed(p) \in PacketType /\ (Valid(p) => Valid(NatProcessed(p)))
<1>1. p \in PacketType
  BY PacketAssumption
<1>2. 0 < p.rest
  BY <1>1, PacketAssumption, Fields, SMT
<1>3. L3Bridged(p) \in PacketType /\ Valid(L3Bridged(p))
  BY <1>1, <1>2, L3BridgedValid
<1>4. FixTtl(p) \in PacketType /\ (Valid(p) => Valid(FixTtl(p)))
  BY <1>1, FixTtlValid
<1> QED
  BY <1>1, <1>3, <1>4, Zenon DEF NatProcessed

\* Every header field stays within its width.
THEOREM HeadersTyped == EnginesSpec => []HeadersOK
<1>1. EnginesInit => HeadersOK
  BY Zenon DEF EnginesInit, HeadersOK
<1>2. HeadersOK /\ [EnginesNext]_enginesVars => HeadersOK'
  <2> SUFFICES ASSUME HeadersOK, [EnginesNext]_enginesVars PROVE HeadersOK'
    OBVIOUS
  <2> USE DEF HeadersOK
  <2>1. CASE CreateNatEngine
    BY <2>1 DEF CreateNatEngine, BetweenPackets
  <2>2. CASE DropNatEngine
    BY <2>2, Zenon DEF DropNatEngine, BetweenPackets
  <2>3. CASE ConfigureL3Bridge
    BY <2>3 DEF ConfigureL3Bridge, BetweenPackets
  <2>7. CASE NewTunTapAdapter
    BY <2>7, Zenon DEF NewTunTapAdapter, BetweenPackets
  <2>4. ASSUME NEW p \in Packet, HandleBridged(p) PROVE HeadersOK'
    BY <2>4, SentHeaders DEF HandleBridged
  <2>5. ASSUME NEW p \in Packet, HandleRouted(p) PROVE HeadersOK'
    <3>1. out' \in PacketType \cup {NoPacket}
      BY <2>5, SentHeaders DEF HandleRouted
    <3>2. p \in PacketType
      BY PacketAssumption
    <3>3. p.flow \in Flow
      BY <3>2, Zenon DEF PacketType
    <3> QED
      BY <2>5, <3>1, <3>3 DEF HandleRouted, TrackConnection
  <2>6. CASE UNCHANGED enginesVars
    BY <2>6 DEF enginesVars
  <2> QED
    BY <2>1, <2>2, <2>3, <2>4, <2>5, <2>6, <2>7 DEF EnginesNext
<1> QED
  BY <1>1, <1>2, PTL DEF EnginesSpec

\* A packet that arrives with a header a receiver accepts leaves with one.
THEOREM HeadersStayValid == EnginesSpec => []HeaderStaysValid
<1>1. EnginesInit => HeaderStaysValid
  BY DEF EnginesInit, HeaderStaysValid
<1>2. HeaderStaysValid /\ [EnginesNext]_enginesVars => HeaderStaysValid'
  <2> SUFFICES ASSUME HeaderStaysValid, [EnginesNext]_enginesVars PROVE HeaderStaysValid'
    OBVIOUS
  <2>1. CASE CreateNatEngine \/ DropNatEngine \/ ConfigureL3Bridge \/ NewTunTapAdapter
    BY <2>1 DEF CreateNatEngine, DropNatEngine, ConfigureL3Bridge, NewTunTapAdapter,
       BetweenPackets, HeaderStaysValid
  <2>2. ASSUME NEW p \in Packet, HandleBridged(p) PROVE HeaderStaysValid'
    <3>1. in' = p /\ out' = L3Bridged(p)
      BY <2>2 DEF HandleBridged
    <3>2. Valid(out')
      BY <3>1, SentHeaders
    <3> QED
      BY <3>2, Zenon DEF HeaderStaysValid, Valid
  <2>3. ASSUME NEW p \in Packet, HandleRouted(p) PROVE HeaderStaysValid'
    <3>1. in' = p /\ out' \in {NatProcessed(p), NoPacket}
      BY <2>3 DEF HandleRouted
    <3>2. Valid(p) /\ out' # NoPacket => Valid(out')
      BY <3>1, SentHeaders
    <3> QED
      BY <3>1, <3>2, Zenon DEF HeaderStaysValid, Valid
  <2>4. CASE UNCHANGED enginesVars
    BY <2>4, Zenon DEF enginesVars, HeaderStaysValid, Valid
  <2> QED
    BY <2>1, <2>2, <2>3, <2>4 DEF EnginesNext
<1> QED
  BY <1>1, <1>2, PTL DEF EnginesSpec

(***************************************************************************)
(* TetherServices.                                                         *)
(***************************************************************************)

\* Every step of the bridge's three threads keeps its fields and program
\* counters within their types.
THEOREM TypeCorrect == Spec => []TypeOK
<1> USE NoneAssumption DEF TypeOK, Thread, State, CtlLabel, PollLabel, CbLabel,
        SetStateLabel, objVars, envVars
<1>1. Init => TypeOK
  BY Zenon DEF Init, Worlds
<1>2. TypeOK /\ [Next]_vars => TypeOK'
  <2> SUFFICES ASSUME TypeOK, [Next]_vars PROVE TypeOK'
    OBVIOUS
  <2>1. ASSUME NEW t \in Thread, SetState(t) PROVE TypeOK'
    <3>1. CASE SetStateCompare(t)
      BY <3>1 DEF SetStateCompare, Leave, Goto, Return
    <3>2. CASE SetStateAssign(t)
      BY <3>2 DEF SetStateAssign, Goto
    <3>3. CASE SetStateNotify(t)
      BY <3>3 DEF SetStateNotify, Leave, Goto, Return
    <3> QED
      BY <2>1, <3>1, <3>2, <3>3 DEF SetState
  <2>2. CASE Ctl
    <3>1. CASE StartCellularPreferred
      BY <3>1 DEF StartCellularPreferred
    <3>2. CASE Start
      BY <3>2 DEF Start, Call, Goto
    <3>3. CASE StartDetector
      BY <3>3 DEF StartDetector
    <3>4. CASE StartUpstream
      BY <3>4 DEF StartUpstream, Goto
    <3>5. CASE StopDetector
      BY <3>5, Zenon DEF StopDetector, Goto
    <3>6. CASE StopDetectorClear
      BY <3>6 DEF StopDetectorClear, Goto
    <3>7. CASE StopUpstream
      BY <3>7, Zenon DEF StopUpstream, Goto
    <3>8. CASE StopUpstreamClear
      BY <3>8 DEF StopUpstreamClear, Call, Goto
    <3> QED
      BY <2>2, <3>1, <3>2, <3>3, <3>4, <3>5, <3>6, <3>7, <3>8 DEF Ctl
  <2>3. CASE Poll
    <3>1. CASE PollDetect
      BY <3>1 DEF PollDetect, Goto
    <3>2. CASE PollExit
      BY <3>2 DEF PollExit, Goto
    <3>3. CASE PollCompare
      BY <3>3 DEF PollCompare, Goto
    <3>4. CASE PollClear
      BY <3>4 DEF PollClear, Goto
    <3>5. CASE PollAddAll
      BY <3>5 DEF PollAddAll, Goto
    <3>6. CASE OnTetherInterfacesChanged
      BY <3>6 DEF OnTetherInterfacesChanged, Call, Goto
    <3> QED
      BY <2>3, <3>1, <3>2, <3>3, <3>4, <3>5, <3>6 DEF Poll
  <2>4. CASE Callback
    <3>1. ASSUME NEW n \in Network, OnAvailable(n) PROVE TypeOK'
      BY <3>1 DEF OnAvailable, Goto
    <3>2. ASSUME NEW n \in Network, OnLost(n) PROVE TypeOK'
      BY <3>2 DEF OnLost, Goto
    <3>3. CASE OnUpstreamChanged
      BY <3>3 DEF OnUpstreamChanged, Call, Goto
    <3>4. CASE OnCapabilitiesChanged
      BY <3>4 DEF OnCapabilitiesChanged
    <3>5. CASE OnUpstreamLost
      BY <3>5 DEF OnUpstreamLost, Call, Goto
    <3> QED
      BY <2>4, <3>1, <3>2, <3>3, <3>4, <3>5 DEF Callback
  <2>5. CASE EnvInterfaces
    BY <2>5 DEF EnvInterfaces, Worlds
  <2>6. CASE UNCHANGED vars
    BY <2>6 DEF vars
  <2> QED
    BY <2>1, <2>2, <2>3, <2>4, <2>5, <2>6 DEF Next
<1> QED
  BY <1>1, <1>2, PTL DEF Spec

\* Until stop(), a bridge with a tether interface and an upstream network is
\* ACTIVE or a thread is about to make it so (ActivationPending), so a bridge
\* whose threads have settled has lost no activation.
THEOREM ActivationInductive == Spec => []ActivationPending
<1> USE NoneAssumption DEF TypeOK, ActivationPending, Activating, PreStop, Thread, State,
        CtlLabel, PollLabel, CbLabel, SetStateLabel, objVars, envVars
<1>1. Init => ActivationPending
  BY DEF Init
<1>2. TypeOK /\ ActivationPending /\ [Next]_vars => ActivationPending'
  <2> SUFFICES ASSUME TypeOK, ActivationPending, [Next]_vars PROVE ActivationPending'
    OBVIOUS
  <2>1. ASSUME NEW t \in Thread, SetState(t) PROVE ActivationPending'
    <3>1. CASE SetStateCompare(t)
      BY <3>1 DEF SetStateCompare, Leave, Goto, Return
    <3>2. CASE SetStateAssign(t)
      BY <3>2 DEF SetStateAssign, Goto
    <3>3. CASE SetStateNotify(t)
      BY <3>3 DEF SetStateNotify, Leave, Goto, Return
    <3> QED
      BY <2>1, <3>1, <3>2, <3>3 DEF SetState
  <2>2. CASE Ctl
    <3>1. CASE StartCellularPreferred
      BY <3>1 DEF StartCellularPreferred
    <3>2. CASE Start
      BY <3>2 DEF Start, Call, Goto
    <3>3. CASE StartDetector
      BY <3>3 DEF StartDetector
    <3>4. CASE StartUpstream
      BY <3>4 DEF StartUpstream, Goto
    <3>5. CASE StopDetector
      BY <3>5 DEF StopDetector, Goto
    <3>6. CASE StopDetectorClear
      BY <3>6 DEF StopDetectorClear, Goto
    <3>7. CASE StopUpstream
      BY <3>7 DEF StopUpstream, Goto
    <3>8. CASE StopUpstreamClear
      BY <3>8 DEF StopUpstreamClear, Call, Goto
    <3> QED
      BY <2>2, <3>1, <3>2, <3>3, <3>4, <3>5, <3>6, <3>7, <3>8 DEF Ctl
  <2>3. CASE Poll
    <3>1. CASE PollDetect
      BY <3>1 DEF PollDetect, Goto
    <3>2. CASE PollExit
      BY <3>2 DEF PollExit, Goto
    <3>3. CASE PollCompare
      BY <3>3 DEF PollCompare, Goto
    <3>4. CASE PollClear
      BY <3>4 DEF PollClear, Goto
    <3>5. CASE PollAddAll
      BY <3>5 DEF PollAddAll, Goto
    <3>6. CASE OnTetherInterfacesChanged
      BY <3>6 DEF OnTetherInterfacesChanged, Call, Goto
    <3> QED
      BY <2>3, <3>1, <3>2, <3>3, <3>4, <3>5, <3>6 DEF Poll
  <2>4. CASE Callback
    <3>1. ASSUME NEW n \in Network, OnAvailable(n) PROVE ActivationPending'
      BY <3>1 DEF OnAvailable, Goto
    <3>2. ASSUME NEW n \in Network, OnLost(n) PROVE ActivationPending'
      BY <3>2 DEF OnLost, Goto
    <3>3. CASE OnUpstreamChanged
      BY <3>3 DEF OnUpstreamChanged, Call, Goto
    <3>4. CASE OnCapabilitiesChanged
      BY <3>4 DEF OnCapabilitiesChanged
    <3>5. CASE OnUpstreamLost
      BY <3>5 DEF OnUpstreamLost, Call, Goto
    <3> QED
      BY <2>4, <3>1, <3>2, <3>3, <3>4, <3>5 DEF Callback
  <2>5. CASE EnvInterfaces
    BY <2>5 DEF EnvInterfaces
  <2>6. CASE UNCHANGED vars
    BY <2>6 DEF vars
  <2> QED
    BY <2>1, <2>2, <2>3, <2>4, <2>5, <2>6 DEF Next
<1> QED
  BY <1>1, <1>2, TypeCorrect, PTL DEF Spec

\* A settled bridge with an interface and an upstream is ACTIVE, for any
\* interfaces and networks and any interleaving of the three threads.
THEOREM ActivationNotLost == Spec => []NoLostActivation
<1>1. ActivationPending => NoLostActivation
  BY DEF ActivationPending, NoLostActivation, Settled, PreStop, Activating, SetStateLabel
<1> QED
  BY <1>1, ActivationInductive, PTL

-----------------------------------------------------------------------------
(* The tether services.                                                    *)

ListenerLabel ==
    {"out", "start", "create", "launch", "stop", "halt", "forget", "done", "aborted"}

\* Every field of the service holds a value of its type.
SvcTypeOK ==
    /\ listening \in BOOLEAN /\ bridge \in BOOLEAN
    /\ field \in [Kind -> Addr \cup {None, New}]
    /\ lpc \in [Thread -> ListenerLabel]
    /\ k \in [Thread -> 1 .. Len(Kinds)]
    /\ bindAddr \in [Thread -> Addr \cup {None}]
    /\ quiet \in BOOLEAN /\ overlapped \in BOOLEAN
    /\ stale \in BOOLEAN /\ unheard \in BOOLEAN

\* Which code of the bridge each thread calls the service's from, and with which
\* states: only ctl sets IDLE, and ctl neither activates the bridge nor starts a
\* proxy.
Callers ==
    /\ target["ctl"] \in {"IDLE", "DETECTING"}
    /\ \A t \in {"poll", "cb"} : pc[t] \in SetStateLabel => target[t] # "IDLE"
    /\ \A t \in Thread : lpc[t] # "out" => pc[t] = "notify" \/ (t = "ctl" /\ pc[t] = "started")
    /\ lpc["ctl"] \notin {"start", "create", "launch"}
    /\ pc["ctl"] = "started" /\ lpc["ctl"] # "out" => listening
    /\ lpc["ctl"] = "aborted" => pc["ctl"] = "started"
    /\ lpc["poll"] # "aborted" /\ lpc["cb"] # "aborted"

\* The proxy that thread t is at.
At(t) == field[Kinds[k[t]]]

\* A thread that is alone among the proxies finds each field as it left it.
AloneInv ==
    ~overlapped =>
        /\ AloneIsSafe
        /\ \A t, u \in Thread : AmongProxies(t) /\ AmongProxies(u) => t = u
        /\ \A t \in Thread :
              /\ lpc[t] = "create" => ~Running(At(t))
              /\ lpc[t] = "halt" => At(t) # None
              /\ lpc[t] = "forget" => At(t) = New

\* The callback that has found the upstream lost, and has yet to say so.
Losing ==
    \/ pc["cb"] = "lost"
    \/ pc["cb"] \in {"compare", "assign"} /\ target["cb"] = "ERROR"

\* Until stop(), an ACTIVE bridge without an upstream is about to go to ERROR,
\* unless the loss was handled before the state was assigned.
UpstreamInv ==
    PreStop /\ state = "ACTIVE" /\ net = None => stale \/ Losing

\* ctl is past the steps of stop() that shut out the polling thread, and past those
\* that shut out the callbacks.
InStop == pc["ctl"] = "stopped" \/ (pc["ctl"] \in SetStateLabel /\ target["ctl"] = "IDLE")
NoPoll == pc["ctl"] \in {"clearDetector", "stopUpstream", "clearUpstream"} \/ InStop
NoCallback == pc["ctl"] = "clearUpstream" \/ InStop

\* stop() shuts out the polling thread and then the callbacks for good, and its
\* setState finds another state than IDLE, so that it calls the listener.
StopInv ==
    /\ state = "IDLE" =>
          \/ pc["ctl"] = "new"
          \/ pc["ctl"] \in {"compare", "assign"} /\ target["ctl"] = "DETECTING"
          \/ pc["ctl"] = "notify" /\ target["ctl"] = "IDLE"
          \/ pc["ctl"] = "stopped"
    /\ NoPoll => listening /\ ~running /\ (quiet => pc["poll"] \in {"loop", "ended"})
    /\ NoCallback => ~registered /\ (quiet => pc["cb"] = "idle")

\* The listener of a stop that met no handler in flight clears the proxies one by
\* one with no other thread among them.
ClearInv ==
    InStop /\ quiet =>
        /\ pc["ctl"] = "stopped" \/ lpc["ctl"] = "done" => \A x \in Kind : field[x] = None
        /\ lpc["ctl"] \in {"stop", "halt", "forget"} =>
              \A i \in 1 .. k["ctl"] - 1 : field[Kinds[i]] = None
        /\ lpc["ctl"] = "halt" => At("ctl") # None

\* startProxies and stopProxies touch nothing of the bridge, nor what ctl has set.
LEMMA ProxiesKeepBridge ==
    ASSUME NEW t \in Thread, Proxies(t)
    PROVE  UNCHANGED <<vars, listening, quiet, stale>>
<1>1. CASE Listener(t)
  BY <1>1 DEF Listener
<1>2. CASE StartProxiesTest(t) \/ StartProxiesCreate(t) \/ StartProxiesLaunch(t)
  BY <1>2 DEF StartProxiesTest, StartProxiesCreate, StartProxiesLaunch, history
<1>3. CASE StopProxiesTest(t) \/ StopProxiesHalt(t) \/ StopProxiesForget(t)
  BY <1>3 DEF StopProxiesTest, StopProxiesHalt, StopProxiesForget, history
<1> QED
  BY <1>1, <1>2, <1>3 DEF Proxies

\* Every step of the services is a step of the bridge or leaves it alone.
LEMMA StepOfBridge == [SvcNext]_allVars => [Next]_vars
<1> SUFFICES ASSUME [SvcNext]_allVars PROVE [Next]_vars
  OBVIOUS
<1>1. ASSUME NEW t \in Thread, Proxies(t) PROVE UNCHANGED vars
  BY <1>1, ProxiesKeepBridge
<1>2. ASSUME NEW t \in Thread, ListenerReturn(t) \/ BridgeAssign(t) PROVE Next
  BY <1>2 DEF ListenerReturn, BridgeAssign, Next, SetState
<1>3. CASE AddStateListener \/ StopTetherServices \/ ForgetBridge
  BY <1>3 DEF AddStateListener, StopTetherServices, ForgetBridge
<1>4. CASE BridgeStop \/ BridgeUnregister
  BY <1>4 DEF BridgeStop, BridgeUnregister, Next, Ctl
<1>5. CASE BridgeOther
  BY <1>5 DEF BridgeOther, Next, SetState, Ctl
<1>6. CASE UNCHANGED allVars
  BY <1>6 DEF allVars
<1> QED
  BY <1>1, <1>2, <1>3, <1>4, <1>5, <1>6 DEF SvcNext

\* The bridge under the service behaves like a bridge alone: the listener that
\* startTetherServices adds only delays setState, and what is proved of Spec holds
\* of SvcSpec.
THEOREM ServicesImplementBridge == SvcSpec => Spec
<1>1. SvcInit => Init
  BY DEF SvcInit
<1> QED
  BY <1>1, StepOfBridge, PTL DEF SvcSpec, Spec

\* Kinds is a sequence, and Kind the set of its elements.
LEMMA KindFacts ==
    /\ Len(Kinds) \in Nat /\ Len(Kinds) >= 1
    /\ \A i \in 1 .. Len(Kinds) : Kinds[i] \in Kind
    /\ \A x \in Kind : \E i \in 1 .. Len(Kinds) : x = Kinds[i]
BY KindsAssumption DEF Kind

\* The labels and loop counters of the service's threads keep their types.
LabelsTyped == lpc \in [Thread -> ListenerLabel] /\ k \in [Thread -> 1 .. Len(Kinds)]

LEMMA LabelsStayTyped ==
    ASSUME LabelsTyped, NEW t \in Thread, NEW label \in ListenerLabel
    PROVE  /\ Enter(t, label) => LabelsTyped'
           /\ GoTo(t, label) => LabelsTyped'
           /\ NextKind(t, label) => LabelsTyped'
           /\ Throw(t) => LabelsTyped'
<1> DEFINE L == ListenerLabel
           N == Len(Kinds)
<1>1. N \in Nat /\ N >= 1 /\ "done" \in L /\ "aborted" \in L
  BY KindFacts DEF ListenerLabel
<1>2. lpc \in [Thread -> L] /\ k \in [Thread -> 1 .. N] /\ label \in L
  BY DEF LabelsTyped
<1> HIDE DEF L, N
<1>3. \A l \in L : [lpc EXCEPT ![t] = l] \in [Thread -> L]
  BY <1>2
<1>4. \A i \in 1 .. N : [k EXCEPT ![t] = i] \in [Thread -> 1 .. N]
  BY <1>2
<1>5. 1 \in 1 .. N /\ (k[t] # N => k[t] + 1 \in 1 .. N)
  BY <1>1, <1>2
<1>6. \A l \in L : Enter(t, l) => lpc' \in [Thread -> L] /\ k' \in [Thread -> 1 .. N]
  BY <1>3, <1>4, <1>5 DEF Enter
<1>7. GoTo(t, label) => lpc' \in [Thread -> L] /\ k' \in [Thread -> 1 .. N]
  BY <1>2, <1>3 DEF GoTo
<1>8. NextKind(t, label) => lpc' \in [Thread -> L] /\ k' \in [Thread -> 1 .. N]
  BY <1>1, <1>2, <1>3, <1>4, <1>5 DEF NextKind, N
<1>9. Throw(t) => lpc' \in [Thread -> L] /\ k' \in [Thread -> 1 .. N]
  BY <1>1, <1>6 DEF Throw
<1> QED
  BY <1>2, <1>6, <1>7, <1>8, <1>9 DEF LabelsTyped, L, N

\* The fields of the service keep their types.
LEMMA SvcTypeStep == TypeOK /\ SvcTypeOK /\ [SvcNext]_allVars => SvcTypeOK'
<1> SUFFICES ASSUME TypeOK, SvcTypeOK, [SvcNext]_allVars PROVE SvcTypeOK'
  OBVIOUS
<1>0. /\ SvcTypeOK => LabelsTyped
      /\ {"out", "start", "create", "launch", "stop", "halt", "forget", "done"}
         \subseteq ListenerLabel
      /\ {"ctl", "poll", "cb"} = Thread
  BY DEF SvcTypeOK, LabelsTyped, ListenerLabel, Thread
<1> USE DEF SvcTypeOK, history
<1>1. ASSUME NEW t \in Thread, Listener(t) PROVE SvcTypeOK'
  <2>1. \A i \in active : i.addr \in Addr
    BY DEF Addr, TypeOK
  <2>2. bindAddr' \in [Thread -> Addr \cup {None}]
    BY <1>1, <2>1 DEF Listener
  <2>3. Enter(t, "start") \/ Enter(t, "stop") \/ Enter(t, "done")
    BY <1>1 DEF Listener
  <2>4. LabelsTyped'
    BY <1>0, <2>3, LabelsStayTyped
  <2>5. overlapped' \in BOOLEAN /\ unheard' \in BOOLEAN
    BY <1>1 DEF Listener
  <2> QED
    BY <1>1, <2>2, <2>4, <2>5 DEF Listener, LabelsTyped
<1>2. ASSUME NEW t \in Thread, StartProxiesTest(t) \/ StopProxiesTest(t) PROVE SvcTypeOK'
  <2>1. LabelsTyped'
    BY <1>0, <1>2, LabelsStayTyped DEF StartProxiesTest, StopProxiesTest
  <2> QED
    BY <1>2, <2>1 DEF StartProxiesTest, StopProxiesTest, LabelsTyped
<1>3. ASSUME NEW t \in Thread, StartProxiesCreate(t) PROVE SvcTypeOK'
  <2>1. LabelsTyped'
    BY <1>0, <1>3, LabelsStayTyped DEF StartProxiesCreate
  <2>2. field' \in [Kind -> Addr \cup {None, New}]
    BY <1>3, Zenon DEF StartProxiesCreate
  <2> QED
    BY <1>3, <2>1, <2>2 DEF StartProxiesCreate, LabelsTyped
<1>4. ASSUME NEW t \in Thread, StartProxiesLaunch(t) PROVE SvcTypeOK'
  <2>1. LabelsTyped'
    BY <1>0, <1>4, LabelsStayTyped DEF StartProxiesLaunch
  <2>2. field' \in [Kind -> Addr \cup {None, New}]
    BY <1>4 DEF StartProxiesLaunch
  <2> QED
    BY <1>4, <2>1, <2>2 DEF StartProxiesLaunch, LabelsTyped
<1>5. ASSUME NEW t \in Thread, StopProxiesHalt(t) PROVE SvcTypeOK'
  <2>1. LabelsTyped'
    BY <1>0, <1>5, LabelsStayTyped DEF StopProxiesHalt
  <2>2. field' \in [Kind -> Addr \cup {None, New}]
    BY <1>5 DEF StopProxiesHalt
  <2> QED
    BY <1>5, <2>1, <2>2 DEF StopProxiesHalt, LabelsTyped
<1>6. ASSUME NEW t \in Thread, StopProxiesForget(t) PROVE SvcTypeOK'
  <2>1. LabelsTyped'
    BY <1>0, <1>6, LabelsStayTyped DEF StopProxiesForget
  <2>2. field' \in [Kind -> Addr \cup {None, New}]
    BY <1>6, Zenon DEF StopProxiesForget
  <2> QED
    BY <1>6, <2>1, <2>2 DEF StopProxiesForget, LabelsTyped
<1>7. ASSUME NEW t \in Thread, ListenerReturn(t) PROVE SvcTypeOK'
  <2>1. LabelsTyped'
    BY <1>0, <1>7, LabelsStayTyped DEF ListenerReturn
  <2> QED
    BY <1>7, <2>1, Zenon DEF ListenerReturn, LabelsTyped
<1>8. ASSUME NEW t \in Thread, BridgeAssign(t) PROVE SvcTypeOK'
  BY <1>8 DEF BridgeAssign
<1>9. CASE AddStateListener \/ ForgetBridge
  BY <1>9, Zenon DEF AddStateListener, ForgetBridge
<1>10. CASE StopTetherServices
  <2>1. overlapped' \in BOOLEAN
    BY <1>10 DEF StopTetherServices
  <2>2. LabelsTyped'
    BY <1>0, <1>10, LabelsStayTyped DEF StopTetherServices
  <2> QED
    BY <1>10, <2>1, <2>2 DEF StopTetherServices, LabelsTyped
<1>11. CASE BridgeStop
  <2>1. quiet' \in BOOLEAN
    BY <1>11 DEF BridgeStop
  <2>2. LabelsTyped'
    BY <1>0, <1>11, LabelsStayTyped DEF BridgeStop
  <2> QED
    BY <1>11, <2>1, <2>2 DEF BridgeStop, LabelsTyped
<1>12. CASE BridgeUnregister
  BY <1>12 DEF BridgeUnregister
<1>13. CASE BridgeOther \/ UNCHANGED allVars
  BY <1>13 DEF BridgeOther, svcVars, allVars
<1> QED
  BY <1>1, <1>2, <1>3, <1>4, <1>5, <1>6, <1>7, <1>8, <1>9, <1>10, <1>11, <1>12, <1>13
     DEF SvcNext, Proxies

\* ctl's own steps keep it out of startProxies, and every thread returns from the
\* service's code before it goes on in the bridge's.
LEMMA CallersStep ==
    TypeOK /\ ActivationPending /\ SvcTypeOK /\ Callers /\ [SvcNext]_allVars => Callers'
<1> SUFFICES ASSUME TypeOK, ActivationPending, SvcTypeOK, Callers, [SvcNext]_allVars
             PROVE  Callers'
  OBVIOUS
<1>0. /\ pc \in [Thread -> CtlLabel \cup PollLabel \cup CbLabel] /\ target \in [Thread -> State]
      /\ lpc \in [Thread -> ListenerLabel]
  BY DEF TypeOK, SvcTypeOK
<1> USE <1>0 DEF Callers, Thread, SetStateLabel
<1>1. ASSUME NEW t \in Thread, Listener(t) PROVE Callers'
  BY <1>1 DEF Listener, Enter, vars
<1>2. ASSUME NEW t \in Thread, StartProxiesTest(t) \/ StopProxiesTest(t) PROVE Callers'
  BY <1>2 DEF StartProxiesTest, StopProxiesTest, NextKind, GoTo, vars
<1>3. ASSUME NEW t \in Thread, StartProxiesCreate(t) PROVE Callers'
  BY <1>3 DEF StartProxiesCreate, Throw, Enter, GoTo, vars
<1>4. ASSUME NEW t \in Thread, StartProxiesLaunch(t) PROVE Callers'
  BY <1>4 DEF StartProxiesLaunch, Throw, Enter, NextKind, vars
<1>5. ASSUME NEW t \in Thread, StopProxiesHalt(t) PROVE Callers'
  BY <1>5 DEF StopProxiesHalt, Throw, Enter, GoTo, vars
<1>6. ASSUME NEW t \in Thread, StopProxiesForget(t) PROVE Callers'
  BY <1>6 DEF StopProxiesForget, NextKind, vars
<1>7. ASSUME NEW t \in Thread, ListenerReturn(t) PROVE Callers'
  BY <1>7 DEF ListenerReturn, SetStateNotify, Leave, Return, Goto, Enter
<1>8. ASSUME NEW t \in Thread, BridgeAssign(t) PROVE Callers'
  BY <1>8 DEF BridgeAssign, SetStateAssign, Goto
<1>9. CASE AddStateListener \/ ForgetBridge
  BY <1>9 DEF AddStateListener, ForgetBridge, vars
<1>10. CASE StopTetherServices
  BY <1>10 DEF StopTetherServices, Enter, vars
<1>11. CASE BridgeStop
  BY <1>11 DEF BridgeStop, StopDetector, Goto, Enter
<1>12. CASE BridgeUnregister
  BY <1>12 DEF BridgeUnregister, StopUpstream, Goto
<1>13. CASE BridgeOther
  <2>0. UNCHANGED <<lpc, listening>>
    BY <1>13 DEF BridgeOther, svcVars
  <2>1. ASSUME NEW t \in Thread, SetStateCompare(t) PROVE Callers'
    BY <2>0, <2>1 DEF SetStateCompare, Leave, Return, Goto
  <2>2. CASE StartCellularPreferred \/ Start \/ StopDetectorClear \/ StopUpstreamClear
    BY <2>0, <2>2 DEF StartCellularPreferred, Start, StopDetectorClear, StopUpstreamClear,
       Call, Goto
  <2>6. CASE StartDetector \/ StartUpstream
    BY <2>0, <2>6 DEF StartDetector, StartUpstream, Goto, ActivationPending, PreStop
  <2>3. CASE Poll
    BY <2>0, <2>3 DEF Poll, PollDetect, PollExit, PollCompare, PollClear, PollAddAll,
       OnTetherInterfacesChanged, Call, Goto
  <2>4. CASE Callback
    BY <2>0, <2>4 DEF Callback, OnAvailable, OnLost, OnUpstreamChanged, OnCapabilitiesChanged,
       OnUpstreamLost, Call, Goto
  <2>5. CASE EnvInterfaces
    BY <2>0, <2>5 DEF EnvInterfaces
  <2> QED
    BY <1>13, <2>1, <2>2, <2>3, <2>4, <2>5, <2>6 DEF BridgeOther
<1>14. CASE UNCHANGED allVars
  BY <1>14 DEF allVars, vars, svcVars
<1> QED
  BY <1>1, <1>2, <1>3, <1>4, <1>5, <1>6, <1>7, <1>8, <1>9, <1>10, <1>11, <1>12, <1>13, <1>14
     DEF SvcNext, Proxies

\* A thread that enters startProxies or stopProxies while another is there sets
\* overlapped; until then what a thread has tested of a field stays true.
LEMMA AloneStep ==
    /\ TypeOK /\ SvcTypeOK /\ Callers /\ AloneInv /\ [SvcNext]_allVars
    => AloneInv'
<1> SUFFICES ASSUME TypeOK, SvcTypeOK, Callers, AloneInv, [SvcNext]_allVars, ~overlapped'
             PROVE  AloneInv'
  BY Zenon DEF AloneInv
<1>0. /\ lpc \in [Thread -> ListenerLabel] /\ k \in [Thread -> 1 .. Len(Kinds)]
      /\ field \in [Kind -> Addr \cup {None, New}]
      /\ \A t \in Thread : Kinds[k[t]] \in Kind
  BY KindFacts DEF SvcTypeOK
<1>a. "ctl" \in Thread
  BY DEF Thread
<1> USE DEF AloneInv, AloneIsSafe, AmongProxies, At, Running
<1>1. ASSUME NEW t \in Thread, Listener(t) PROVE AloneInv'
  <2>1. /\ Enter(t, "start") \/ Enter(t, "stop") \/ Enter(t, "done")
        /\ lpc[t] = "out" /\ UNCHANGED <<field, leaked>>
        /\ ~overlapped /\ ~(AmongProxies(t)' /\ \E u \in Thread : AmongProxies(u))
    BY <1>1, Zenon DEF Listener
  <2> QED
    BY <1>0, <1>a, <2>1 DEF Enter
<1>2. ASSUME NEW t \in Thread, StartProxiesTest(t) PROVE AloneInv'
  BY <1>0, <1>a, <1>2 DEF StartProxiesTest, NextKind, GoTo, history
<1>3. ASSUME NEW t \in Thread, StartProxiesCreate(t) PROVE AloneInv'
  BY <1>0, <1>a, <1>3 DEF StartProxiesCreate, Throw, Enter, GoTo, history, Callers
<1>4. ASSUME NEW t \in Thread, StartProxiesLaunch(t) PROVE AloneInv'
  BY <1>0, <1>a, <1>4 DEF StartProxiesLaunch, Throw, Enter, NextKind, history, Callers
<1>5. ASSUME NEW t \in Thread, StopProxiesTest(t) PROVE AloneInv'
  BY <1>0, <1>a, <1>5 DEF StopProxiesTest, NextKind, GoTo, history
<1>6. ASSUME NEW t \in Thread, StopProxiesHalt(t) PROVE AloneInv'
  BY <1>0, <1>a, <1>6 DEF StopProxiesHalt, Throw, Enter, GoTo, history
<1>7. ASSUME NEW t \in Thread, StopProxiesForget(t) PROVE AloneInv'
  BY <1>0, <1>a, <1>7 DEF StopProxiesForget, NextKind, history
<1>8. ASSUME NEW t \in Thread, ListenerReturn(t) PROVE AloneInv'
  BY <1>0, <1>a, <1>8 DEF ListenerReturn, Enter, history
<1>9. ASSUME NEW t \in Thread, BridgeAssign(t) PROVE AloneInv'
  BY <1>9 DEF BridgeAssign
<1>10. CASE StopTetherServices
  BY <1>0, <1>a, <1>10, Zenon DEF StopTetherServices, Enter
<1>11. CASE BridgeStop
  BY <1>0, <1>a, <1>11 DEF BridgeStop, Enter
<1>12. CASE AddStateListener \/ ForgetBridge \/ BridgeUnregister
  BY <1>12 DEF AddStateListener, ForgetBridge, BridgeUnregister, history
<1>13. CASE BridgeOther \/ UNCHANGED allVars
  BY <1>13 DEF BridgeOther, svcVars, allVars, history
<1> QED
  BY <1>1, <1>2, <1>3, <1>4, <1>5, <1>6, <1>7, <1>8, <1>9, <1>10, <1>11, <1>12, <1>13, Zenon
     DEF SvcNext, Proxies

\* Only the callbacks clear the upstream of a bridge that is not being stopped, and
\* a callback that does goes on to leave ACTIVE.
LEMMA UpstreamStep ==
    TypeOK /\ ActivationPending /\ UpstreamInv /\ [SvcNext]_allVars => UpstreamInv'
<1> SUFFICES ASSUME TypeOK, ActivationPending, UpstreamInv, [SvcNext]_allVars
             PROVE  UpstreamInv'
  OBVIOUS
<1>0. /\ pc \in [Thread -> CtlLabel \cup PollLabel \cup CbLabel] /\ target \in [Thread -> State]
  BY DEF TypeOK
<1> USE <1>0 DEF UpstreamInv, Losing, PreStop, Thread, SetStateLabel
<1>1. ASSUME NEW t \in Thread, Proxies(t) PROVE UpstreamInv'
  BY <1>1, ProxiesKeepBridge DEF vars
<1>2. ASSUME NEW t \in Thread, ListenerReturn(t) PROVE UpstreamInv'
  BY <1>2 DEF ListenerReturn, SetStateNotify, Leave, Return, Goto, objVars, history
<1>3. ASSUME NEW t \in Thread, BridgeAssign(t) PROVE UpstreamInv'
  BY <1>3, Zenon DEF BridgeAssign, SetStateAssign, Goto
<1>4. CASE AddStateListener \/ StopTetherServices \/ ForgetBridge
  BY <1>4 DEF AddStateListener, StopTetherServices, ForgetBridge, vars, history
<1>5. CASE BridgeStop
  BY <1>5 DEF BridgeStop, StopDetector, Goto
<1>6. CASE BridgeUnregister
  BY <1>6 DEF BridgeUnregister, StopUpstream, Goto
<1>7. CASE BridgeOther
  <2>0. stale' = stale
    BY <1>7 DEF BridgeOther, svcVars, history
  <2> USE <2>0 DEF objVars, envVars
  <2>1. ASSUME NEW t \in Thread, SetStateCompare(t) PROVE UpstreamInv'
    BY <2>1 DEF SetStateCompare, Leave, Return, Goto
  <2>2. CASE StartCellularPreferred \/ Start \/ StopDetectorClear \/ StopUpstreamClear
    BY <2>2 DEF StartCellularPreferred, Start, StopDetectorClear, StopUpstreamClear,
       Call, Goto
  <2>3. CASE StartDetector \/ StartUpstream
    BY <2>3 DEF StartDetector, StartUpstream, Goto
  <2>4. CASE Poll
    BY <2>4 DEF Poll, PollDetect, PollExit, PollCompare, PollClear, PollAddAll,
       OnTetherInterfacesChanged, Call, Goto
  <2>5. ASSUME NEW n \in Network, OnAvailable(n) PROVE UpstreamInv'
    BY <2>5, NoneAssumption DEF OnAvailable, Goto
  <2>6. ASSUME NEW n \in Network, OnLost(n) PROVE UpstreamInv'
    BY <2>6 DEF OnLost, Goto
  <2>7. CASE OnUpstreamChanged
    BY <2>7 DEF OnUpstreamChanged, Call, Goto
  <2>8. CASE OnCapabilitiesChanged
    BY <2>8 DEF OnCapabilitiesChanged, ActivationPending
  <2>9. CASE OnUpstreamLost
    BY <2>9 DEF OnUpstreamLost, Call, Goto
  <2>10. CASE EnvInterfaces
    BY <2>10 DEF EnvInterfaces
  <2> QED
    BY <1>7, <2>1, <2>2, <2>3, <2>4, <2>5, <2>6, <2>7, <2>8, <2>9, <2>10
       DEF BridgeOther, Callback
<1>8. CASE UNCHANGED allVars
  BY <1>8 DEF allVars, vars, svcVars, history
<1> QED
  BY <1>1, <1>2, <1>3, <1>4, <1>5, <1>6, <1>7, <1>8 DEF SvcNext

\* A polling thread that finds running cleared only exits, and no callback begins
\* once it is unregistered.
LEMMA StopStep ==
    TypeOK /\ SvcTypeOK /\ Callers /\ StopInv /\ [SvcNext]_allVars => StopInv'
<1> SUFFICES ASSUME TypeOK, SvcTypeOK, Callers, StopInv, [SvcNext]_allVars
             PROVE  StopInv'
  OBVIOUS
<1>0. /\ pc \in [Thread -> CtlLabel \cup PollLabel \cup CbLabel] /\ target \in [Thread -> State]
      /\ pc["poll"] \in PollLabel /\ pc["cb"] \in CbLabel
  BY DEF TypeOK
<1> USE <1>0 DEF StopInv, InStop, NoPoll, NoCallback, Thread, SetStateLabel, Callers
<1>1. ASSUME NEW t \in Thread, Proxies(t) PROVE StopInv'
  BY <1>1, ProxiesKeepBridge DEF vars
<1>2. ASSUME NEW t \in Thread, ListenerReturn(t) PROVE StopInv'
  BY <1>2 DEF ListenerReturn, SetStateNotify, Leave, Return, Goto, objVars, history
<1>3. ASSUME NEW t \in Thread, BridgeAssign(t) PROVE StopInv'
  BY <1>3 DEF BridgeAssign, SetStateAssign, Goto
<1>4. CASE AddStateListener \/ StopTetherServices \/ ForgetBridge
  BY <1>4 DEF AddStateListener, StopTetherServices, ForgetBridge, vars, history
<1>5. CASE BridgeStop
  BY <1>5, Zenon DEF BridgeStop, StopDetector, Goto
<1>6. CASE BridgeUnregister
  BY <1>6, Zenon DEF BridgeUnregister, StopUpstream, Goto
<1>7. CASE BridgeOther
  <2>0. UNCHANGED <<quiet, listening>>
    BY <1>7 DEF BridgeOther, svcVars, history
  <2> USE <2>0 DEF objVars, envVars
  <2>1. ASSUME NEW t \in Thread, SetStateCompare(t) PROVE StopInv'
    BY <2>1 DEF SetStateCompare, Leave, Return, Goto
  <2>2. CASE StartCellularPreferred \/ Start \/ StopDetectorClear \/ StopUpstreamClear
    BY <2>2 DEF StartCellularPreferred, Start, StopDetectorClear, StopUpstreamClear,
       Call, Goto
  <2>3. CASE StartDetector \/ StartUpstream
    BY <2>3 DEF StartDetector, StartUpstream, Goto
  <2>4. CASE Poll
    BY <2>4 DEF Poll, PollDetect, PollExit, PollCompare, PollClear, PollAddAll,
       OnTetherInterfacesChanged, Call, Goto
  <2>5. CASE Callback
    BY <2>5 DEF Callback, OnAvailable, OnLost, OnUpstreamChanged, OnCapabilitiesChanged,
       OnUpstreamLost, Call, Goto
  <2>6. CASE EnvInterfaces
    BY <2>6 DEF EnvInterfaces
  <2> QED
    BY <1>7, <2>1, <2>2, <2>3, <2>4, <2>5, <2>6 DEF BridgeOther
<1>8. CASE UNCHANGED allVars
  BY <1>8 DEF allVars, vars, svcVars, history
<1> QED
  BY <1>1, <1>2, <1>3, <1>4, <1>5, <1>6, <1>7, <1>8 DEF SvcNext

\* A quiet stop is alone among the proxies, and its loop leaves each field None.
LEMMA ClearStep ==
    /\ TypeOK /\ SvcTypeOK /\ Callers /\ StopInv /\ ClearInv /\ [SvcNext]_allVars
    => ClearInv'
<1> SUFFICES ASSUME TypeOK, SvcTypeOK, Callers, StopInv, ClearInv, [SvcNext]_allVars,
                    InStop', quiet'
             PROVE  ClearInv'
  BY DEF ClearInv
<1>0. /\ lpc \in [Thread -> ListenerLabel] /\ k \in [Thread -> 1 .. Len(Kinds)]
      /\ field \in [Kind -> Addr \cup {None, New}]
      /\ pc \in [Thread -> CtlLabel \cup PollLabel \cup CbLabel]
      /\ target \in [Thread -> State]
      /\ k["ctl"] \in 1 .. Len(Kinds) /\ Kinds[k["ctl"]] \in Kind
  BY KindFacts DEF SvcTypeOK, TypeOK, Thread
<1>1. CASE InStop /\ quiet
  <2>1. /\ listening /\ lpc["poll"] = "out" /\ lpc["cb"] = "out"
        /\ pc["poll"] \in {"loop", "ended"} /\ pc["cb"] = "idle"
    BY <1>1 DEF StopInv, NoPoll, NoCallback, Callers, Thread
  <2>2. ASSUME NEW t \in Thread, Proxies(t)
        PROVE  /\ t = "ctl"
               /\ \/ Listener(t) \/ StopProxiesTest(t)
                  \/ StopProxiesHalt(t) \/ StopProxiesForget(t)
    <3>1. t = "ctl"
      BY <2>1, <2>2, Zenon DEF Proxies, Listener, StartProxiesTest, StartProxiesCreate,
         StartProxiesLaunch, StopProxiesTest, StopProxiesHalt, StopProxiesForget, Thread
    <3> QED
      BY <2>2, <3>1 DEF Proxies, StartProxiesTest, StartProxiesCreate, StartProxiesLaunch,
         Callers
  <2>3. ASSUME NEW t \in Thread, Proxies(t)
        PROVE  pc["ctl"] = "notify" /\ target["ctl"] = "IDLE"
    <3>1. pc["ctl"] # "stopped" /\ pc["ctl"] \notin {"compare", "assign"}
      BY <2>2, <2>3, Zenon DEF Listener, StopProxiesTest, StopProxiesHalt, StopProxiesForget, Thread,
         Callers
    <3> QED
      BY <1>1, <3>1 DEF InStop, SetStateLabel
  <2>4. ASSUME pc'["ctl"] = "notify", NextKind("ctl", "stop"),
               \A i \in 1 .. k["ctl"] : field'[Kinds[i]] = None
        PROVE  ClearInv'
    <3>1. CASE k["ctl"] = Len(Kinds)
      BY <1>0, <2>4, <3>1, KindFacts DEF NextKind, ClearInv, Thread
    <3>2. CASE k["ctl"] # Len(Kinds)
      BY <1>0, <2>4, <3>2 DEF NextKind, ClearInv, Thread
    <3> QED
      BY <3>1, <3>2
  <2>5. CASE Listener("ctl")
    <3>1. target["ctl"] = "IDLE" /\ listening /\ pc'["ctl"] = "notify"
      BY <2>1, <2>3, <2>5, Zenon DEF Proxies, Listener, Thread, vars
    <3>2. Enter("ctl", "stop")
      BY <2>5, <3>1, Zenon DEF Listener
    <3> QED
      BY <1>0, <3>1, <3>2 DEF Enter, ClearInv, Thread
  <2>a. CASE StopProxiesTest("ctl")
    <3>0. pc'["ctl"] = "notify" /\ UNCHANGED field
      BY <2>3, <2>a, Zenon DEF StopProxiesTest, Proxies, Thread, vars
    <3>1. /\ \A i \in 1 .. k["ctl"] - 1 : field[Kinds[i]] = None
          /\ pc'["ctl"] = "notify" /\ UNCHANGED field
      BY <1>1, <2>a, <3>0, Zenon DEF ClearInv, StopProxiesTest
    <3>2. CASE field[Kinds[k["ctl"]]] = None
      <4>1. \A i \in 1 .. k["ctl"] : field[Kinds[i]] = None
        BY <1>0, <3>1, <3>2, KindFacts
      <4> QED
        BY <2>4, <2>a, <3>1, <3>2, <4>1, Zenon DEF StopProxiesTest
    <3>3. CASE field[Kinds[k["ctl"]]] # None
      BY <1>0, <2>a, <3>1, <3>3 DEF StopProxiesTest, GoTo, ClearInv, At, Thread
    <3> QED
      BY <3>2, <3>3
  <2>6. CASE StopProxiesHalt("ctl")
    <3>1. /\ \A i \in 1 .. k["ctl"] - 1 : field[Kinds[i]] = None
          /\ field[Kinds[k["ctl"]]] # None
      BY <1>1, <2>6 DEF ClearInv, At, StopProxiesHalt
    <3>2. /\ field' = [field EXCEPT ![Kinds[k["ctl"]]] = New]
          /\ GoTo("ctl", "forget") /\ UNCHANGED vars
      BY <2>6, <3>1 DEF StopProxiesHalt
    <3> QED
      BY <1>0, <2>3, <2>6, <3>1, <3>2 DEF Proxies, GoTo, ClearInv, At, Thread, vars
  <2>7. CASE StopProxiesForget("ctl")
    <3>1. \A i \in 1 .. k["ctl"] - 1 : field[Kinds[i]] = None
      BY <1>1, <2>7, Zenon DEF ClearInv, StopProxiesForget
    <3>2. \A i \in 1 .. k["ctl"] : field'[Kinds[i]] = None
      BY <1>0, <2>7, <3>1, KindFacts DEF StopProxiesForget
    <3>3. pc'["ctl"] = "notify" /\ NextKind("ctl", "stop")
      BY <2>3, <2>7 DEF Proxies, StopProxiesForget, Thread, vars
    <3> QED
      BY <2>4, <3>2, <3>3
  <2>8. ASSUME NEW t \in Thread, ListenerReturn(t) PROVE ClearInv'
    <3>1. t = "ctl" /\ lpc["ctl"] = "done" /\ field' = field /\ lpc'["ctl"] = "out"
      BY <1>0, <2>1, <2>8 DEF ListenerReturn, Enter, Thread
    <3> QED
      BY <1>1, <3>1 DEF ClearInv
  <2>9. ASSUME NEW t \in Thread, BridgeAssign(t) PROVE ClearInv'
    <3>1. /\ t = "ctl" /\ lpc["ctl"] = "out" /\ UNCHANGED <<lpc, field>>
          /\ pc'["ctl"] = "notify"
      BY <1>0, <2>1, <2>9 DEF BridgeAssign, SetStateAssign, Goto, Thread, Callers
    <3> QED
      BY <3>1, Zenon DEF ClearInv
  <2>10. CASE BridgeOther
    <3>1. UNCHANGED <<lpc, field, k>>
      BY <2>10 DEF BridgeOther, svcVars
    <3>2. ASSUME NEW t \in Thread, SetStateCompare(t) PROVE pc'["ctl"] = "assign"
      BY <1>0, <1>1, <2>1, <3>2
         DEF SetStateCompare, Leave, Return, Goto, Thread, InStop, StopInv, SetStateLabel
    <3>3. pc'["ctl"] = "stopped" => pc["ctl"] = "stopped"
      BY <1>0, <1>1, <2>10, <3>2
         DEF BridgeOther, StartCellularPreferred, Start, StartDetector, StartUpstream,
         StopDetectorClear, StopUpstreamClear, Poll, PollDetect, PollExit, PollCompare,
         PollClear, PollAddAll, OnTetherInterfacesChanged, Callback, OnAvailable, OnLost,
         OnUpstreamChanged, OnCapabilitiesChanged, OnUpstreamLost, EnvInterfaces, Call, Goto,
         Thread
    <3> QED
      BY <1>1, <3>1, <3>3, Zenon DEF ClearInv, At
  <2>11. CASE AddStateListener \/ StopTetherServices \/ BridgeStop \/ BridgeUnregister
    BY <1>1, <2>11, Zenon DEF AddStateListener, StopTetherServices, BridgeStop, StopDetector,
       BridgeUnregister, StopUpstream, InStop, SetStateLabel
  <2>12. CASE ForgetBridge \/ UNCHANGED allVars
    BY <1>1, <2>12, Zenon DEF ForgetBridge, allVars, vars, svcVars, ClearInv, At
  <2> QED
    BY <2>2, <2>5, <2>a, <2>6, <2>7, <2>8, <2>9, <2>10, <2>11, <2>12 DEF SvcNext
<1>2. CASE ~InStop \/ ~quiet
  <2> USE <1>0 DEF InStop, SetStateLabel, Thread, Callers
  <2>1. CASE BridgeStop \/ BridgeUnregister
    BY <2>1, Zenon DEF BridgeStop, StopDetector, BridgeUnregister, StopUpstream, Goto
  <2>2. ASSUME NEW t \in Thread, Proxies(t) PROVE FALSE
    BY <1>2, <2>2, ProxiesKeepBridge, Zenon DEF vars
  <2>3. ASSUME NEW t \in Thread, ListenerReturn(t) PROVE FALSE
    BY <1>2, <2>3 DEF ListenerReturn, SetStateNotify, Leave, Return, Goto, history
  <2>4. ASSUME NEW t \in Thread, BridgeAssign(t) PROVE FALSE
    BY <1>2, <2>4 DEF BridgeAssign, SetStateAssign, Goto
  <2>5. CASE AddStateListener \/ StopTetherServices \/ ForgetBridge \/ UNCHANGED allVars
    BY <1>2, <2>5, Zenon DEF AddStateListener, StopTetherServices, ForgetBridge, allVars, svcVars,
       vars, history
  <2>6. CASE BridgeOther
    <3>1. quiet' = quiet /\ lpc' = lpc
      BY <2>6, Zenon DEF BridgeOther, svcVars, history
    <3>2. ASSUME NEW t \in Thread, SetStateCompare(t) PROVE FALSE
      BY <1>2, <3>1, <3>2 DEF SetStateCompare, Leave, Return, Goto
    <3>3. CASE StopUpstreamClear
      BY <3>1, <3>3 DEF StopUpstreamClear, Call, Goto, ClearInv
    <3>4. CASE \/ StartCellularPreferred \/ Start \/ StartDetector \/ StartUpstream
               \/ StopDetectorClear
      BY <1>2, <3>1, <3>4 DEF StartCellularPreferred, Start, StartDetector, StartUpstream,
         StopDetectorClear, Call, Goto
    <3>5. CASE Poll \/ Callback \/ EnvInterfaces
      BY <1>2, <3>1, <3>5 DEF Poll, PollDetect, PollExit, PollCompare, PollClear, PollAddAll,
         OnTetherInterfacesChanged, Callback, OnAvailable, OnLost, OnUpstreamChanged,
         OnCapabilitiesChanged, OnUpstreamLost, EnvInterfaces, Call, Goto
    <3> QED
      BY <2>6, <3>2, <3>3, <3>4, <3>5 DEF BridgeOther
  <2> QED
    BY <2>1, <2>2, <2>3, <2>4, <2>5, <2>6 DEF SvcNext
<1> QED
  BY <1>1, <1>2

\* The inductive invariant of the tether services.
SvcInv == SvcTypeOK /\ Callers /\ AloneInv /\ UpstreamInv /\ StopInv /\ ClearInv

\* The tether services keep their types, and the five facts above, under every
\* interleaving of the service's, the detector's and the callbacks' thread.
THEOREM ServicesInductive == SvcSpec => []SvcInv
<1>1. SvcInit => SvcInv
  <2> SUFFICES ASSUME SvcInit PROVE SvcInv
    OBVIOUS
  <2>1. SvcTypeOK
    <3>1. 1 \in 1 .. Len(Kinds) /\ "out" \in ListenerLabel
      BY KindFacts DEF ListenerLabel
    <3> QED
      BY <3>1, Zenon DEF SvcInit, SvcTypeOK
  <2>2. Callers
    BY DEF SvcInit, Init, Callers, Thread, SetStateLabel
  <2>3. AloneInv /\ UpstreamInv
    BY DEF SvcInit, Init, AloneInv, AloneIsSafe, AmongProxies, UpstreamInv, Thread
  <2>4. StopInv /\ ClearInv
    BY DEF SvcInit, Init, StopInv, ClearInv, InStop, NoPoll, NoCallback, SetStateLabel, Thread
  <2> QED
    BY <2>1, <2>2, <2>3, <2>4 DEF SvcInv
<1>2. TypeOK /\ ActivationPending /\ SvcInv /\ [SvcNext]_allVars => SvcInv'
  BY SvcTypeStep, CallersStep, AloneStep, UpstreamStep, StopStep, ClearStep DEF SvcInv
<1>3. SvcSpec => [](TypeOK /\ ActivationPending)
  BY ServicesImplementBridge, TypeCorrect, ActivationInductive, PTL
<1> QED
  BY <1>1, <1>2, <1>3, PTL DEF SvcSpec

\* For any number of proxies: a running proxy is lost from its field, or an exception
\* leaves stopTetherServices, only if two threads were in startProxies or stopProxies
\* at the same time.
THEOREM AloneNothingLost == SvcSpec => []AloneIsSafe
<1>1. SvcInv => AloneIsSafe
  BY DEF SvcInv, AloneInv, AloneIsSafe
<1> QED
  BY <1>1, ServicesInductive, PTL

\* A settled bridge is ACTIVE without an upstream only if ACTIVE was assigned after
\* the loss of the upstream had been handled.
THEOREM ActiveWithoutUpstreamIsStale == SvcSpec => []ActiveHasUpstreamUnlessStale
<1>1. SvcInv => ActiveHasUpstreamUnlessStale
  BY DEF SvcInv, UpstreamInv, ActiveHasUpstreamUnlessStale, Settled, PreStop, Losing
<1> QED
  BY <1>1, ServicesInductive, PTL

\* For any number of proxies: a stop that found no handler in flight leaves every
\* proxy field null.
THEOREM QuietStopLeavesNoProxy == SvcSpec => []QuietStopClearsProxies
<1>1. SvcInv => QuietStopClearsProxies
  BY DEF SvcInv, ClearInv, InStop, QuietStopClearsProxies
<1> QED
  BY <1>1, ServicesInductive, PTL
=============================================================================
