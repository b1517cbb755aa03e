---------------------------- MODULE EtharpProofs ----------------------------
(* TLAPS proofs about Etharp, for every table size, queue length, age and    *)
(* set of neighbours.                                                        *)
EXTENDS Etharp, FiniteSetTheorems, SequenceTheorems, WellFoundedInduction, TLAPS

(***************************************************************************)
(* etharp_find_entry returns an entry of the table.                        *)
(***************************************************************************)

LEMMA SomeSmallest ==
    ASSUME NEW S, S \subseteq Nat, S # {}
    PROVE  \E i \in S : \A j \in S : i <= j
<1>1. PICK R : R = OpToRel(<, Nat)
  BY Zenon
<1>2. IsWellFoundedOn(R, Nat)
  BY <1>1, NatLessThanWellFounded, Zenon
<1>3. \A i, j \in Nat : j < i => <<j, i>> \in R
  BY <1>1 DEF OpToRel
<1>4. PICK i \in S : \A j \in S : ~(<<j, i>> \in R)
  BY <1>2, WFMin, Zenon
<1>5. \A j \in S : ~(j < i)
  BY <1>3, <1>4, Zenon
<1>6. \A j \in S : i <= j
  BY <1>5, SMT
<1> QED
  BY <1>6

LEMMA FirstIn ==
    ASSUME NEW S, S \subseteq Index, S # {}
    PROVE  First(S) \in S
<1>1. S \subseteq Nat
  BY SizeAssumption DEF Index
<1>2. \E i \in S : \A j \in S : i <= j
  BY <1>1, SomeSmallest, Zenon
<1> QED
  BY <1>2 DEF First

LEMMA OldestIn ==
    ASSUME NEW t, NEW S, S \subseteq Index, S # {},
           \A i \in S : t[i].ctime \in 0 .. ARP_MAXAGE
    PROVE  Oldest(t, S) \in S
<1> DEFINE T == {ARP_MAXAGE - t[i].ctime : i \in S}
<1>1. T \subseteq Nat /\ T # {}
  BY AgeAssumption
<1>2. PICK b \in T : \A y \in T : b <= y
  <2> HIDE DEF T
  <2> QED
    BY <1>1, SomeSmallest, Zenon
<1>3. PICK i0 \in S : b = ARP_MAXAGE - t[i0].ctime
  BY <1>2
<1>4. \A j \in S : t[j].ctime <= t[i0].ctime
  <2> SUFFICES ASSUME NEW j \in S PROVE t[j].ctime <= t[i0].ctime
    OBVIOUS
  <2>1. ARP_MAXAGE - t[i0].ctime <= ARP_MAXAGE - t[j].ctime
    BY <1>2, <1>3
  <2> QED
    BY <2>1, AgeAssumption
<1> DEFINE O == {i \in S : t[i].ctime = t[i0].ctime}
           U == {ARP_TABLE_SIZE - i : i \in O}
<1>5. U \subseteq Nat /\ U # {}
  BY SizeAssumption DEF Index
<1>6. PICK c \in U : \A y \in U : c <= y
  <2> HIDE DEF U
  <2> QED
    BY <1>5, SomeSmallest
<1>7. PICK i1 \in O : c = ARP_TABLE_SIZE - i1
  BY <1>6
<1>8. \A j \in O : j <= i1
  <2> SUFFICES ASSUME NEW j \in O PROVE j <= i1
    OBVIOUS
  <2>1. ARP_TABLE_SIZE - i1 <= ARP_TABLE_SIZE - j
    BY <1>6, <1>7
  <2> QED
    BY <2>1, SizeAssumption DEF Index
<1>9. \A j \in S : \/ t[j].ctime < t[i1].ctime
                   \/ t[j].ctime = t[i1].ctime /\ j <= i1
  BY <1>4, <1>7, <1>8
<1> QED
  BY <1>7, <1>9 DEF Oldest

(***************************************************************************)
(* The invariant: what is true of each entry that is used, and that no two *)
(* are for the same neighbour.                                             *)
(***************************************************************************)

Good(e, u, h) ==
    /\ e \in Entry /\ e.ctime <= ARP_MAXAGE
    /\ e.q # <<>> => e.state = "PENDING"
    /\ Len(e.q) <= ARP_QUEUE_LEN
    /\ \A k \in 1 .. Len(e.q) : e.q[k].ip = e.ip /\ e.q[k].netif = e.netif
    /\ e.state = "PENDING" => e.netif \in u
    /\ e.state \in Stable =>
           /\ e.eth \in Mac
           /\ e.netif = Watched.netif /\ e.ip = Watched.ip => e.eth = h

Table(t, u, h) ==
    /\ t \in [Index -> Entry \cup {Empty}]
    /\ \A i \in Used(t) : Good(t[i], u, h)
    /\ \A i, j \in Used(t) : t[i].ip = t[j].ip /\ t[i].netif = t[j].netif => i = j

IInv ==
    /\ Table(arp_table, up, heard)
    /\ up \subseteq Netif /\ receiving \subseteq Netif
    /\ handed \in 0 .. MaxPackets
    /\ heard \in Mac \cup {NoMac}

LEMMA UsedIsEntry ==
    ASSUME NEW t, t \in [Index -> Entry \cup {Empty}], NEW i \in Used(t)
    PROVE  i \in Index /\ t[i] \in Entry
BY DEF Used

LEMMA NotEmpty == ASSUME NEW e \in Entry PROVE e # Empty
BY DEF Entry, Empty, Stable

LEMMA Found ==
    ASSUME NEW t, NEW u, NEW h, Table(t, u, h), NEW n \in Netif, NEW a \in Ip
    PROVE  LET i == etharp_find_entry(t, n, a)
           IN i \in Index /\ (i \in Matching(t, n, a) \/ Matching(t, n, a) = {})
<1>1. CASE Matching(t, n, a) # {}
  <2>1. Matching(t, n, a) \subseteq Index
    BY DEF Matching, Used
  <2>2. First(Matching(t, n, a)) \in Matching(t, n, a)
    BY <1>1, <2>1, FirstIn
  <2> QED
    BY <1>1, <2>1, <2>2 DEF etharp_find_entry
<1>2. CASE Matching(t, n, a) = {}
  <2> DEFINE pending == InState(t, {"PENDING"})
             idle == {i \in pending : t[i].q = <<>>}
  <2>1. \A i \in Used(t) : t[i].ctime \in 0 .. ARP_MAXAGE
    BY AgeAssumption DEF Table, Good, Entry
  <2>2. pending \subseteq Used(t) /\ idle \subseteq pending /\ InState(t, Stable) \subseteq Used(t)
    BY DEF InState
  <2>3. Used(t) \subseteq Index
    BY DEF Used
  <2>4. CASE Used(t) # Index
    <3>1. First(Index \ Used(t)) \in Index \ Used(t)
      BY <2>3, <2>4, FirstIn
    <3> QED
      BY <1>2, <2>4, <3>1 DEF etharp_find_entry, Recycled
  <2>5. CASE Used(t) = Index /\ InState(t, Stable) # {}
    <3>1. Oldest(t, InState(t, Stable)) \in InState(t, Stable)
      BY <2>1, <2>2, <2>3, <2>5, OldestIn
    <3> QED
      BY <1>2, <2>2, <2>3, <2>5, <3>1 DEF etharp_find_entry, Recycled
  <2>6. CASE Used(t) = Index /\ InState(t, Stable) = {} /\ idle # {}
    <3>1. \A i \in idle : t[i].ctime \in 0 .. ARP_MAXAGE
      BY <2>1, <2>2
    <3>2. idle \subseteq Index
      BY <2>2, <2>3
    <3>3. Oldest(t, idle) \in idle
      <4> HIDE DEF idle
      <4> QED
        BY <3>1, <3>2, <2>6, OldestIn
    <3>4. Recycled(t) = Oldest(t, idle)
      BY <2>6 DEF Recycled
    <3> QED
      BY <1>2, <3>2, <3>3, <3>4 DEF etharp_find_entry
  <2>7. CASE Used(t) = Index /\ InState(t, Stable) = {} /\ idle = {}
    <3>1. 0 \in Index
      BY SizeAssumption DEF Index
    <3>2. t[0].state \in {"PENDING"} \cup Stable
      BY <3>1, <2>7 DEF Table, Good, Entry
    <3>3. pending # {}
      BY <3>1, <3>2, <2>7 DEF InState
    <3>4. Oldest(t, pending) \in pending
      BY <2>1, <2>2, <2>3, <3>3, OldestIn
    <3>5. Recycled(t) = Oldest(t, pending)
      BY <2>7 DEF Recycled
    <3> QED
      BY <1>2, <2>2, <2>3, <3>4, <3>5 DEF etharp_find_entry
  <2> QED
    BY <2>4, <2>5, <2>6, <2>7
<1> QED
  BY <1>1, <1>2

(***************************************************************************)
(* Ways to change the table.                                               *)
(***************************************************************************)

\* One entry is written, for the neighbour it already had or a new one.  What was
\* heard may have changed, of the neighbour written only.
LEMMA WriteEntry ==
    ASSUME NEW t, NEW u, NEW h, NEW g, Table(t, u, h), NEW i \in Index, NEW e \in Entry,
           Good(e, u, g),
           i \in Matching(t, e.netif, e.ip) \/ Matching(t, e.netif, e.ip) = {},
           g = h \/ (e.netif = Watched.netif /\ e.ip = Watched.ip)
    PROVE  Table([t EXCEPT ![i] = e], u, g)
<1> DEFINE r == [t EXCEPT ![i] = e]
<1>1. r \in [Index -> Entry \cup {Empty}]
  BY DEF Table
<1>2. r[i] = e /\ \A j \in Index : j # i => r[j] = t[j]
  BY DEF Table
<1>3. \A j \in Used(r) : j # i => j \in Used(t) /\ r[j] = t[j]
  BY <1>2 DEF Used
<1>4. \A j \in Used(t) : j # i => ~(t[j].ip = e.ip /\ t[j].netif = e.netif)
  BY DEF Table, Matching
<1> HIDE DEF r
<1>5. ASSUME NEW j \in Used(r) PROVE Good(r[j], u, g)
  <2>1. CASE j = i
    BY <1>2, <2>1
  <2>2. CASE j # i
    <3>1. j \in Used(t) /\ r[j] = t[j] /\ ~(t[j].ip = e.ip /\ t[j].netif = e.netif)
      BY <1>3, <1>4, <2>2
    <3>2. Good(t[j], u, h)
      BY <3>1 DEF Table
    <3> QED
      BY <3>1, <3>2 DEF Good
  <2> QED
    BY <2>1, <2>2
<1>6. ASSUME NEW j \in Used(r), NEW k \in Used(r),
             r[j].ip = r[k].ip, r[j].netif = r[k].netif
      PROVE  j = k
  BY <1>2, <1>3, <1>4, <1>6 DEF Table
<1> QED
  BY <1>1, <1>5, <1>6, Zenon DEF Table, r

\* Entries are freed or age; a freed interface has no entries left.
LEMMA FreeEntries ==
    ASSUME NEW t, NEW u, NEW h, Table(t, u, h), NEW v, NEW S, NEW f,
           \A i \in Index \ S : t[i] = Empty => f[i] = Empty,
           \A i \in Used(t) \ S :
               /\ f[i] \in Entry /\ f[i].netif = t[i].netif /\ f[i].ip = t[i].ip
               /\ Good(t[i], u, h) => Good(f[i], v, h)
    PROVE  Table([i \in Index |-> IF i \in S THEN Empty ELSE f[i]], v, h)
<1> DEFINE r == [i \in Index |-> IF i \in S THEN Empty ELSE f[i]]
<1>1. \A i \in Index : i \in Used(t) \ S \/ r[i] = Empty
  BY DEF Used
<1>2. \A i \in Used(t) \ S : i \in Index /\ r[i] = f[i]
  BY DEF Used
<1>3. r \in [Index -> Entry \cup {Empty}]
  BY <1>1, <1>2
<1>4. \A i \in Used(r) : i \in Used(t) \ S
  BY <1>1 DEF Used
<1> HIDE DEF r
<1>5. \A i \in Used(r) : Good(r[i], v, h) /\ r[i].netif = t[i].netif /\ r[i].ip = t[i].ip
  BY <1>2, <1>4 DEF Table
<1>6. \A i, j \in Used(r) : r[i].ip = r[j].ip /\ r[i].netif = r[j].netif => i = j
  BY <1>4, <1>5 DEF Table
<1> QED
  BY <1>3, <1>5, <1>6 DEF Table, r

\* The queue after a packet has joined it.
LEMMA QueuedOK ==
    ASSUME NEW q \in Seq(Packet), Len(q) <= ARP_QUEUE_LEN, NEW p \in Packet,
           \A k \in 1 .. Len(q) : q[k].ip = p.ip /\ q[k].netif = p.netif
    PROVE  LET r == Queued(q, p)
           IN /\ r \in Seq(Packet) /\ Len(r) <= ARP_QUEUE_LEN
              /\ \A k \in 1 .. Len(r) : r[k].ip = p.ip /\ r[k].netif = p.netif
<1> DEFINE s == Append(q, p)
<1>1. /\ s \in Seq(Packet) /\ s # <<>> /\ Len(s) = Len(q) + 1 /\ Len(q) \in Nat
      /\ \A k \in 1 .. Len(q) : s[k] = q[k]
      /\ s[Len(q) + 1] = p
  BY AppendProperties, LenProperties
<1>2. \A k \in 1 .. Len(s) : s[k].ip = p.ip /\ s[k].netif = p.netif
  BY <1>1
<1> HIDE DEF s
<1>3. CASE Len(q) >= ARP_QUEUE_LEN
  <2>1. Tail(s) \in Seq(Packet) /\ Len(Tail(s)) = Len(s) - 1
    BY <1>1, HeadTailProperties
  <2>2. \A k \in 1 .. Len(Tail(s)) : Tail(s)[k] = s[k + 1]
    BY <1>1, <2>1, HeadTailProperties
  <2>3. Queued(q, p) = Tail(s)
    BY <1>3 DEF Queued, s
  <2>4. \A k \in 1 .. Len(Tail(s)) : k + 1 \in 1 .. Len(s)
    BY <1>1, <2>1
  <2>5. \A k \in 1 .. Len(Tail(s)) : Tail(s)[k].ip = p.ip /\ Tail(s)[k].netif = p.netif
    BY <1>2, <2>2, <2>4
  <2> QED
    BY <1>1, <2>1, <2>3, <2>5, QueueAssumption
<1>4. CASE ~(Len(q) >= ARP_QUEUE_LEN)
  <2>1. Queued(q, p) = s
    BY <1>4 DEF Queued, s
  <2> QED
    BY <1>1, <1>2, <1>4, <2>1, QueueAssumption
<1> QED
  BY <1>3, <1>4

(***************************************************************************)
(* The references: what the table holds is what waits in its queues, each  *)
(* packet in one of them, and every queue is in the order of handing over. *)
(***************************************************************************)

InOrder(q) == \A j, k \in 1 .. Len(q) : j < k => q[j].id < q[k].id

Holds(t, h, c) ==
    /\ \A i \in Index : QueueOf(t, i) \subseteq 1 .. c /\ QueueOf(t, i) \subseteq h
    /\ \A p \in h : \E i \in Index : p \in QueueOf(t, i)
    /\ \A i, j \in Index : i # j => QueueOf(t, i) \cap QueueOf(t, j) = {}
    /\ \A i \in Used(t) : InOrder(t[i].q)

LEMMA HoldsWrite ==
    ASSUME NEW t, t \in [Index -> Entry \cup {Empty}], NEW h, NEW c \in Nat, NEW d \in Nat,
           c <= d, Holds(t, h, c), NEW i \in Index, NEW e \in Entry, InOrder(e.q),
           \A p \in Ids(e.q) : p \in QueueOf(t, i) \/ p \in c + 1 .. d
    PROVE  Holds([t EXCEPT ![i] = e], (h \ QueueOf(t, i)) \cup Ids(e.q), d)
<1> DEFINE r == [t EXCEPT ![i] = e]
           I == Ids(e.q)
<1>1. r[i] = e /\ e # Empty /\ \A j \in Index : j # i => r[j] = t[j]
  BY NotEmpty
<1>2. QueueOf(r, i) = I /\ \A j \in Index : j # i => QueueOf(r, j) = QueueOf(t, j)
  BY <1>1 DEF QueueOf
<1>3. \A j \in Used(r) : InOrder(r[j].q)
  BY <1>1 DEF Holds, Used
<1> HIDE DEF r, I
<1>4. \A p \in I : p \in 1 .. d /\ \A j \in Index : j # i => p \notin QueueOf(t, j)
  BY DEF Holds, I
<1>5. \A j \in Index : QueueOf(t, j) \subseteq 1 .. d
  BY DEF Holds
<1>6. \A j \in Index : QueueOf(r, j) \subseteq 1 .. d
                       /\ QueueOf(r, j) \subseteq (h \ QueueOf(t, i)) \cup I
  BY <1>2, <1>4, <1>5 DEF Holds
<1>7. \A p \in (h \ QueueOf(t, i)) \cup I : \E j \in Index : p \in QueueOf(r, j)
  BY <1>2 DEF Holds
<1>8. \A j, k \in Index : j # k => QueueOf(r, j) \cap QueueOf(r, k) = {}
  BY <1>2, <1>4 DEF Holds
<1> QED
  BY <1>3, <1>6, <1>7, <1>8, Zenon DEF Holds, r, I

LEMMA HoldsFree ==
    ASSUME NEW t, NEW r, NEW h, NEW c, Holds(t, h, c), NEW S, S \subseteq Index,
           \A i \in S : r[i] = Empty,
           \A i \in Index \ S : \/ t[i] = Empty /\ r[i] = Empty
                                \/ t[i] # Empty /\ r[i] # Empty /\ r[i].q = t[i].q
    PROVE  Holds(r, h \ UNION {QueueOf(t, i) : i \in S}, c)
<1>1. /\ \A i \in S : QueueOf(r, i) = {}
      /\ \A i \in Index \ S : QueueOf(r, i) = QueueOf(t, i)
  BY DEF QueueOf
<1>2. \A i \in Used(r) : InOrder(r[i].q)
  BY DEF Holds, Used
<1> DEFINE g == h \ UNION {QueueOf(t, i) : i \in S}
<1>3. \A p : p \in g <=> p \in h /\ \A i \in S : p \notin QueueOf(t, i)
  OBVIOUS
<1> HIDE DEF g
<1>4. \A i \in Index : QueueOf(r, i) \subseteq 1 .. c /\ QueueOf(r, i) \subseteq g
  BY <1>1, <1>3 DEF Holds
<1>5. \A p \in g : \E i \in Index : p \in QueueOf(r, i)
  BY <1>1, <1>3 DEF Holds
<1>6. \A i, j \in Index : i # j => QueueOf(r, i) \cap QueueOf(r, j) = {}
  BY <1>1 DEF Holds
<1> QED
  BY <1>2, <1>4, <1>5, <1>6 DEF Holds, g

\* A packet newer than those of a queue joins it.
LEMMA QueuedInOrder ==
    ASSUME NEW q \in Seq(Packet), NEW p \in Packet, InOrder(q), \A x \in Ids(q) : x < p.id
    PROVE  /\ InOrder(Queued(q, p))
           /\ \A x \in Ids(Queued(q, p)) : x \in Ids(q) \/ x = p.id
<1> DEFINE s == Append(q, p)
<1>1. /\ s \in Seq(Packet) /\ s # <<>> /\ Len(s) = Len(q) + 1 /\ Len(q) \in Nat
      /\ \A k \in 1 .. Len(q) : s[k] = q[k]
      /\ s[Len(q) + 1] = p
  BY AppendProperties, LenProperties
<1>2. \A k \in 1 .. Len(q) : q[k].id < p.id /\ q[k].id \in Ids(q)
  BY DEF Ids
<1> HIDE DEF s
<1>3. \A k \in 1 .. Len(s) : s[k].id \in Ids(q) \/ s[k].id = p.id
  BY <1>1, <1>2
<1>4. InOrder(s)
  BY <1>1, <1>2 DEF InOrder
<1>5. CASE Len(q) >= ARP_QUEUE_LEN
  <2>1. /\ Tail(s) \in Seq(Packet) /\ Len(Tail(s)) = Len(s) - 1
        /\ \A k \in 1 .. Len(Tail(s)) : Tail(s)[k] = s[k + 1]
    BY <1>1, HeadTailProperties
  <2>2. \A k \in 1 .. Len(Tail(s)) : k + 1 \in 1 .. Len(s)
    BY <1>1, <2>1
  <2>3. Queued(q, p) = Tail(s)
    BY <1>5 DEF Queued, s
  <2> DEFINE u == Tail(s)
  <2> HIDE DEF u
  <2>4. InOrder(u)
    <3>1. \A j, k \in 1 .. Len(u) : j < k => s[j + 1].id < s[k + 1].id
      BY <1>1, <1>4, <2>1 DEF InOrder, u
    <3> QED
      BY <2>1, <3>1 DEF InOrder, u
  <2>5. \A x \in Ids(u) : x \in Ids(q) \/ x = p.id
    <3>1. \A k \in 1 .. Len(u) : u[k].id \in Ids(q) \/ u[k].id = p.id
      BY <1>3, <2>1, <2>2 DEF u
    <3>2. \A x \in Ids(u) : \E k \in 1 .. Len(u) : x = u[k].id
      BY DEF Ids
    <3> QED
      BY <3>1, <3>2
  <2> QED
    BY <2>3, <2>4, <2>5 DEF u
<1>6. CASE ~(Len(q) >= ARP_QUEUE_LEN)
  <2>1. Queued(q, p) = s
    BY <1>6 DEF Queued, s
  <2>2. \A x \in Ids(s) : \E k \in 1 .. Len(s) : x = s[k].id
    BY DEF Ids
  <2> QED
    BY <1>3, <1>4, <2>1, <2>2
<1> QED
  BY <1>5, <1>6

(***************************************************************************)
(* Every step keeps the invariant and sends to the latest address.         *)
(***************************************************************************)

SendsToLatest ==
    \A k \in 1 .. Len(out') :
        out'[k].netif = Watched.netif /\ out'[k].ip = Watched.ip
            => out'[k].eth = heard' /\ heard' # NoMac

LEMMA SendsNothing == ASSUME out' = <<>> PROVE SendsToLatest
<1>1. Len(out') = 0
  OBVIOUS
<1> QED
  BY <1>1 DEF SendsToLatest

\* A frame through a stable entry of the table.
LEMMA OutputIndexStep ==
    ASSUME IInv, NEW n \in Netif, NEW p \in Packet, p.netif = n,
           NEW i \in InState(arp_table, Stable) \cap Matching(arp_table, n, p.ip),
           etharp_output_to_arp_index(n, p, i), UNCHANGED <<up, heard>>
    PROVE  Table(arp_table, up, heard)' /\ SendsToLatest
<1> DEFINE e == arp_table[i]
<1>1. i \in Index /\ Good(e, up, heard) /\ e.netif = n /\ e.ip = p.ip /\ e.state \in Stable
  BY DEF IInv, Table, InState, Matching, Used
<1>2. e \in Entry
  BY <1>1 DEF Good
<1>3. Asked(e) \in Entry /\ Good(Asked(e), up, heard)
      /\ Asked(e).netif = n /\ Asked(e).ip = p.ip
  <2>1. CASE Asked(e) = e
    BY <1>1, <1>2, <2>1
  <2>2. CASE Asked(e) = [e EXCEPT !.state = "REREQUESTING_1"]
    <3> DEFINE f == [e EXCEPT !.state = "REREQUESTING_1"]
    <3>1. /\ f \in Entry /\ f.state = "REREQUESTING_1" /\ f.netif = e.netif /\ f.ip = e.ip
          /\ f.eth = e.eth /\ f.ctime = e.ctime /\ f.q = e.q
      BY <1>2 DEF Entry, Stable
    <3>2. e.q = <<>>
      BY <1>1 DEF Good, Stable
    <3> HIDE DEF f
    <3>3. Good(f, up, heard)
      BY <1>1, <3>1, <3>2 DEF Good, Stable
    <3> QED
      BY <1>1, <2>2, <3>1, <3>3 DEF f
  <2> QED
    BY <2>1, <2>2 DEF Asked
<1>4. Table([arp_table EXCEPT ![i] = Asked(e)], up, heard)
  <2>1. i \in Matching(arp_table, n, p.ip)
    OBVIOUS
  <2> QED
    BY <1>1, <1>3, <2>1, WriteEntry DEF IInv
<1>5. Table(arp_table, up, heard)'
  BY <1>4 DEF IInv, etharp_output_to_arp_index
<1>6. SendsToLatest
  <2>1. out' = <<Frame(p, n, e.eth)>>
    BY DEF etharp_output_to_arp_index
  <2>2. e.eth \in Mac /\ (n = Watched.netif /\ p.ip = Watched.ip => e.eth = heard)
    BY <1>1 DEF Good
  <2>3. Len(out') = 1 /\ out'[1].netif = n /\ out'[1].ip = p.ip /\ out'[1].eth = e.eth
    BY <2>1 DEF Frame
  <2> QED
    BY <2>2, <2>3, MacAssumption DEF SendsToLatest
<1> QED
  BY <1>5, <1>6

LEMMA QueryStep ==
    ASSUME IInv, NEW n \in up, NEW p \in Packet, p.netif = n,
           InState(arp_table, Stable) \cap Matching(arp_table, n, p.ip) = {},
           etharp_query(n, p), UNCHANGED <<up, heard>>
    PROVE  Table(arp_table, up, heard)' /\ SendsToLatest
<1>1. n \in Netif /\ p.ip \in Ip
  BY DEF IInv, Packet
<1> DEFINE i == etharp_find_entry(arp_table, n, p.ip)
           new == [state |-> "PENDING", netif |-> n, ip |-> p.ip,
                   eth |-> NoMac, ctime |-> 0, q |-> <<>>]
           e == IF i \in Matching(arp_table, n, p.ip) THEN arp_table[i] ELSE new
           f == [e EXCEPT !.q = Queued(e.q, p)]
<1>2. i \in Index /\ (i \in Matching(arp_table, n, p.ip) \/ Matching(arp_table, n, p.ip) = {})
  BY <1>1, Found DEF IInv
<1>3. out' = <<>> /\ (\/ arp_table' = [arp_table EXCEPT ![i] = f]
                      \/ arp_table' = [arp_table EXCEPT ![i] = e])
  BY DEF etharp_query
<1> HIDE DEF i
<1>4. Good(e, up, heard) /\ e.netif = n /\ e.ip = p.ip /\ e.state = "PENDING"
  <2>1. CASE i \in Matching(arp_table, n, p.ip)
    <3>1. e = arp_table[i] /\ i \in Used(arp_table) /\ e.netif = n /\ e.ip = p.ip
      BY <2>1 DEF Matching
    <3>2. Good(e, up, heard)
      BY <3>1 DEF IInv, Table
    <3>3. e.state \notin Stable
      BY <2>1, <3>1 DEF InState
    <3>4. e.state = "PENDING"
      BY <3>2, <3>3 DEF Good, Entry
    <3> QED
      BY <3>1, <3>2, <3>4
  <2>2. CASE i \notin Matching(arp_table, n, p.ip)
    <3>1. e = new
      BY <2>2
    <3>2. new \in Entry
      BY <1>1 DEF Entry
    <3>3. Len(new.q) = 0
      OBVIOUS
    <3>4. Good(new, up, heard)
      BY <3>2, <3>3, AgeAssumption, QueueAssumption DEF Good, Stable
    <3> QED
      BY <3>1, <3>4
  <2> QED
    BY <2>1, <2>2
<1> HIDE DEF e
<1>5. /\ e \in Entry /\ e.q \in Seq(Packet) /\ Len(e.q) <= ARP_QUEUE_LEN
      /\ \A k \in 1 .. Len(e.q) : e.q[k].ip = p.ip /\ e.q[k].netif = p.netif
  BY <1>4 DEF Good, Entry
<1>6. LET r == Queued(e.q, p)
      IN /\ r \in Seq(Packet) /\ Len(r) <= ARP_QUEUE_LEN
         /\ \A k \in 1 .. Len(r) : r[k].ip = p.ip /\ r[k].netif = p.netif
  BY <1>5, QueuedOK
<1>7. /\ f \in Entry /\ f.state = "PENDING" /\ f.netif = n /\ f.ip = p.ip
      /\ f.ctime = e.ctime /\ f.q = Queued(e.q, p)
  BY <1>4, <1>5, <1>6 DEF Entry
<1> HIDE DEF f
<1>8. Good(f, up, heard)
  BY <1>4, <1>6, <1>7 DEF Good, Stable
<1>9. Table([arp_table EXCEPT ![i] = f], up, heard)
  BY <1>2, <1>7, <1>8, WriteEntry DEF IInv
<1>10. Table([arp_table EXCEPT ![i] = e], up, heard)
  BY <1>2, <1>4, <1>5, WriteEntry, Zenon DEF IInv
<1>11. Table(arp_table, up, heard)'
  BY <1>3, <1>9, <1>10, Zenon
<1> QED
  BY <1>3, <1>11, SendsNothing

LEMMA OutputStep ==
    ASSUME IInv, NEW h \in Neighbour, etharp_output(h.netif, h.ip)
    PROVE  IInv' /\ SendsToLatest
<1> DEFINE n == h.netif
           p == [id |-> handed + 1, netif |-> n, ip |-> h.ip]
           known == InState(arp_table, Stable) \cap Matching(arp_table, n, p.ip)
<1>1. n \in Netif /\ h.ip \in Ip /\ n \in up
  BY NeighbourAssumption DEF etharp_output
<1>2. handed + 1 \in 1 .. MaxPackets
  BY PacketsAssumption DEF IInv, etharp_output
<1>3. p \in Packet /\ p.netif = n
  BY <1>1, <1>2 DEF Packet
<1>4. OutputUnicast(n, p) /\ handed' = handed + 1 /\ UNCHANGED <<up, receiving, heard>>
  BY DEF etharp_output
<1> HIDE DEF p
<1>5. Table(arp_table, up, heard)' /\ SendsToLatest
  <2>1. CASE Hinted(n, p.ip)
    <3>1. addr_hint \in known /\ etharp_output_to_arp_index(n, p, addr_hint)
      BY <1>4, <2>1 DEF OutputUnicast, Hinted
    <3> QED
      BY <1>1, <1>3, <1>4, <3>1, OutputIndexStep
  <2>2. CASE ~Hinted(n, p.ip) /\ known # {}
    <3>1. known \subseteq Index
      BY DEF InState, Used
    <3>2. First(known) \in known
      BY <2>2, <3>1, FirstIn
    <3>3. etharp_output_to_arp_index(n, p, First(known))
      BY <1>4, <2>2 DEF OutputUnicast
    <3> QED
      BY <1>1, <1>3, <1>4, <3>2, <3>3, OutputIndexStep
  <2>3. CASE ~Hinted(n, p.ip) /\ known = {}
    <3>1. etharp_query(n, p)
      BY <1>4, <2>3 DEF OutputUnicast
    <3> QED
      BY <1>1, <1>3, <1>4, <2>3, <3>1, QueryStep
  <2> QED
    BY <2>1, <2>2, <2>3
<1>6. handed' \in 0 .. MaxPackets
  BY <1>2, <1>4
<1> QED
  BY <1>4, <1>5, <1>6 DEF IInv

LEMMA InputStep ==
    ASSUME IInv, NEW h \in Neighbour, NEW m \in Mac, NEW for_us \in BOOLEAN,
           etharp_input(h.netif, h.ip, m, for_us)
    PROVE  IInv' /\ SendsToLatest
<1> DEFINE n == h.netif
           a == h.ip
           i == etharp_find_entry(arp_table, n, a)
           e == [state |-> "STABLE", netif |-> n, ip |-> a, eth |-> m, ctime |-> 0,
                 q |-> <<>>]
           q == IF i \in Matching(arp_table, n, a) THEN arp_table[i].q ELSE <<>>
<1>1. n \in Netif /\ a \in Ip
  BY NeighbourAssumption
<1>2. /\ heard' = IF n = Watched.netif /\ a = Watched.ip THEN m ELSE heard
      /\ UNCHANGED <<up, handed>> /\ receiving' = receiving \ {n}
  BY DEF etharp_input
<1>3. CASE for_us \/ Matching(arp_table, n, a) # {}
  <2>1. /\ arp_table' = [arp_table EXCEPT ![i] = e]
        /\ out' = Sent(q, n, m)
    BY <1>3 DEF etharp_input, Update
  <2>2. i \in Index /\ (i \in Matching(arp_table, n, a) \/ Matching(arp_table, n, a) = {})
    BY <1>1, Found DEF IInv
  <2>3. e \in Entry /\ e.netif = n /\ e.ip = a
    BY <1>1 DEF Entry, Stable
  <2>4. Good(e, up, heard')
    <3>1. Len(e.q) = 0
      OBVIOUS
    <3> QED
      BY <1>2, <2>3, <3>1, AgeAssumption, QueueAssumption DEF Good, Stable
  <2>5. heard' = heard \/ (e.netif = Watched.netif /\ e.ip = Watched.ip)
    BY <1>2
  <2>6. Table(arp_table, up, heard)'
    <3> HIDE DEF i, e
    <3> QED
      BY <1>2, <2>1, <2>2, <2>3, <2>4, <2>5, WriteEntry, Zenon DEF IInv
  <2>7. q \in Seq(Packet) /\ \A k \in 1 .. Len(q) : q[k].ip = a
    <3>1. CASE i \in Matching(arp_table, n, a)
      <4>1. i \in Used(arp_table) /\ q = arp_table[i].q /\ arp_table[i].ip = a
        BY <3>1 DEF Matching
      <4>2. Good(arp_table[i], up, heard)
        BY <4>1 DEF IInv, Table
      <4> QED
        BY <4>1, <4>2 DEF Good, Entry
    <3>2. CASE i \notin Matching(arp_table, n, a)
      <4>1. q = <<>>
        BY <3>2
      <4> HIDE DEF q
      <4>2. q \in Seq(Packet) /\ Len(q) = 0
        BY <4>1
      <4> QED
        BY <4>2
    <3> QED
      BY <3>1, <3>2
  <2> HIDE DEF q
  <2>8. Len(out') = Len(q)
    BY <2>1, <2>7 DEF Sent
  <2>9. \A k \in 1 .. Len(q) : out'[k].netif = n /\ out'[k].ip = a /\ out'[k].eth = m
    BY <2>1, <2>7 DEF Sent, Frame
  <2>10. SendsToLatest
    BY <1>2, <2>8, <2>9, MacAssumption DEF SendsToLatest
  <2> QED
    BY <1>2, <2>6, <2>10 DEF IInv
<1>4. CASE ~for_us /\ Matching(arp_table, n, a) = {}
  <2>1. out' = <<>> /\ UNCHANGED arp_table
    BY <1>4 DEF etharp_input
  <2>2. \A j \in Used(arp_table) : ~(arp_table[j].netif = n /\ arp_table[j].ip = a)
    BY <1>4 DEF Matching
  <2>3. \A j \in Used(arp_table) : Good(arp_table[j], up, heard')
    BY <1>2, <2>2 DEF IInv, Table, Good
  <2>4. Table(arp_table, up, heard)'
    BY <1>2, <2>1, <2>3 DEF IInv, Table
  <2> QED
    BY <1>2, <2>1, <2>4, SendsNothing DEF IInv
<1> QED
  BY <1>3, <1>4

LEMMA TmrStep == ASSUME IInv, etharp_tmr PROVE IInv' /\ SendsToLatest
<1> DEFINE S == {i \in Used(arp_table) : Expired(arp_table[i])}
           f == [i \in Index |-> IF arp_table[i] = Empty THEN Empty ELSE Aged(arp_table[i])]
<1>1. /\ arp_table' = [i \in Index |-> IF i \in S THEN Empty ELSE f[i]]
      /\ out' = <<>> /\ UNCHANGED <<up, receiving, handed, heard>>
  BY DEF etharp_tmr, Without
<1>2. \A i \in Index \ S : arp_table[i] = Empty => f[i] = Empty
  OBVIOUS
<1>3. ASSUME NEW i \in Used(arp_table) \ S
      PROVE  /\ f[i] \in Entry /\ f[i].netif = arp_table[i].netif /\ f[i].ip = arp_table[i].ip
             /\ Good(arp_table[i], up, heard) => Good(f[i], up, heard)
  <2> DEFINE e == arp_table[i]
             g == Aged(e)
  <2>1. f[i] = g /\ ~Expired(e)
    BY DEF Used
  <2>2. e \in Entry /\ Good(e, up, heard)
    BY DEF IInv, Table, Good
  <2>3. e.ctime \in Nat /\ e.ctime + 1 <= ARP_MAXAGE
    BY <2>1, <2>2, AgeAssumption DEF Expired, Entry
  <2> HIDE DEF e
  <2>4. /\ g \in Entry /\ g.netif = e.netif /\ g.ip = e.ip /\ g.eth = e.eth /\ g.q = e.q
        /\ g.ctime = e.ctime + 1
        /\ g.state = "PENDING" <=> e.state = "PENDING"
        /\ g.state \in Stable <=> e.state \in Stable
    <3> DEFINE s == CASE e.state = "REREQUESTING_1" -> "REREQUESTING_2"
                      [] e.state = "REREQUESTING_2" -> "STABLE"
                      [] OTHER -> e.state
    <3>1. e.state \in {"PENDING", "STABLE", "REREQUESTING_1", "REREQUESTING_2"}
      BY <2>2 DEF Entry, Stable
    <3>2. /\ s \in {"PENDING"} \cup Stable
          /\ s = "PENDING" <=> e.state = "PENDING"
          /\ s \in Stable <=> e.state \in Stable
      BY <3>1 DEF Stable
    <3>3. g = [e EXCEPT !.ctime = e.ctime + 1, !.state = s]
      BY DEF Aged
    <3> HIDE DEF s, g
    <3> DEFINE c == e.ctime + 1
    <3>4. c \in Nat
      BY <2>3
    <3> HIDE DEF c
    <3>5. e = [state |-> e.state, netif |-> e.netif, ip |-> e.ip, eth |-> e.eth,
               ctime |-> e.ctime, q |-> e.q]
      BY <2>2 DEF Entry
    <3>6. g = [state |-> s, netif |-> e.netif, ip |-> e.ip, eth |-> e.eth,
               ctime |-> c, q |-> e.q]
      BY <3>3, <3>5, Zenon DEF c
    <3>7. /\ g.netif = e.netif /\ g.ip = e.ip /\ g.eth = e.eth /\ g.q = e.q
          /\ g.ctime = c /\ g.state = s
      BY <3>6
    <3>8. g \in Entry
      BY <2>2, <3>2, <3>4, <3>6 DEF Entry
    <3> QED
      BY <3>2, <3>7, <3>8 DEF c
  <2> HIDE DEF g
  <2>5. Good(g, up, heard)
    BY <2>2, <2>3, <2>4 DEF Good
  <2> QED
    BY <2>1, <2>4, <2>5 DEF e
<1> HIDE DEF S, f
<1>4. Table([i \in Index |-> IF i \in S THEN Empty ELSE f[i]], up, heard)
  BY <1>2, <1>3, FreeEntries DEF IInv
<1> QED
  BY <1>1, <1>4, SendsNothing DEF IInv

LEMMA TeardownStep == ASSUME IInv, NEW n \in Netif, Teardown(n) PROVE IInv' /\ SendsToLatest
<1> DEFINE S == etharp_cleanup_netif(n)
<1>1. /\ arp_table' = [i \in Index |-> IF i \in S THEN Empty ELSE arp_table[i]]
      /\ out' = <<>> /\ up' = up \ {n} /\ UNCHANGED <<receiving, handed, heard>>
  BY DEF Teardown, Without
<1>2. ASSUME NEW i \in Used(arp_table) \ S
      PROVE  arp_table[i] \in Entry /\ Good(arp_table[i], up \ {n}, heard)
  <2>1. arp_table[i].netif # n
    BY DEF etharp_cleanup_netif
  <2>2. Good(arp_table[i], up, heard)
    BY DEF IInv, Table
  <2> QED
    BY <2>1, <2>2 DEF Good
<1> HIDE DEF S
<1>3. Table([i \in Index |-> IF i \in S THEN Empty ELSE arp_table[i]], up \ {n}, heard)
  BY <1>2, FreeEntries DEF IInv
<1> QED
  BY <1>1, <1>3, SendsNothing DEF IInv

LEMMA SetupStep == ASSUME IInv, NEW n \in Netif, Setup(n) PROVE IInv' /\ SendsToLatest
<1>1. out' = <<>> /\ up' = up \cup {n} /\ UNCHANGED <<arp_table, receiving, handed, heard>>
  BY DEF Setup
<1>2. \A i \in Used(arp_table) : Good(arp_table[i], up \cup {n}, heard)
  BY DEF IInv, Table, Good
<1>3. Table(arp_table, up \cup {n}, heard)
  BY <1>2, Zenon DEF IInv, Table
<1> QED
  BY <1>1, <1>3, SendsNothing DEF IInv

LEMMA ReceiveStep == ASSUME IInv, NEW n \in Netif, Receive(n) PROVE IInv' /\ SendsToLatest
<1>1. out' = <<>> /\ receiving' = receiving \cup {n} /\ UNCHANGED <<arp_table, up, handed, heard>>
  BY DEF Receive
<1> QED
  BY <1>1, SendsNothing DEF IInv

LEMMA StepOK == ASSUME IInv, Next PROVE IInv' /\ SendsToLatest
BY OutputStep, InputStep, TmrStep, TeardownStep, SetupStep, ReceiveStep DEF Next

LEMMA InitOK == Init => IInv
<1> SUFFICES ASSUME Init PROVE IInv
  OBVIOUS
<1>1. Used(arp_table) = {}
  BY DEF Init, Used
<1>2. arp_table \in [Index -> Entry \cup {Empty}]
  BY DEF Init
<1>3. Table(arp_table, up, heard)
  BY <1>1, <1>2 DEF Table
<1> QED
  BY <1>3, PacketsAssumption DEF Init, IInv

\* The inductive invariant: every entry in use is of its shape, holds packets only
\* while pending, belongs to an interface that is set up while pending, has the
\* latest address once stable, and is the only one of its neighbour.
THEOREM Invariant == Spec => []IInv
<1>1. IInv /\ UNCHANGED vars => IInv'
  BY DEF IInv, Table, vars
<1>2. IInv /\ [Next]_vars => IInv'
  BY <1>1, StepOK
<1> QED
  BY <1>2, InitOK, PTL DEF Spec

\* The table never has two entries for one neighbour, however lookups, ARP messages,
\* expiry, recycling and interfaces coming and going interleave.
THEOREM EntriesUnique == Spec => []OneEntry
<1>1. IInv => OneEntry
  BY DEF IInv, Table, OneEntry
<1> QED
  BY <1>1, Invariant, PTL

\* Packets wait only on pending entries, at most ARP_QUEUE_LEN on each, and only on
\* the entry of their own next hop (etharp_query, etharp_update_arp_entry).
THEOREM QueuesAreSane == Spec => []QueuesSane
<1>1. IInv => QueuesSane
  BY DEF IInv, Table, Good, QueuesSane
<1> QED
  BY <1>1, Invariant, PTL

\* etharp_tmr never asks through an interface that was removed.
THEOREM TimerUsesLiveNetif == Spec => []PendingNetifUp
<1>1. IInv => PendingNetifUp
  BY DEF IInv, Table, Good, PendingNetifUp, InState
<1> QED
  BY <1>1, Invariant, PTL

\* A stable entry has the address its neighbour announced last.
THEOREM EntriesLatest == Spec => []StableIsLatest
<1>1. IInv => StableIsLatest
  BY DEF IInv, Table, Good, StableIsLatest, InState
<1> QED
  BY <1>1, Invariant, PTL

\* Every frame goes to the address its next hop announced last, whether it was
\* found through a pcb's hint, by the search of the table or had to wait.
THEOREM FramesSentToLatest == Spec => SentToLatest
<1>1. IInv /\ [Next]_vars => [SendsToLatest]_vars
  BY StepOK
<1> QED
  BY <1>1, Invariant, PTL DEF Spec, SentToLatest, SendsToLatest

(***************************************************************************)
(* Every step keeps the references and sends in order.                     *)
(***************************************************************************)

HeldInv == Holds(arp_table, held, handed)

\* A frame is sent after every earlier one of its next hop, and only once the next
\* hop has a stable entry, on which nothing waits.
SendsInOrder ==
    \A k \in 1 .. Len(out') :
        /\ \A j \in 1 .. k - 1 : out'[j].id < out'[k].id
        /\ \E i \in InState(arp_table', Stable) :
               arp_table'[i].netif = out'[k].netif /\ arp_table'[i].ip = out'[k].ip

LEMMA NothingSent == ASSUME out' = <<>> PROVE SendsInOrder
<1>1. Len(out') = 0
  OBVIOUS
<1> QED
  BY <1>1 DEF SendsInOrder

LEMMA HeldByEntry ==
    ASSUME IInv, HeldInv, NEW i \in Used(arp_table)
    PROVE  /\ i \in Index /\ arp_table[i] \in Entry /\ arp_table[i].q \in Seq(Packet)
           /\ QueueOf(arp_table, i) = Ids(arp_table[i].q)
           /\ \A x \in Ids(arp_table[i].q) : x \in 1 .. handed
           /\ InOrder(arp_table[i].q) /\ Ids(arp_table[i].q) \subseteq held
<1>1. i \in Index /\ arp_table[i] # Empty /\ arp_table[i] \in Entry
  BY UsedIsEntry DEF IInv, Table, Used
<1>2. QueueOf(arp_table, i) = Ids(arp_table[i].q) /\ arp_table[i].q \in Seq(Packet)
  BY <1>1 DEF QueueOf, Entry
<1> QED
  BY <1>1, <1>2 DEF HeldInv, Holds

LEMMA EmptyQueue == Ids(<<>>) = {} /\ InOrder(<<>>)
<1>1. Len(<<>>) = 0
  OBVIOUS
<1> QED
  BY <1>1 DEF Ids, InOrder

\* One entry is written, and the references of its old queue are given up for those
\* of its new one.
LEMMA WriteHeld ==
    ASSUME IInv, HeldInv, handed' \in Nat, handed <= handed', NEW i \in Index, NEW e \in Entry,
           InOrder(e.q),
           \A p \in Ids(e.q) : p \in QueueOf(arp_table, i) \/ p \in handed + 1 .. handed',
           arp_table' = [arp_table EXCEPT ![i] = e],
           held' = (held \ QueueOf(arp_table, i)) \cup Ids(e.q)
    PROVE  HeldInv'
<1>1. arp_table \in [Index -> Entry \cup {Empty}] /\ handed \in Nat
  BY PacketsAssumption DEF IInv, Table
<1>2. Holds([arp_table EXCEPT ![i] = e], (held \ QueueOf(arp_table, i)) \cup Ids(e.q), handed')
  BY <1>1, HoldsWrite, Zenon DEF HeldInv
<1> QED
  BY <1>2 DEF HeldInv

\* What waits still waits when more has been handed over.
LEMMA KeepHeld ==
    ASSUME IInv, HeldInv, handed' \in Nat, handed <= handed', UNCHANGED <<arp_table, held>>
    PROVE  HeldInv'
<1>1. handed \in Nat
  BY PacketsAssumption DEF IInv
<1>2. \A i \in Index : QueueOf(arp_table, i) \subseteq 1 .. handed'
  BY <1>1 DEF HeldInv, Holds
<1>3. Holds(arp_table, held, handed')
  BY <1>2 DEF HeldInv, Holds
<1> QED
  BY <1>3 DEF HeldInv

LEMMA OutputIndexHeld ==
    ASSUME IInv, HeldInv, NEW n \in Netif, NEW p \in Packet, p.netif = n,
           NEW i \in InState(arp_table, Stable) \cap Matching(arp_table, n, p.ip),
           etharp_output_to_arp_index(n, p, i), handed' \in Nat, handed <= handed'
    PROVE  HeldInv' /\ SendsInOrder
<1> DEFINE e == arp_table[i]
<1>1. i \in Used(arp_table) /\ e.netif = n /\ e.ip = p.ip /\ e.state \in Stable
  BY DEF InState, Matching
<1>2. /\ i \in Index /\ e \in Entry /\ QueueOf(arp_table, i) = Ids(e.q)
      /\ InOrder(e.q) /\ Ids(e.q) \subseteq held
  BY <1>1, HeldByEntry
<1>3. /\ Asked(e) \in Entry /\ Asked(e).q = e.q /\ Asked(e).state \in Stable
      /\ Asked(e).netif = n /\ Asked(e).ip = p.ip
  BY <1>1, <1>2 DEF Asked, Entry, Stable
<1>4. held' = held /\ out' = <<Frame(p, n, e.eth)>>
      /\ (arp_table' = [arp_table EXCEPT ![i] = Asked(e)] \/ arp_table' = arp_table)
  BY DEF etharp_output_to_arp_index
<1>5. arp_table \in [Index -> Entry \cup {Empty}]
  BY DEF IInv, Table
<1>6. HeldInv'
  <2>1. CASE arp_table' = [arp_table EXCEPT ![i] = Asked(e)]
    <3>1. held' = (held \ QueueOf(arp_table, i)) \cup Ids(Asked(e).q)
      BY <1>2, <1>3, <1>4
    <3>2. InOrder(Asked(e).q) /\ \A x \in Ids(Asked(e).q) : x \in QueueOf(arp_table, i)
      BY <1>2, <1>3
    <3> HIDE DEF e
    <3> QED
      BY <1>2, <1>3, <2>1, <3>1, <3>2, WriteHeld, Zenon
  <2>2. CASE arp_table' = arp_table
    BY <1>4, <2>2, KeepHeld
  <2> QED
    BY <1>4, <2>1, <2>2
<1>7. i \in InState(arp_table', Stable) /\ arp_table'[i].netif = n /\ arp_table'[i].ip = p.ip
  <2>1. arp_table'[i] \in {e, Asked(e)}
    BY <1>2, <1>4, <1>5
  <2>2. arp_table'[i] # Empty
    BY <1>2, <1>3, <2>1, NotEmpty
  <2> HIDE DEF e
  <2> QED
    BY <1>1, <1>2, <1>3, <2>1, <2>2 DEF InState, Used, e
<1>8. Len(out') = 1 /\ out'[1].netif = n /\ out'[1].ip = p.ip
  BY <1>4 DEF Frame
<1> QED
  BY <1>6, <1>7, <1>8 DEF SendsInOrder

LEMMA QueryHeld ==
    ASSUME IInv, HeldInv, NEW n \in Netif, NEW p \in Packet, p.netif = n,
           etharp_query(n, p), p.id = handed + 1, handed' = handed + 1
    PROVE  HeldInv' /\ SendsInOrder
<1> DEFINE i == etharp_find_entry(arp_table, n, p.ip)
           new == [state |-> "PENDING", netif |-> n, ip |-> p.ip,
                   eth |-> NoMac, ctime |-> 0, q |-> <<>>]
           e == IF i \in Matching(arp_table, n, p.ip) THEN arp_table[i] ELSE new
           f == [e EXCEPT !.q = Queued(e.q, p)]
           rest == held \ FreedBy(arp_table, n, p.ip, i)
<1>1. i \in Index /\ p.ip \in Ip /\ handed \in Nat
  <2>1. p.ip \in Ip /\ handed \in Nat
    BY PacketsAssumption DEF IInv, Packet
  <2> QED
    BY <2>1, Found DEF IInv
<1>2. /\ out' = <<>>
      /\ \/ /\ arp_table' = [arp_table EXCEPT ![i] = f]
            /\ held' = (rest \ Ids(e.q)) \cup Ids(Queued(e.q, p))
         \/ arp_table' = [arp_table EXCEPT ![i] = e] /\ held' = rest
  BY DEF etharp_query
<1> HIDE DEF i
<1>3. /\ e \in Entry /\ InOrder(e.q) /\ \A x \in Ids(e.q) : x \in QueueOf(arp_table, i)
      /\ \A x \in Ids(e.q) : x < p.id
      /\ rest = (held \ QueueOf(arp_table, i)) \cup Ids(e.q)
      /\ rest \ Ids(e.q) = held \ QueueOf(arp_table, i)
  <2>1. CASE i \in Matching(arp_table, n, p.ip)
    <3>1. e = arp_table[i] /\ i \in Used(arp_table) /\ rest = held
      BY <2>1, Zenon DEF Matching, FreedBy
    <3>2. /\ e \in Entry /\ QueueOf(arp_table, i) = Ids(e.q) /\ Ids(e.q) \subseteq held
          /\ \A x \in Ids(e.q) : x \in 1 .. handed
          /\ InOrder(e.q)
      BY <3>1, HeldByEntry
    <3>3. \A x \in Ids(e.q) : x < p.id
      BY <1>1, <3>2
    <3> HIDE DEF e, rest, i
    <3>4. rest = (held \ QueueOf(arp_table, i)) \cup Ids(e.q)
          /\ rest \ Ids(e.q) = held \ QueueOf(arp_table, i)
      BY <3>1, <3>2, Zenon
    <3> QED
      BY <3>2, <3>3, <3>4, Zenon
  <2>2. CASE i \notin Matching(arp_table, n, p.ip)
    <3>1. e = new /\ rest = held \ QueueOf(arp_table, i)
      BY <2>2 DEF FreedBy
    <3>2. new \in Entry /\ new.q = <<>>
      BY <1>1 DEF Entry
    <3> HIDE DEF e, rest, new
    <3> QED
      BY <3>1, <3>2, EmptyQueue
  <2> QED
    BY <2>1, <2>2, Zenon
<1> HIDE DEF e, rest
<1>4. e.q \in Seq(Packet)
  BY <1>3 DEF Entry
<1>5. /\ InOrder(Queued(e.q, p)) /\ Queued(e.q, p) \in Seq(Packet)
      /\ \A x \in Ids(Queued(e.q, p)) : x \in Ids(e.q) \/ x = p.id
  <2>1. Append(e.q, p) \in Seq(Packet) /\ Append(e.q, p) # <<>>
    BY <1>4, AppendProperties
  <2>2. Queued(e.q, p) \in Seq(Packet)
    BY <1>4, <2>1, HeadTailProperties DEF Queued
  <2> QED
    BY <1>3, <1>4, <2>2, QueuedInOrder
<1>6. f \in Entry /\ f.q = Queued(e.q, p)
  BY <1>3, <1>5 DEF Entry
<1> HIDE DEF f
<1>7. CASE arp_table' = [arp_table EXCEPT ![i] = f]
           /\ held' = (rest \ Ids(e.q)) \cup Ids(Queued(e.q, p))
  <2>1. \A x \in Ids(f.q) : x \in QueueOf(arp_table, i) \/ x \in handed + 1 .. handed'
    BY <1>1, <1>3, <1>5, <1>6
  <2>2. held' = (held \ QueueOf(arp_table, i)) \cup Ids(f.q)
    BY <1>3, <1>6, <1>7
  <2>3. handed' \in Nat /\ handed <= handed' /\ InOrder(f.q)
    BY <1>1, <1>5, <1>6
  <2> QED
    BY <1>1, <1>2, <1>6, <1>7, <2>1, <2>2, <2>3, WriteHeld, NothingSent, Zenon
<1>8. CASE arp_table' = [arp_table EXCEPT ![i] = e] /\ held' = rest
  <2>1. handed' \in Nat /\ handed <= handed'
    BY <1>1
  <2> QED
    BY <1>1, <1>2, <1>3, <1>8, <2>1, WriteHeld, NothingSent, Zenon
<1> QED
  BY <1>2, <1>7, <1>8

LEMMA OutputHeld ==
    ASSUME IInv, HeldInv, NEW h \in Neighbour, etharp_output(h.netif, h.ip)
    PROVE  HeldInv' /\ SendsInOrder
<1> DEFINE n == h.netif
           p == [id |-> handed + 1, netif |-> n, ip |-> h.ip]
           known == InState(arp_table, Stable) \cap Matching(arp_table, n, p.ip)
<1>1. n \in Netif /\ h.ip \in Ip /\ handed \in Nat /\ handed + 1 \in 1 .. MaxPackets
  BY NeighbourAssumption, PacketsAssumption DEF IInv, etharp_output
<1>2. p \in Packet /\ p.netif = n /\ p.id = handed + 1
  BY <1>1 DEF Packet
<1>3. OutputUnicast(n, p) /\ handed' = handed + 1
  BY DEF etharp_output
<1>4. handed' \in Nat /\ handed <= handed'
  BY <1>1, <1>3
<1> HIDE DEF p
<1>5. CASE Hinted(n, p.ip)
  <2>1. addr_hint \in known /\ etharp_output_to_arp_index(n, p, addr_hint)
    BY <1>3, <1>5 DEF OutputUnicast, Hinted
  <2> QED
    BY <1>1, <1>2, <1>4, <2>1, OutputIndexHeld
<1>6. CASE ~Hinted(n, p.ip) /\ known # {}
  <2>1. known \subseteq Index
    BY DEF InState, Used
  <2>2. First(known) \in known
    BY <1>6, <2>1, FirstIn
  <2>3. etharp_output_to_arp_index(n, p, First(known))
    BY <1>3, <1>6 DEF OutputUnicast
  <2> QED
    BY <1>1, <1>2, <1>4, <2>2, <2>3, OutputIndexHeld
<1>7. CASE ~Hinted(n, p.ip) /\ known = {}
  <2>1. etharp_query(n, p)
    BY <1>3, <1>7 DEF OutputUnicast
  <2> QED
    BY <1>1, <1>2, <1>3, <2>1, QueryHeld
<1> QED
  BY <1>5, <1>6, <1>7

LEMMA InputHeld ==
    ASSUME IInv, HeldInv, NEW h \in Neighbour, NEW m \in Mac, NEW for_us \in BOOLEAN,
           etharp_input(h.netif, h.ip, m, for_us)
    PROVE  HeldInv' /\ SendsInOrder
<1> DEFINE n == h.netif
           a == h.ip
           i == etharp_find_entry(arp_table, n, a)
           e == [state |-> "STABLE", netif |-> n, ip |-> a, eth |-> m, ctime |-> 0,
                 q |-> <<>>]
           q == IF i \in Matching(arp_table, n, a) THEN arp_table[i].q ELSE <<>>
<1>1. n \in Netif /\ a \in Ip /\ handed' = handed /\ handed \in Nat
  BY NeighbourAssumption, PacketsAssumption DEF IInv, etharp_input
<1>2. CASE for_us \/ Matching(arp_table, n, a) # {}
  <2>1. /\ arp_table' = [arp_table EXCEPT ![i] = e]
        /\ held' = held \ (Ids(q) \cup FreedBy(arp_table, n, a, i))
        /\ out' = Sent(q, n, m)
    BY <1>2 DEF etharp_input, Update
  <2>2. i \in Index
    BY <1>1, Found DEF IInv
  <2>3. e \in Entry /\ e.q = <<>> /\ e.state \in Stable /\ e.netif = n /\ e.ip = a
    BY <1>1 DEF Entry, Stable
  <2>4. /\ q \in Seq(Packet) /\ InOrder(q)
        /\ Ids(q) \cup FreedBy(arp_table, n, a, i) = QueueOf(arp_table, i)
        /\ \A k \in 1 .. Len(q) : q[k].ip = a
    <3>1. CASE i \in Matching(arp_table, n, a)
      <4>1. /\ i \in Used(arp_table) /\ q = arp_table[i].q /\ arp_table[i].ip = a
            /\ FreedBy(arp_table, n, a, i) = {}
        BY <3>1 DEF Matching, FreedBy
      <4>2. /\ arp_table[i].q \in Seq(Packet) /\ InOrder(arp_table[i].q)
            /\ QueueOf(arp_table, i) = Ids(arp_table[i].q)
        BY <4>1, HeldByEntry
      <4>3. Good(arp_table[i], up, heard)
        BY <4>1 DEF IInv, Table
      <4> HIDE DEF q, i
      <4> QED
        BY <4>1, <4>2, <4>3 DEF Good
    <3>2. CASE i \notin Matching(arp_table, n, a)
      <4>1. q = <<>> /\ FreedBy(arp_table, n, a, i) = QueueOf(arp_table, i)
        BY <3>2 DEF FreedBy
      <4> HIDE DEF q, i
      <4>2. q \in Seq(Packet) /\ Len(q) = 0
        BY <4>1
      <4> QED
        BY <4>1, <4>2, EmptyQueue
    <3> QED
      BY <3>1, <3>2, Zenon
  <2> HIDE DEF q, e, i
  <2>5. HeldInv'
    <3>1. held' = (held \ QueueOf(arp_table, i)) \cup Ids(e.q)
      BY <2>1, <2>3, <2>4, EmptyQueue
    <3>2. InOrder(e.q) /\ \A x \in Ids(e.q) : x \in QueueOf(arp_table, i)
      BY <2>3, EmptyQueue
    <3>3. handed' \in Nat /\ handed <= handed'
      BY <1>1
    <3> QED
      BY <2>1, <2>2, <2>3, <3>1, <3>2, <3>3, WriteHeld, Zenon
  <2>6. i \in InState(arp_table', Stable) /\ arp_table'[i].netif = n /\ arp_table'[i].ip = a
    <3>1. arp_table'[i] = e
      BY <2>1, <2>2 DEF IInv, Table
    <3>2. e # Empty
      BY <2>3, NotEmpty
    <3> QED
      BY <2>2, <2>3, <3>1, <3>2 DEF InState, Used
  <2>7. Len(out') = Len(q) /\ Len(q) \in Nat
    BY <2>1, <2>4 DEF Sent
  <2>8. \A k \in 1 .. Len(q) : out'[k].netif = n /\ out'[k].ip = a /\ out'[k].id = q[k].id
    BY <2>1, <2>4 DEF Sent, Frame
  <2>9. \A k \in 1 .. Len(q) : \A j \in 1 .. k - 1 : out'[j].id < out'[k].id
    BY <2>4, <2>7, <2>8 DEF InOrder
  <2> QED
    BY <2>5, <2>6, <2>7, <2>8, <2>9 DEF SendsInOrder
<1>3. CASE ~for_us /\ Matching(arp_table, n, a) = {}
  <2>1. out' = <<>> /\ UNCHANGED <<arp_table, held>>
    BY <1>3 DEF etharp_input
  <2>2. handed' \in Nat /\ handed <= handed'
    BY <1>1
  <2> QED
    BY <2>1, <2>2, KeepHeld, NothingSent
<1> QED
  BY <1>2, <1>3

LEMMA TmrHeld == ASSUME IInv, HeldInv, etharp_tmr PROVE HeldInv' /\ SendsInOrder
<1> DEFINE S == {i \in Used(arp_table) : Expired(arp_table[i])}
           f == [i \in Index |-> IF arp_table[i] = Empty THEN Empty ELSE Aged(arp_table[i])]
           r == [i \in Index |-> IF i \in S THEN Empty ELSE f[i]]
<1>1. /\ arp_table' = r /\ held' = held \ UNION {QueueOf(arp_table, i) : i \in S}
      /\ out' = <<>> /\ handed' = handed
  BY DEF etharp_tmr, Without
<1>2. S \subseteq Index /\ \A i \in S : r[i] = Empty
  BY DEF Used
<1>3. ASSUME NEW i \in Index \ S
      PROVE  \/ arp_table[i] = Empty /\ r[i] = Empty
             \/ arp_table[i] # Empty /\ r[i] # Empty /\ r[i].q = arp_table[i].q
  <2>1. CASE arp_table[i] = Empty
    BY <2>1
  <2>2. CASE arp_table[i] # Empty
    <3> DEFINE e == arp_table[i]
               s == CASE e.state = "REREQUESTING_1" -> "REREQUESTING_2"
                      [] e.state = "REREQUESTING_2" -> "STABLE"
                      [] OTHER -> e.state
    <3>1. e \in Entry /\ e.state \in {"PENDING", "STABLE", "REREQUESTING_1", "REREQUESTING_2"}
      BY <2>2 DEF IInv, Table, Entry, Stable
    <3>2. r[i] = [e EXCEPT !.ctime = e.ctime + 1, !.state = s]
      BY <2>2 DEF Aged
    <3>3. s # "EMPTY"
      BY <3>1
    <3> HIDE DEF s, r
    <3>4. r[i].q = e.q /\ r[i].state = s
      BY <3>1, <3>2 DEF Entry
    <3> QED
      BY <2>2, <3>3, <3>4 DEF Empty
  <2> QED
    BY <2>1, <2>2
<1> HIDE DEF S, r
<1>4. Holds(r, held \ UNION {QueueOf(arp_table, i) : i \in S}, handed)
  BY <1>2, <1>3, HoldsFree DEF HeldInv
<1> QED
  BY <1>1, <1>4, NothingSent DEF HeldInv

LEMMA TeardownHeld ==
    ASSUME IInv, HeldInv, NEW n \in Netif, Teardown(n) PROVE HeldInv' /\ SendsInOrder
<1> DEFINE S == etharp_cleanup_netif(n)
           r == [i \in Index |-> IF i \in S THEN Empty ELSE arp_table[i]]
<1>1. /\ arp_table' = r /\ held' = held \ UNION {QueueOf(arp_table, i) : i \in S}
      /\ out' = <<>> /\ handed' = handed
  BY DEF Teardown, Without
<1>2. /\ S \subseteq Index /\ \A i \in S : r[i] = Empty
      /\ \A i \in Index \ S : r[i] = arp_table[i]
  BY DEF Used, etharp_cleanup_netif
<1> HIDE DEF S, r
<1>3. Holds(r, held \ UNION {QueueOf(arp_table, i) : i \in S}, handed)
  BY <1>2, HoldsFree DEF HeldInv
<1> QED
  BY <1>1, <1>3, NothingSent DEF HeldInv

LEMMA HeldStep == ASSUME IInv, HeldInv, Next PROVE HeldInv' /\ SendsInOrder
<1>1. ASSUME NEW n \in Netif, Setup(n) \/ Receive(n) PROVE HeldInv' /\ SendsInOrder
  BY <1>1, NothingSent DEF Setup, Receive, HeldInv
<1> QED
  BY <1>1, OutputHeld, InputHeld, TmrHeld, TeardownHeld DEF Next

LEMMA HeldInit == Init => HeldInv
<1> SUFFICES ASSUME Init PROVE HeldInv
  OBVIOUS
<1>1. Used(arp_table) = {} /\ \A i \in Index : QueueOf(arp_table, i) = {}
  BY DEF Init, Used, QueueOf
<1> QED
  BY <1>1 DEF Init, HeldInv, Holds

\* The second inductive invariant: the table's references are exactly the packets in
\* its queues, no packet waits twice, and every queue is in the order of handing over.
THEOREM HeldInvariant == Spec => []HeldInv
<1>1. HeldInv /\ UNCHANGED vars => HeldInv'
  BY DEF HeldInv, vars
<1>2. IInv /\ HeldInv /\ [Next]_vars => HeldInv'
  BY <1>1, HeldStep
<1> QED
  BY <1>2, HeldInit, Invariant, PTL DEF Spec

\* Packet p waits as the k-th packet of entry i, and nowhere else.
OnlyPlace(i, k, p) ==
    /\ i \in Used(arp_table)
    /\ k \in 1 .. ARP_QUEUE_LEN /\ k <= Len(arp_table[i].q)
    /\ arp_table[i].q[k].id = p
    /\ \A j \in Index : p \in QueueOf(arp_table, j) => j = i
    /\ \A l \in 1 .. Len(arp_table[i].q) : arp_table[i].q[l].id = p => l = k

LEMMA WaitsOnce ==
    ASSUME IInv, HeldInv, NEW p \in held
    PROVE  \E i, k : OnlyPlace(i, k, p)
<1>1. PICK i \in Index : p \in QueueOf(arp_table, i)
  BY DEF HeldInv, Holds
<1>2. i \in Used(arp_table) /\ p \in Ids(arp_table[i].q)
  BY <1>1 DEF QueueOf, Used
<1> DEFINE q == arp_table[i].q
<1>3. q \in Seq(Packet) /\ InOrder(q) /\ p \in 1 .. handed
  BY <1>2, HeldByEntry
<1>4. Good(arp_table[i], up, heard)
  BY <1>2 DEF IInv, Table
<1>5. Len(q) \in Nat /\ Len(q) <= ARP_QUEUE_LEN
  BY <1>3, <1>4, LenProperties DEF Good
<1>6. \A j \in Index : p \in QueueOf(arp_table, j) => j = i
  BY <1>1 DEF HeldInv, Holds
<1>7. PICK k \in 1 .. Len(q) : q[k].id = p
  BY <1>2 DEF Ids
<1> HIDE DEF q
<1>8. k \in 1 .. ARP_QUEUE_LEN /\ k <= Len(q)
  BY <1>5, QueueAssumption
<1>9. \A l \in 1 .. Len(q) : q[l].id = p => l = k
  BY <1>3, <1>5, <1>7 DEF InOrder
<1> QED
  BY <1>2, <1>6, <1>7, <1>8, <1>9 DEF OnlyPlace, q

LEMMA OnePlace ==
    ASSUME IInv, HeldInv, NEW p \in 1 .. MaxPackets,
           NEW P, P = {c \in Used(arp_table) \X (1 .. ARP_QUEUE_LEN) :
                           LET q == arp_table[c[1]].q IN c[2] <= Len(q) /\ q[c[2]].id = p}
    PROVE  Cardinality(P) = IF p \in held THEN 1 ELSE 0
<1>1. \A c \in P : /\ c[1] \in Used(arp_table) /\ c = <<c[1], c[2]>>
                   /\ c[2] \in 1 .. Len(arp_table[c[1]].q) /\ arp_table[c[1]].q[c[2]].id = p
  <2> SUFFICES ASSUME NEW c \in P
               PROVE  /\ c[1] \in Used(arp_table) /\ c = <<c[1], c[2]>>
                      /\ c[2] \in 1 .. Len(arp_table[c[1]].q) /\ arp_table[c[1]].q[c[2]].id = p
    OBVIOUS
  <2>1. c[1] \in Used(arp_table) /\ c[2] \in 1 .. ARP_QUEUE_LEN /\ c = <<c[1], c[2]>>
        /\ c[2] <= Len(arp_table[c[1]].q) /\ arp_table[c[1]].q[c[2]].id = p
    OBVIOUS
  <2>2. Len(arp_table[c[1]].q) \in Nat
    BY <2>1, HeldByEntry, LenProperties
  <2> QED
    BY <2>1, <2>2, QueueAssumption
<1>2. \A c \in P : c[1] \in Index /\ p \in QueueOf(arp_table, c[1])
  BY <1>1, HeldByEntry DEF Ids
<1>3. CASE p \notin held
  <2>1. P = {}
    BY <1>2, <1>3 DEF HeldInv, Holds
  <2> QED
    BY <1>3, <2>1, FS_EmptySet, Zenon
<1>4. CASE p \in held
  <2>1. PICK i, k : OnlyPlace(i, k, p)
    BY <1>4, WaitsOnce
  <2>2. <<i, k>> \in P
    BY <2>1 DEF OnlyPlace
  <2>3. \A c \in P : c = <<i, k>>
    BY <1>1, <1>2, <2>1 DEF OnlyPlace
  <2>4. P = {<<i, k>>}
    BY <2>2, <2>3, Zenon
  <2> QED
    BY <1>4, <2>4, FS_Singleton, Zenon
<1> QED
  BY <1>3, <1>4

\* The table holds a reference to exactly the packets in its queues, each in one
\* place: expiry, recycling, a full queue, an answer and a removed interface neither
\* leak a packet nor free one twice (free_etharp_q, etharp_free_entry).
THEOREM ReferencesAreQueued == Spec => []ReferencesQueued
<1>1. IInv /\ HeldInv => ReferencesQueued
  BY OnePlace DEF ReferencesQueued
<1> QED
  BY <1>1, Invariant, HeldInvariant, PTL

OrderKept ==
    \A k \in 1 .. Len(out') :
        /\ \A j \in 1 .. k - 1 : out'[j].id < out'[k].id
        /\ \A i \in Used(arp_table') : \A l \in 1 .. Len(arp_table'[i].q) :
               LET p == arp_table'[i].q[l]
               IN p.netif = out'[k].netif /\ p.ip = out'[k].ip => p.id > out'[k].id

LEMMA NoneOvertaken == ASSUME IInv', SendsInOrder PROVE OrderKept
<1> SUFFICES ASSUME NEW k \in 1 .. Len(out'), NEW i \in Used(arp_table'),
                    NEW l \in 1 .. Len(arp_table'[i].q),
                    arp_table'[i].q[l].netif = out'[k].netif,
                    arp_table'[i].q[l].ip = out'[k].ip
             PROVE  FALSE
  BY DEF OrderKept, SendsInOrder
<1>1. PICK j \in InState(arp_table', Stable) :
          arp_table'[j].netif = out'[k].netif /\ arp_table'[j].ip = out'[k].ip
  BY DEF SendsInOrder
<1>2. j \in Used(arp_table') /\ arp_table'[j].state \in Stable
  BY DEF InState
<1>3. Table(arp_table', up', heard')
  BY DEF IInv
<1>4. Good(arp_table'[i], up', heard') /\ Good(arp_table'[j], up', heard')
  BY <1>2, <1>3 DEF Table
<1>5. i = j
  BY <1>1, <1>2, <1>3, <1>4 DEF Table, Good
<1>6. arp_table'[i].q = <<>>
  BY <1>2, <1>4, <1>5 DEF Good, Stable
<1> QED
  BY <1>6

\* Packets for one next hop leave in the order they were handed over, whether they
\* went straight out through a stable entry or waited for the answer, and none is
\* sent while an earlier one still waits.
THEOREM FramesSentInOrder == Spec => SentInOrder
<1>1. IInv /\ HeldInv /\ [Next]_vars => [OrderKept]_vars
  <2> SUFFICES ASSUME IInv, HeldInv, Next PROVE OrderKept
    OBVIOUS
  <2> QED
    BY StepOK, HeldStep, NoneOvertaken
<1> QED
  BY <1>1, Invariant, HeldInvariant, PTL DEF Spec, SentInOrder, OrderKept
=============================================================================
