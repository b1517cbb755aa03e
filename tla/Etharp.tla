------------------------------- MODULE Etharp -------------------------------
(***************************************************************************)
(* lwIP's ARP cache (core/ipv4/etharp.c), which finds the Ethernet address *)
(* of the next hop of every IPv4 packet a tap's interface sends            *)
(* (netif->output in xnet_tap.c).  Every operation on the table runs under *)
(* the core lock and is one step; a receiver (xnet_tap_rx) looks at        *)
(* netif_up before it takes the lock, so its frame may be handled after the*)
(* interface has been removed.                                             *)
(*                                                                         *)
(* The build has ARP_QUEUEING and LWIP_NETIF_HWADDRHINT, matches the       *)
(* interface (ETHARP_TABLE_MATCH_NETIF) and has no static entries.         *)
(* Addresses are members of small sets; an interface is its struct netif,  *)
(* and is assumed to stay at one address while it is set up.  ARP requests *)
(* and replies change no state here and are left out, except that a request*)
(* may fail for want of memory.  Broadcast and multicast destinations, and *)
(* ones outside the subnet (the taps have no gateway), never reach the     *)
(* table.                                                                  *)
(***************************************************************************)
EXTENDS Integers, Sequences, FiniteSets

CONSTANTS
    Netif, Ip, Mac,   \* interfaces, unicast addresses, Ethernet addresses
    NoMac,            \* no Ethernet address
    Neighbour,        \* which address may be met on which interface
    Watched,          \* any one neighbour, the one history is kept of
    ARP_TABLE_SIZE, ARP_QUEUE_LEN, ARP_MAXAGE, ARP_MAXPENDING,
    ARP_AGE_REREQUEST_USED_UNICAST,  \* the age from which use asks again
    MaxPackets        \* bound: packets handed to etharp_output

ASSUME SizeAssumption == ARP_TABLE_SIZE \in Nat \ {0}
ASSUME QueueAssumption == ARP_QUEUE_LEN \in Nat \ {0}
ASSUME AgeAssumption ==
    /\ ARP_MAXAGE \in Nat \ {0} /\ ARP_MAXPENDING \in Nat \ {0}
    /\ ARP_AGE_REREQUEST_USED_UNICAST \in Nat
ASSUME MacAssumption == NoMac \notin Mac
ASSUME NeighbourAssumption ==
    Neighbour \subseteq [netif : Netif, ip : Ip] /\ Watched \in Neighbour
ASSUME PacketsAssumption == MaxPackets \in Nat

VARIABLES
    arp_table,
    addr_hint,  \* the entry a sending pcb used last
    up,         \* the interfaces that are set up
    receiving,  \* the interfaces whose netif_up a receiver has seen set
    handed,     \* how many packets were handed over
    held,       \* the packets whose pbuf the table has a reference to
    out,        \* the IP frames the last step sent, in order
    heard       \* history: the address the watched neighbour announced last

vars == <<arp_table, addr_hint, up, receiving, handed, held, out, heard>>

Index == 0 .. ARP_TABLE_SIZE - 1
NoHint == ARP_TABLE_SIZE
Stable == {"STABLE", "REREQUESTING_1", "REREQUESTING_2"}
Packet == [id : 1 .. MaxPackets, netif : Netif, ip : Ip]

Entry == [state : {"PENDING"} \cup Stable, netif : Netif, ip : Ip,
          eth : Mac \cup {NoMac}, ctime : Nat, q : Seq(Packet)]

\* An entry after etharp_free_entry: whatever it still holds is not read again.
Empty == [state |-> "EMPTY"]

Used(t) == {i \in Index : t[i] # Empty}
InState(t, S) == {i \in Used(t) : t[i].state \in S}
Ids(q) == {q[k].id : k \in 1 .. Len(q)}

\* The references given up with the queue of entry i (free_etharp_q).
QueueOf(t, i) == IF t[i] = Empty THEN {} ELSE Ids(t[i].q)

Init ==
    /\ arp_table = [i \in Index |-> Empty]
    /\ addr_hint = NoHint
    /\ up = {} /\ receiving = {}
    /\ handed = 0 /\ held = {} /\ out = <<>>
    /\ heard = NoMac

-----------------------------------------------------------------------------
(* etharp_find_entry                                                       *)

Matching(t, n, a) == {i \in Used(t) : t[i].ip = a /\ t[i].netif = n}

First(S) == CHOOSE i \in S : \A j \in S : i <= j

\* Of the oldest, the last one in the table.
Oldest(t, S) ==
    CHOOSE i \in S : \A j \in S : \/ t[j].ctime < t[i].ctime
                                  \/ t[j].ctime = t[i].ctime /\ j <= i

\* The entry for a new address: an empty one, or else one that is recycled.
Recycled(t) ==
    LET pending == InState(t, {"PENDING"})
        idle == {i \in pending : t[i].q = <<>>}
    IN IF Used(t) # Index THEN First(Index \ Used(t))
       ELSE IF InState(t, Stable) # {} THEN Oldest(t, InState(t, Stable))
       ELSE IF idle # {} THEN Oldest(t, idle)
       ELSE Oldest(t, pending)

\* ETHARP_FLAG_TRY_HARD: the matching entry, or one for the address.
etharp_find_entry(t, n, a) ==
    IF Matching(t, n, a) # {} THEN First(Matching(t, n, a)) ELSE Recycled(t)

\* Mutant: the recycled entry's queue is not freed.
ForgetsQueue(t, n, a, i) == {}

\* The references given up when entry i is taken for a new address.
FreedBy(t, n, a, i) == IF i \in Matching(t, n, a) THEN {} ELSE QueueOf(t, i)

-----------------------------------------------------------------------------
(* etharp_output and etharp_query                                          *)

Frame(p, n, m) == [id |-> p.id, netif |-> n, ip |-> p.ip, eth |-> m]

\* etharp_output_to_arp_index: an entry about to expire is asked for again.
Asked(e) ==
    IF e.state = "STABLE" /\ e.ctime >= ARP_AGE_REREQUEST_USED_UNICAST
        THEN [e EXCEPT !.state = "REREQUESTING_1"] ELSE e

etharp_output_to_arp_index(n, p, i) ==
    /\ out' = <<Frame(p, n, arp_table[i].eth)>>
    /\ \/ arp_table' = [arp_table EXCEPT ![i] = Asked(@)]
       \/ UNCHANGED arp_table  \* no memory for the request
    /\ UNCHANGED held

\* A packet joins the queue of its entry; the oldest gives way.
Queued(q, p) ==
    IF Len(q) >= ARP_QUEUE_LEN THEN Tail(Append(q, p)) ELSE Append(q, p)

\* The entry etharp_query finds is pending: no stable one matches.
etharp_query(n, p) ==
    \E i \in {etharp_find_entry(arp_table, n, p.ip)} :
        LET new == [state |-> "PENDING", netif |-> n, ip |-> p.ip,
                    eth |-> NoMac, ctime |-> 0, q |-> <<>>]
            e == IF i \in Matching(arp_table, n, p.ip) THEN arp_table[i] ELSE new
            rest == held \ FreedBy(arp_table, n, p.ip, i)
        IN /\ out' = <<>>
           /\ \/ /\ arp_table' = [arp_table EXCEPT ![i] = [e EXCEPT !.q = Queued(e.q, p)]]
                 /\ held' = (rest \ Ids(e.q)) \cup Ids(Queued(e.q, p))
              \/ /\ arp_table' = [arp_table EXCEPT ![i] = e]  \* ERR_MEM: not queued
                 /\ held' = rest

\* Mutant: the hint's address and interface are not compared.
HintedStable(n, a) == addr_hint \in InState(arp_table, Stable)

Hinted(n, a) == addr_hint \in InState(arp_table, Stable) \cap Matching(arp_table, n, a)

\* A packet for a neighbour on interface n.
OutputUnicast(n, p) ==
    LET known == InState(arp_table, Stable) \cap Matching(arp_table, n, p.ip)
    IN IF Hinted(n, p.ip)
           THEN etharp_output_to_arp_index(n, p, addr_hint) /\ UNCHANGED addr_hint
       ELSE IF known # {}
           THEN etharp_output_to_arp_index(n, p, First(known)) /\ addr_hint' = First(known)
       ELSE etharp_query(n, p) /\ UNCHANGED addr_hint

etharp_output(n, a) ==
    /\ n \in up /\ handed < MaxPackets
    /\ handed' = handed + 1
    /\ OutputUnicast(n, [id |-> handed + 1, netif |-> n, ip |-> a])
    /\ UNCHANGED <<up, receiving, heard>>

-----------------------------------------------------------------------------
(* etharp_input and etharp_update_arp_entry                                *)

\* xnet_tap_rx sees netif_up set; the frame waits for the core lock.
Receive(n) ==
    /\ n \in up
    /\ receiving' = receiving \cup {n}
    /\ out' = <<>>
    /\ UNCHANGED <<arp_table, addr_hint, up, handed, held, heard>>

\* Mutant: the queue is sent from its end.
SentBackwards(q, n, m) == [k \in 1 .. Len(q) |-> Frame(q[Len(q) + 1 - k], n, m)]

\* The frames of the packets of queue q.
Sent(q, n, m) == [k \in 1 .. Len(q) |-> Frame(q[k], n, m)]

\* Entry i becomes stable and its packets are sent.
Update(n, a, m, i) ==
    LET q == IF i \in Matching(arp_table, n, a) THEN arp_table[i].q ELSE <<>>
    IN /\ arp_table' = [arp_table EXCEPT ![i] =
              [state |-> "STABLE", netif |-> n, ip |-> a, eth |-> m, ctime |-> 0,
               q |-> <<>>]]
       /\ held' = held \ (Ids(q) \cup FreedBy(arp_table, n, a, i))
       /\ out' = Sent(q, n, m)

\* ETHARP_FLAG_TRY_HARD when the message is for us, else ETHARP_FLAG_FIND_ONLY.
\* Messages from other than unicast addresses are ignored.
etharp_input(n, a, m, for_us) ==
    /\ n \in receiving
    /\ receiving' = receiving \ {n}
    /\ heard' = IF n = Watched.netif /\ a = Watched.ip THEN m ELSE heard
    /\ IF for_us \/ Matching(arp_table, n, a) # {}
           THEN Update(n, a, m, etharp_find_entry(arp_table, n, a))
           ELSE out' = <<>> /\ UNCHANGED <<arp_table, held>>
    /\ UNCHANGED <<addr_hint, up, handed>>

-----------------------------------------------------------------------------
(* etharp_tmr, and interfaces that come and go                             *)

Expired(e) ==
    \/ e.ctime + 1 >= ARP_MAXAGE
    \/ e.state = "PENDING" /\ e.ctime + 1 >= ARP_MAXPENDING

\* Mutant: asking again for a pending address renews its entry.
AskingRenews(e) ==
    IF e.state = "PENDING" THEN [e EXCEPT !.ctime = 0] ELSE [e EXCEPT !.ctime = @ + 1]

Aged(e) ==
    [e EXCEPT !.ctime = e.ctime + 1,
              !.state = CASE e.state = "REREQUESTING_1" -> "REREQUESTING_2"
                          [] e.state = "REREQUESTING_2" -> "STABLE"
                          [] OTHER -> e.state]

\* etharp_free_entry on the entries of S, and the rest of the table as f has it.
Without(S, f) ==
    /\ arp_table' = [i \in Index |-> IF i \in S THEN Empty ELSE f[i]]
    /\ held' = held \ UNION {QueueOf(arp_table, i) : i \in S}

etharp_tmr ==
    /\ Without({i \in Used(arp_table) : Expired(arp_table[i])},
               [i \in Index |-> IF arp_table[i] = Empty THEN Empty ELSE Aged(arp_table[i])])
    /\ out' = <<>>
    /\ UNCHANGED <<addr_hint, up, receiving, handed, heard>>

\* xnet_tap_setup_netif: netif_add.
Setup(n) ==
    /\ n \notin up
    /\ up' = up \cup {n}
    /\ out' = <<>>
    /\ UNCHANGED <<arp_table, addr_hint, receiving, handed, held, heard>>

\* Mutant: only stable entries are freed.
CleanupStable(n) == {i \in InState(arp_table, Stable) : arp_table[i].netif = n}

\* xnet_tap_teardown: netif_set_down calls etharp_cleanup_netif.
etharp_cleanup_netif(n) == {i \in Used(arp_table) : arp_table[i].netif = n}

Teardown(n) ==
    /\ n \in up
    /\ up' = up \ {n}
    /\ Without(etharp_cleanup_netif(n), arp_table)
    /\ out' = <<>>
    /\ UNCHANGED <<addr_hint, receiving, handed, heard>>

-----------------------------------------------------------------------------

Next ==
    \/ \E h \in Neighbour : etharp_output(h.netif, h.ip)
    \/ \E n \in Netif : Receive(n) \/ Setup(n) \/ Teardown(n)
    \/ \E h \in Neighbour, m \in Mac, for_us \in BOOLEAN :
           etharp_input(h.netif, h.ip, m, for_us)
    \/ etharp_tmr

Spec == Init /\ [][Next]_vars

\* The thread of the stack runs its timers (sys_check_timeouts) for ever.
FairSpec == Spec /\ WF_vars(etharp_tmr)

-----------------------------------------------------------------------------

\* An address has at most one entry per interface (the sweep of etharp_find_entry
\* looks at the whole table before it takes an empty entry): two of them would
\* age, be refreshed and hold packets apart from each other.
OneEntry ==
    \A i, j \in Used(arp_table) :
        arp_table[i].ip = arp_table[j].ip /\ arp_table[i].netif = arp_table[j].netif
            => i = j

\* Only pending entries hold packets, at most ARP_QUEUE_LEN, and only their own:
\* what the assertion "arp_table[i].q == NULL" in etharp_find_entry expects of the
\* stable entry it recycles, and what resolving an address relies on.
QueuesSane ==
    \A i \in Used(arp_table) :
        /\ arp_table[i].q # <<>> => arp_table[i].state = "PENDING"
        /\ Len(arp_table[i].q) <= ARP_QUEUE_LEN
        /\ \A k \in 1 .. Len(arp_table[i].q) :
               /\ arp_table[i].q[k].ip = arp_table[i].ip
               /\ arp_table[i].q[k].netif = arp_table[i].netif

\* A pending entry's interface is set up, whatever a late frame does after the
\* interface has gone: etharp_tmr sends through the interface of every pending
\* entry, and a removed one's struct netif belongs to nobody.
PendingNetifUp ==
    \A i \in InState(arp_table, {"PENDING"}) : arp_table[i].netif \in up

\* The stable entry of a neighbour has the address it announced last, even one made
\* by a late frame for an interface that was removed and set up again meanwhile.
StableIsLatest ==
    \A i \in InState(arp_table, Stable) :
        arp_table[i].netif = Watched.netif /\ arp_table[i].ip = Watched.ip
            => arp_table[i].eth = heard

\* The pbufs the table has references to are the queued ones, each in one place:
\* expiry, recycling, a full queue and a removed interface neither leak a packet
\* nor free one twice.
ReferencesQueued ==
    \A p \in 1 .. MaxPackets :
        LET places == {c \in Used(arp_table) \X (1 .. ARP_QUEUE_LEN) :
                           LET q == arp_table[c[1]].q IN c[2] <= Len(q) /\ q[c[2]].id = p}
        IN Cardinality(places) = IF p \in held THEN 1 ELSE 0

\* Every frame for a neighbour goes to the address that neighbour announced last:
\* neither a hint kept from before an entry was recycled nor a packet that waited
\* is sent elsewhere.
SentToLatest ==
    [][\A k \in 1 .. Len(out') :
           out'[k].netif = Watched.netif /\ out'[k].ip = Watched.ip
               => out'[k].eth = heard' /\ heard' # NoMac]_vars

\* Packets for one next hop leave in the order they were handed over: those of one
\* queue in order, and none while an earlier one still waits.
SentInOrder ==
    [][\A k \in 1 .. Len(out') :
           /\ \A j \in 1 .. k - 1 : out'[j].id < out'[k].id
           /\ \A i \in Used(arp_table') : \A l \in 1 .. Len(arp_table'[i].q) :
                  LET p == arp_table'[i].q[l]
                  IN p.netif = out'[k].netif /\ p.ip = out'[k].ip => p.id > out'[k].id]_vars

\* No packet waits for ever: its neighbour answers, or its entry expires, is
\* recycled or goes with its interface.
HeldIsReleased == \A p \in 1 .. MaxPackets : p \in held ~> p \notin held
=============================================================================
