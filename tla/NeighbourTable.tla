--------------------------- MODULE NeighbourTable ---------------------------
(***************************************************************************)
(* ARPTable and NDPTable (service/ARPTable.java, service/NDPTable.java):   *)
(* which MAC address an IP address was last seen at, with a thread that    *)
(* removes what has not been used for ENTRY_TIMEOUT.                       *)
(*                                                                         *)
(* inetAddressToMacAddress is keyed by IP address and answers the lookups; *)
(* entriesMap is keyed by MAC address and drives the expiry.  Each map has *)
(* a lock of its own, held for one access, and the timeout thread copies   *)
(* entriesMap without its lock; so every access is a step.  The other two  *)
(* maps (macAddressToInetAddress, ipEntriesMap) are only read by           *)
(* getAddressForMac and hasAddressForMac, which nothing calls, and are     *)
(* left out.                                                               *)
(*                                                                         *)
(* Time is the flag old of an entry: more than ENTRY_TIMEOUT has passed    *)
(* since it was made or last refreshed.                                    *)
(***************************************************************************)
EXTENDS Naturals, Sequences, FiniteSets

CONSTANTS
    Ip, Mac, None,
    Ndp  \* TRUE: NDPTable and the IPv6 side; FALSE: ARPTable and the IPv4 side

ASSUME NdpAssumption == Ndp \in BOOLEAN

VARIABLES
    ipToMac,   \* inetAddressToMacAddress
    entries,   \* entriesMap: None or [ip, old]
    tpc,       \* the timeout thread: "scan", "examine", "removeIp",
               \* "removeEntry", "dead"
    snap,      \* the entries it copied and has not examined yet
    cur,       \* the expired entry it is removing
    stopped,   \* stop() has interrupted it
    todo,      \* addresses the network thread has still to put, head first
    wpc,       \* the network thread: "idle", "putIp", "putEntry"
    announced  \* history: the pairs setAddress was called with

tableVars == <<ipToMac, entries, tpc, snap, cur, stopped, todo, wpc, announced>>

Entry == [ip : Ip, old : BOOLEAN]

\* An entry in the timeout thread's copy is shared with entriesMap until it is
\* replaced there.
Copied == [mac : Mac, ip : Ip, shared : BOOLEAN, old : BOOLEAN]

ASSUME NoneAssumption == None \notin Ip \cup Mac \cup Entry \cup [mac : Mac, ip : Ip]

TableInit ==
    /\ ipToMac = [i \in Ip |-> None]
    /\ entries = [m \in Mac |-> None]
    /\ tpc = "scan"
    /\ snap = {}
    /\ cur = None
    /\ stopped = FALSE
    /\ todo = <<>>
    /\ wpc = "idle"
    /\ announced = {}

-----------------------------------------------------------------------------
(* setAddress, on the network thread: one frame announces one pair (its    *)
(* source) or, in an ARP packet, two.                                      *)

Receive(pairs) ==
    /\ wpc = "idle"
    /\ todo' = pairs
    /\ wpc' = "putIp"
    /\ UNCHANGED <<ipToMac, entries, tpc, snap, cur, stopped, announced>>

PutIp ==
    /\ wpc = "putIp"
    /\ ipToMac' = [ipToMac EXCEPT ![Head(todo).ip] = Head(todo).mac]
    /\ announced' = announced \cup {Head(todo)}
    /\ wpc' = "putEntry"
    /\ UNCHANGED <<entries, tpc, snap, cur, stopped, todo>>

\* The timeout thread's copy keeps the entry that is replaced.
Detach(m) ==
    snap' = {IF o.mac = m /\ o.shared
             THEN [o EXCEPT !.shared = FALSE, !.old = entries[m].old] ELSE o : o \in snap}

PutEntry ==
    /\ wpc = "putEntry"
    /\ entries' = [entries EXCEPT ![Head(todo).mac] = [ip |-> Head(todo).ip, old |-> FALSE]]
    /\ Detach(Head(todo).mac)
    /\ todo' = Tail(todo)
    /\ wpc' = IF todo' = <<>> THEN "idle" ELSE "putIp"
    /\ UNCHANGED <<ipToMac, tpc, cur, stopped, announced>>

-----------------------------------------------------------------------------
(* The timeout thread.                                                     *)

TimeoutStep == UNCHANGED <<todo, wpc, announced, stopped>>

Scan ==
    /\ tpc = "scan" /\ ~stopped
    /\ snap' = {[mac |-> m, ip |-> entries[m].ip, shared |-> TRUE, old |-> FALSE] :
                m \in {n \in Mac : entries[n] # None}}
    /\ tpc' = "examine"
    /\ TimeoutStep /\ UNCHANGED <<ipToMac, entries, cur>>

\* The copy meets an insertion: ConcurrentModificationException.  ARPTable's
\* thread logs it and scans again, NDPTable's returns.
ScanFails ==
    /\ tpc = "scan" /\ ~stopped
    /\ wpc = "putEntry" /\ entries[Head(todo).mac] = None
    /\ tpc' = IF Ndp THEN "dead" ELSE "scan"
    /\ TimeoutStep /\ UNCHANGED <<ipToMac, entries, snap, cur>>

\* The age of an entry is read when its turn comes; time may have passed since
\* it was detached.
Expired(o) == IF o.shared THEN {entries[o.mac].old} ELSE {o.old, TRUE}

Examine ==
    /\ tpc = "examine"
    /\ \E o \in snap : \E old \in Expired(o) :
        /\ snap' = snap \ {o}
        /\ cur' = IF old THEN [mac |-> o.mac, ip |-> o.ip] ELSE cur
        /\ tpc' = IF old THEN "removeIp" ELSE "examine"
    /\ TimeoutStep /\ UNCHANGED <<ipToMac, entries>>

RemoveIp ==
    /\ tpc = "removeIp"
    /\ ipToMac' = [ipToMac EXCEPT ![cur.ip] = None]
    /\ tpc' = "removeEntry"
    /\ TimeoutStep /\ UNCHANGED <<entries, snap, cur>>

\* Mutant: the entry is not removed.
RemoveEntryForgotten ==
    /\ tpc = "removeEntry"
    /\ cur' = None
    /\ tpc' = "examine"
    /\ TimeoutStep /\ UNCHANGED <<ipToMac, entries, snap>>

RemoveEntry ==
    /\ tpc = "removeEntry"
    /\ entries' = [entries EXCEPT ![cur.mac] = None]
    /\ cur' = None
    /\ tpc' = "examine"
    /\ TimeoutStep /\ UNCHANGED <<ipToMac, snap>>

\* sleep(1000), which an interrupt ends.
Sleep ==
    /\ tpc = "examine" /\ snap = {}
    /\ tpc' = IF stopped THEN "dead" ELSE "scan"
    /\ TimeoutStep /\ UNCHANGED <<ipToMac, entries, snap, cur>>

\* The interrupt is seen at the head of the loop.
SeeInterrupt ==
    /\ tpc = "scan" /\ stopped
    /\ tpc' = "dead"
    /\ TimeoutStep /\ UNCHANGED <<ipToMac, entries, snap, cur>>

Stop ==
    /\ ~stopped
    /\ stopped' = TRUE
    /\ UNCHANGED <<ipToMac, entries, tpc, snap, cur, todo, wpc, announced>>

Timeout == Scan \/ ScanFails \/ Examine \/ RemoveIp \/ RemoveEntry \/ Sleep \/ SeeInterrupt

-----------------------------------------------------------------------------
(* Lookups and time.                                                       *)

HasMacForAddress(i) == ipToMac[i] # None

\* getMacForAddress refreshes the entry of the MAC it returns; None stands for -1.
Refresh(m) ==
    entries' = IF m = None \/ entries[m] = None THEN entries
               ELSE [entries EXCEPT ![m].old = FALSE]

Age(m) ==
    /\ entries[m] # None /\ ~entries[m].old
    /\ entries' = [entries EXCEPT ![m].old = TRUE]
    /\ UNCHANGED <<ipToMac, tpc, snap, cur, stopped, todo, wpc, announced>>

\* The types of the table's variables, for the type invariant.
TableTypeOK ==
    /\ ipToMac \in [Ip -> Mac \cup {None}]
    /\ entries \in [Mac -> Entry \cup {None}]
    /\ tpc \in {"scan", "examine", "removeIp", "removeEntry", "dead"}
    /\ snap \subseteq Copied
    /\ cur \in [mac : Mac, ip : Ip] \cup {None}
    /\ (tpc \in {"removeIp", "removeEntry"}) = (cur # None)
    /\ stopped \in BOOLEAN
    /\ todo \in Seq([ip : Ip, mac : Mac])
    /\ wpc \in {"idle", "putIp", "putEntry"}
    /\ (wpc = "idle") = (todo = <<>>)
    /\ announced \subseteq [ip : Ip, mac : Mac]
=============================================================================
