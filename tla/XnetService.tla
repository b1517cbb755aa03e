----------------------------- MODULE XnetService -----------------------------
(***************************************************************************)
(* The native library (externals/libzt-jni): the service of xnet_service.c,*)
(* its registry of taps, one per network, and the taps' interfaces in lwIP *)
(* (xnet_tap.c).                                                           *)
(*                                                                         *)
(* One client thread calls xnet_start, xnet_stop, xnet_join and xnet_leave;*)
(* svc_thread owns the ZeroTier node; lwIP has a thread of its own.  The   *)
(* node calls cb_vnet_config from svc_thread or from inside a join or a    *)
(* leave.  It runs under g_lock and the list of interfaces changes under   *)
(* the lwIP core lock, so a call of it is one step.                        *)
(*                                                                         *)
(* struct netif lies inside its tap, so lwIP's netif_list is a list of     *)
(* slots of g_taps, and copying a tap copies its link.  The loopback       *)
(* interface, always the last, counts as the end of the list.              *)
(***************************************************************************)
EXTENDS Naturals, FiniteSets

CONSTANTS
    Network,
    MaxTaps,  \* MAX_TAPS
    Null      \* the null pointer, and the network of a slot never used

ASSUME MaxTapsAssumption == MaxTaps \in Nat \ {0}
ASSUME NullAssumption == Null \notin Network \cup Nat

VARIABLES
    running, online, node,  \* g_running, g_node_online, g_node # NULL
    lwipInited, lwipUp,     \* lwip_inited, g_lwip_up
    tcpip,                  \* tcpip_init was called and tcpip_init_done is to come
    taps, count,            \* g_taps, g_tap_count
    head,                   \* netif_list
    joined,                 \* the networks of the node
    apc,                    \* the client thread
    spc                     \* svc_thread

stackVars == <<lwipInited, lwipUp, tcpip>>
tapVars == <<taps, count, head>>
vars == <<running, online, node, stackVars, tapVars, joined, apc, spc>>

Slot == 1 .. MaxTaps
Live == 1 .. count

Tap == [nwid : Network \cup {Null}, has_ip4 : BOOLEAN, netif_up : BOOLEAN,
        next : Slot \cup {Null}]

\* A slot after memset, for network n.
Zero(n) == [nwid |-> n, has_ip4 |-> FALSE, netif_up |-> FALSE,
            next |-> Null]

Init ==
    /\ running = FALSE /\ online = FALSE /\ node = FALSE
    /\ lwipInited = FALSE /\ lwipUp = FALSE /\ tcpip = FALSE
    /\ taps = [s \in Slot |-> Zero(Null)]
    /\ count = 0
    /\ head = Null
    /\ joined = {}
    /\ apc = "idle" /\ spc = "none"

-----------------------------------------------------------------------------
(* netif_list.                                                             *)

\* The k-th element from h, counting from 0; Null past the end.
Walk(t, h) ==
    LET nth[k \in 0 .. MaxTaps] ==
            IF k = 0 THEN h
            ELSE IF nth[k - 1] = Null THEN Null ELSE t[nth[k - 1]].next
    IN nth

Listed(t, h) == LET w == Walk(t, h) IN {s \in Slot : \E k \in 0 .. MaxTaps : w[k] = s}
Cyclic(t, h) == Walk(t, h)[MaxTaps] # Null

\* netif_add gives the interface a number no listed one has, itself included:
\* with its assertion compiled out (LWIP_NOASSERT) the search does not end when
\* the interface is already listed, nor in a cyclic list.
AddOutcome(t, h, s) ==
    IF s \in Listed(t, h) THEN "readd" ELSE IF Cyclic(t, h) THEN "cycle" ELSE "ok"

\* netif_remove looks for the first interface linked to this one; without any it
\* does nothing.
Before(t, h, s) == {p \in Listed(t, h) : t[p].next = s}

RemoveOutcome(t, h, s) ==
    IF h # s /\ Cyclic(t, h) /\ Before(t, h, s) = {} THEN "cycle" ELSE "ok"

First(t, h, s) ==
    CHOOSE p \in Before(t, h, s) :
        \E k \in 0 .. MaxTaps :
            /\ Walk(t, h)[k] = p
            /\ \A j \in 0 .. k - 1 : Walk(t, h)[j] \notin Before(t, h, s)

Unlinked(t, h, s) ==
    IF h = s \/ Before(t, h, s) = {} THEN t
    ELSE [t EXCEPT ![First(t, h, s)].next = t[s].next]

NewHead(t, h, s) == IF h = s THEN t[s].next ELSE h

-----------------------------------------------------------------------------
(* The registry a call leaves, and its outcome: "ok", or the endless       *)
(* search the calling thread is in.                                        *)

Registry(t, c, h, out) == [taps |-> t, count |-> c, head |-> h, outcome |-> out]

\* The address loop of cb_vnet_config and xnet_tap_setup_netif on slot s of taps
\* t; ip4 says whether there is an IPv4 address, of which only the first counts.
\* An IPv6 address only sets has_ip6, which is left out: the IPv6 branch of
\* xnet_tap_setup_netif requires the netif_up on which it has already returned.
Configured(t, c, s, ip4) ==
    LET u == [t EXCEPT ![s].has_ip4 = @ \/ ip4]
    IN IF ip4 /\ ~t[s].has_ip4 /\ ~t[s].netif_up
       THEN IF AddOutcome(u, head, s) = "ok"
            THEN Registry([u EXCEPT ![s].netif_up = TRUE, ![s].next = head], c, s, "ok")
            ELSE Registry(u, c, head, AddOutcome(u, head, s))
       ELSE Registry(u, c, head, "ok")

\* Mutant: the last tap is not looked at.
tap_find_short(n) == {s \in 1 .. count - 1 : taps[s].nwid = n}

tap_find(n) == {s \in Live : taps[s].nwid = n}

\* Operations UP and CONFIG_UPDATE.  A network that finds the registry full is
\* left without a tap.
ConfigUp(n, ip4) ==
    IF tap_find(n) # {}
    THEN Configured(taps, count, CHOOSE s \in tap_find(n) : TRUE, ip4)
    ELSE IF count < MaxTaps
    THEN Configured([taps EXCEPT ![count + 1] = Zero(n)], count + 1, count + 1, ip4)
    ELSE Registry(taps, count, head, "ok")

\* xnet_tap_teardown
Teardown(s) ==
    IF ~taps[s].netif_up THEN Registry(taps, count, head, "ok")
    ELSE IF RemoveOutcome(taps, head, s) # "ok" THEN Registry(taps, count, head, "cycle")
    ELSE Registry([Unlinked(taps, head, s) EXCEPT ![s].netif_up = FALSE, ![s].has_ip4 = FALSE],
                  count, NewHead(taps, head, s), "ok")

\* Operations DOWN and DESTROY: the last tap is copied over the one removed.
ConfigDown(n) ==
    IF tap_find(n) = {} THEN Registry(taps, count, head, "ok")
    ELSE LET s == CHOOSE x \in tap_find(n) : TRUE
             r == Teardown(s)
         IN IF r.outcome # "ok" THEN r
            ELSE Registry([r.taps EXCEPT ![s] = r.taps[count]], count - 1, r.head, "ok")

Endless == {"readd", "cycle"}
Hung == apc \in Endless \/ spc \in Endless

\* A call of cb_vnet_config gets g_lock and leaves registry r.
Callback(r) == ~Hung /\ taps' = r.taps /\ count' = r.count /\ head' = r.head

After(pc, r) == IF r.outcome = "ok" THEN pc ELSE r.outcome

-----------------------------------------------------------------------------
(* The client thread.                                                      *)

xnet_start ==
    /\ apc = "idle" /\ ~running
    /\ running' = TRUE
    /\ apc' = "lwip"
    /\ UNCHANGED <<online, node, stackVars, tapVars, joined, spc>>

xnet_lwip_init ==
    /\ apc = "lwip"
    /\ tcpip' = ~lwipInited
    /\ apc' = "wait"
    /\ UNCHANGED <<running, online, node, lwipInited, lwipUp, tapVars, joined, spc>>

\* On lwIP's thread.
tcpip_init_done ==
    /\ tcpip
    /\ lwipInited' = TRUE /\ lwipUp' = TRUE /\ tcpip' = FALSE
    /\ UNCHANGED <<running, online, node, tapVars, joined, apc, spc>>

\* The condition variable, then pthread_create.
CreateThread ==
    /\ apc = "wait" /\ lwipInited
    /\ apc' = "idle"
    /\ \/ spc' = "new" /\ UNCHANGED running
       \/ running' = FALSE /\ UNCHANGED spc
    /\ UNCHANGED <<online, node, stackVars, tapVars, joined>>

\* Mutant: svc_thread is not told to stop.
xnet_stop_running ==
    /\ apc = "idle" /\ running
    /\ apc' = "join"
    /\ UNCHANGED <<running, online, node, stackVars, tapVars, joined, spc>>

xnet_stop ==
    /\ apc = "idle" /\ running
    /\ running' = FALSE
    /\ apc' = "join"
    /\ UNCHANGED <<online, node, stackVars, tapVars, joined, spc>>

\* Mutant: the thread is not waited for.
JoinThreadEarly ==
    /\ apc = "join"
    /\ lwipUp' = FALSE
    /\ apc' = "teardown"
    /\ UNCHANGED <<running, online, node, lwipInited, tcpip, tapVars, joined, spc>>

\* pthread_join and xnet_lwip_shutdown.
JoinThread ==
    /\ apc = "join" /\ spc = "exited"
    /\ spc' = "none"
    /\ lwipUp' = FALSE
    /\ apc' = "teardown"
    /\ UNCHANGED <<running, online, node, lwipInited, tcpip, tapVars, joined>>

Up == {s \in Live : taps[s].netif_up}

TeardownTap ==
    /\ apc = "teardown"
    /\ \E s \in Up :
        /\ \A q \in Up : s <= q
        /\ LET r == Teardown(s) IN
            /\ taps' = r.taps /\ count' = r.count /\ head' = r.head
            /\ apc' = After(apc, r)
    /\ UNCHANGED <<running, online, node, stackVars, joined, spc>>

\* Mutant: g_tap_count is kept.
TornDownKeeps ==
    /\ apc = "teardown" /\ Up = {}
    /\ apc' = "idle"
    /\ UNCHANGED <<running, online, node, stackVars, tapVars, joined, spc>>

TornDown ==
    /\ apc = "teardown" /\ Up = {}
    /\ count' = 0
    /\ apc' = "idle"
    /\ UNCHANGED <<running, online, node, stackVars, taps, head, joined, spc>>

\* The node reports a network as UP when it joins it, with the addresses of the
\* configuration it has cached, if any.
xnet_join(n) ==
    /\ apc = "idle" /\ node
    /\ joined' = joined \cup {n}
    /\ \E ip4 \in BOOLEAN :
        LET r == ConfigUp(n, ip4) IN Callback(r) /\ apc' = After(apc, r)
    /\ UNCHANGED <<running, online, node, stackVars, spc>>

xnet_leave(n) ==
    /\ apc = "idle" /\ node
    /\ n \in joined
    /\ joined' = joined \ {n}
    /\ LET r == ConfigDown(n) IN Callback(r) /\ apc' = After(apc, r)
    /\ UNCHANGED <<running, online, node, stackVars, spc>>

-----------------------------------------------------------------------------
(* svc_thread.                                                             *)

\* ZT_Node_new and the two sockets.
NodeNew ==
    /\ spc = "new"
    /\ \/ node' = TRUE /\ spc' = "loop" /\ UNCHANGED running
       \/ running' = FALSE /\ spc' = "exited" /\ UNCHANGED node
    /\ UNCHANGED <<online, stackVars, tapVars, joined, apc>>

cb_event ==
    /\ spc = "loop"
    /\ online' \in BOOLEAN
    /\ UNCHANGED <<running, node, stackVars, tapVars, joined, apc, spc>>

cb_vnet_config(n, ip4) ==
    /\ spc = "loop" /\ n \in joined
    /\ LET r == ConfigUp(n, ip4) IN Callback(r) /\ spc' = After(spc, r)
    /\ UNCHANGED <<running, online, node, stackVars, joined, apc>>

\* Mutant: the loop also ends when poll fails.
LoopExitAnyTime ==
    /\ spc = "loop"
    /\ spc' = "delete"
    /\ UNCHANGED <<running, online, node, stackVars, tapVars, joined, apc>>

LoopExit ==
    /\ spc = "loop" /\ ~running
    /\ spc' = "delete"
    /\ UNCHANGED <<running, online, node, stackVars, tapVars, joined, apc>>

\* ZT_Node_delete may report its networks as down.
DeleteDown(n) ==
    /\ spc = "delete" /\ n \in joined
    /\ joined' = joined \ {n}
    /\ LET r == ConfigDown(n) IN Callback(r) /\ spc' = After(spc, r)
    /\ UNCHANGED <<running, online, node, stackVars, apc>>

DeleteDone ==
    /\ spc = "delete"
    /\ node' = FALSE /\ joined' = {}
    /\ spc' = "clear"
    /\ UNCHANGED <<running, online, stackVars, tapVars, apc>>

\* g_node_online, and the sockets.
Clear ==
    /\ spc = "clear"
    /\ online' = FALSE
    /\ spc' = "exited"
    /\ UNCHANGED <<running, node, stackVars, tapVars, joined, apc>>

-----------------------------------------------------------------------------

Client ==
    \/ xnet_start \/ xnet_lwip_init \/ CreateThread
    \/ xnet_stop \/ JoinThread \/ TeardownTap \/ TornDown
    \/ \E n \in Network : xnet_join(n) \/ xnet_leave(n)

Svc ==
    \/ NodeNew \/ cb_event \/ LoopExit \/ DeleteDone \/ Clear
    \/ \E n \in Network : DeleteDown(n) \/ \E ip4 \in BOOLEAN : cb_vnet_config(n, ip4)

Next == Client \/ Svc \/ tcpip_init_done

Spec == Init /\ [][Next]_vars

\* Each thread runs: a call that has begun goes on, lwIP's thread starts, an
\* iteration of the service loop polls for at most a second, and ZT_Node_delete
\* returns.
FairSpec ==
    /\ Spec
    /\ WF_vars(tcpip_init_done)
    /\ WF_vars(xnet_lwip_init \/ CreateThread \/ JoinThread \/ TeardownTap \/ TornDown)
    /\ WF_vars(NodeNew \/ LoopExit \/ DeleteDone \/ Clear)

-----------------------------------------------------------------------------
(* Properties.                                                             *)

TypeOK ==
    /\ running \in BOOLEAN /\ online \in BOOLEAN /\ node \in BOOLEAN
    /\ lwipInited \in BOOLEAN /\ lwipUp \in BOOLEAN /\ tcpip \in BOOLEAN
    /\ taps \in [Slot -> Tap]
    /\ count \in 0 .. MaxTaps
    /\ head \in Slot \cup {Null}
    /\ joined \subseteq Network
    /\ apc \in {"idle", "lwip", "wait", "join", "teardown"} \cup Endless
    /\ spc \in {"none", "new", "loop", "delete", "clear", "exited"} \cup Endless

\* The registry never holds two taps of one network, however allocations and the
\* copy over a freed slot follow each other on two threads (tap_find would only
\* see the first).
TapsDistinct == \A s, q \in Live : taps[s].nwid = taps[q].nwid => s = q

\* Nothing outlives its node.  The flags that xnet_running tests are never left over
\* from an earlier start, although svc_thread clears g_node before g_node_online;
\* and without a node and with no call in progress the registry is empty, so that
\* a restarted service inherits no tap, whichever networks ZT_Node_delete reported
\* as down.
NoLeftovers ==
    /\ running /\ online => node
    /\ apc = "idle" /\ ~node => count = 0

\* Where the two threads are in relation to each other, to the flags and to the
\* registry: the inductive form of NoLeftovers.
NodeThread == {"loop", "delete"} \cup Endless

LifecycleOK ==
    /\ apc = "idle" => spc \in IF running THEN {"new", "loop"} \cup Endless ELSE {"none", "exited"}
    /\ apc \in {"lwip", "wait"} => running /\ spc \in {"none", "exited"}
    /\ apc = "join" => ~running /\ spc # "none"
    /\ apc = "teardown" => ~running /\ spc = "none"
    /\ apc \in Endless => spc = IF running THEN "loop" ELSE "none"
    /\ node <=> spc \in NodeThread
    /\ online => spc \in NodeThread \cup {"clear"}
    /\ count > 0 => node \/ apc \in {"join", "teardown"} \cup Endless

\* xnet_start and xnet_stop return, unless a thread is caught in an endless search
\* of lwIP's list.
CallsReturn == apc # "idle" ~> (apc = "idle" \/ Hung)

\* LWIP_ASSERT("netif already added", netif2 != netif) in netif_add, which this
\* build compiles out.
NetifNotYetAdded == apc # "readd" /\ spc # "readd"
=============================================================================
