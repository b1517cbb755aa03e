------------------------- MODULE XnetServiceProofs -------------------------
(* TLAPS proofs about XnetService, and about XnetFrames on top of it, for  *)
(* every set of networks and every size of the registry.                   *)
EXTENDS XnetFrames, TLAPS

\* The taps of a registry of c taps, as constant-level operators.
Distinct(t, c) == \A s, q \in 1 .. c : t[s].nwid = t[q].nwid => s = q
SameIds(t, u) == \A s \in Slot : u[s].nwid = t[s].nwid

RegistryOK(r) ==
    /\ r.taps \in [Slot -> Tap]
    /\ r.count \in 0 .. MaxTaps
    /\ r.head \in Slot \cup {Null}
    /\ r.outcome \in {"ok"} \cup Endless
    /\ Distinct(r.taps, r.count)

LEMMA SlotFacts == MaxTaps \in Nat /\ MaxTaps >= 1 /\ \A s \in Slot : s \in Nat /\ s # Null
BY MaxTapsAssumption, NullAssumption DEF Slot

\* netif_remove changes links only.
LEMMA UnlinkedTyped ==
    ASSUME NEW t \in [Slot -> Tap], NEW h \in Slot \cup {Null}, NEW s \in Slot
    PROVE  /\ Unlinked(t, h, s) \in [Slot -> Tap] /\ SameIds(t, Unlinked(t, h, s))
           /\ NewHead(t, h, s) \in Slot \cup {Null}
<1>1. t[s].next \in Slot \cup {Null}
  BY DEF Tap
<1>2. CASE h = s \/ Before(t, h, s) = {}
  BY <1>1, <1>2 DEF Unlinked, NewHead, SameIds
<1>3. CASE ~(h = s \/ Before(t, h, s) = {})
  <2> DEFINE f == First(t, h, s)
             x == t[s].next
  <2>1. Unlinked(t, h, s) = [t EXCEPT ![f].next = x]
    BY <1>3 DEF Unlinked
  <2> HIDE DEF f, x
  <2>2. Unlinked(t, h, s) \in [Slot -> Tap] /\ SameIds(t, Unlinked(t, h, s))
    <3>1. x \in Slot \cup {Null}
      BY <1>1 DEF x
    <3>2. [t EXCEPT ![f].next = x] \in [Slot -> Tap] /\ SameIds(t, [t EXCEPT ![f].next = x])
      BY <3>1, Zenon DEF Tap, SameIds
    <3> QED
      BY <2>1, <3>2, Zenon
  <2> QED
    BY <1>1, <2>2 DEF NewHead
<1> QED
  BY <1>2, <1>3

\* Distinctness only depends on the networks of the taps.
LEMMA DistinctSame ==
    ASSUME NEW t, NEW u, NEW c \in 0 .. MaxTaps, SameIds(t, u), Distinct(t, c)
    PROVE  Distinct(u, c)
<1>1. 1 .. c \subseteq Slot
  BY SlotFacts DEF Slot
<1> QED
  BY <1>1 DEF SameIds, Distinct

LEMMA ConfiguredTyped ==
    ASSUME NEW t \in [Slot -> Tap], NEW c \in 0 .. MaxTaps, NEW s \in Slot, NEW ip4 \in BOOLEAN,
           head \in Slot \cup {Null}, Distinct(t, c)
    PROVE  LET r == Configured(t, c, s, ip4) IN RegistryOK(r) /\ r.count = c
<1> DEFINE u == [t EXCEPT ![s].has_ip4 = t[s].has_ip4 \/ ip4]
           v == [u EXCEPT ![s].netif_up = TRUE, ![s].next = head]
<1>1. u \in [Slot -> Tap] /\ SameIds(t, u)
  BY DEF Tap, SameIds
<1>2. v \in [Slot -> Tap] /\ SameIds(t, v)
  <2> DEFINE w == [u EXCEPT ![s].netif_up = TRUE]
  <2>1. w \in [Slot -> Tap] /\ SameIds(u, w)
    <3> HIDE DEF u
    <3> QED
      BY <1>1, Zenon DEF Tap, SameIds
  <2>2. v = [w EXCEPT ![s].next = head]
    OBVIOUS
  <2> HIDE DEF w, v, u
  <2> QED
    BY <1>1, <2>1, <2>2 DEF Tap, SameIds
<1>3. Distinct(u, c) /\ Distinct(v, c)
  BY <1>1, <1>2, DistinctSame
<1>4. AddOutcome(u, head, s) \in {"ok"} \cup Endless
  BY DEF AddOutcome, Endless
<1>5. \/ Configured(t, c, s, ip4) = Registry(v, c, s, "ok")
      \/ Configured(t, c, s, ip4) = Registry(u, c, head, AddOutcome(u, head, s))
      \/ Configured(t, c, s, ip4) = Registry(u, c, head, "ok")
  BY DEF Configured
<1> HIDE DEF u, v
<1> QED
  BY <1>1, <1>2, <1>3, <1>4, <1>5 DEF Registry, RegistryOK

LEMMA ConfigUpTyped ==
    ASSUME TypeOK, TapsDistinct, NEW n \in Network, NEW ip4 \in BOOLEAN
    PROVE  RegistryOK(ConfigUp(n, ip4))
<1>0. /\ taps \in [Slot -> Tap] /\ count \in 0 .. MaxTaps /\ head \in Slot \cup {Null}
      /\ Distinct(taps, count) /\ Live \subseteq Slot
  BY SlotFacts DEF TypeOK, TapsDistinct, Distinct, Live, Slot
<1>1. CASE tap_find(n) # {}
  <2> DEFINE s == CHOOSE x \in tap_find(n) : TRUE
  <2>1. s \in Slot
    BY <1>0, <1>1 DEF tap_find
  <2>2. ConfigUp(n, ip4) = Configured(taps, count, s, ip4)
    BY <1>1 DEF ConfigUp
  <2> HIDE DEF s
  <2> QED
    BY <1>0, <2>1, <2>2, ConfiguredTyped
<1>2. CASE tap_find(n) = {} /\ count < MaxTaps
  <2> DEFINE c == count + 1
             t == [taps EXCEPT ![c] = Zero(n)]
  <2>1. c \in Slot /\ c \in 0 .. MaxTaps
    BY <1>0, <1>2, SlotFacts DEF Slot
  <2>2. t \in [Slot -> Tap]
    BY <1>0, <2>1 DEF Zero, Tap
  <2>3. /\ t[c].nwid = n
        /\ \A s \in Live : t[s] = taps[s] /\ taps[s].nwid # n
    BY <1>0, <1>2, <2>1 DEF Zero, tap_find, Live
  <2>4. 1 .. c = Live \cup {c}
    BY <1>0 DEF Live
  <2>5. ConfigUp(n, ip4) = Configured(t, c, c, ip4)
    BY <1>2 DEF ConfigUp
  <2> HIDE DEF c, t
  <2>6. Distinct(t, c)
    BY <1>0, <2>3, <2>4 DEF Distinct, Live
  <2> QED
    BY <1>0, <2>1, <2>2, <2>5, <2>6, ConfiguredTyped
<1>3. CASE tap_find(n) = {} /\ ~(count < MaxTaps)
  BY <1>0, <1>3 DEF ConfigUp, Registry, RegistryOK
<1> QED
  BY <1>1, <1>2, <1>3

LEMMA TeardownTyped ==
    ASSUME TypeOK, TapsDistinct, NEW s \in Slot
    PROVE  RegistryOK(Teardown(s)) /\ Teardown(s).count = count /\ SameIds(taps, Teardown(s).taps)
<1>0. /\ taps \in [Slot -> Tap] /\ count \in 0 .. MaxTaps /\ head \in Slot \cup {Null}
      /\ Distinct(taps, count)
  BY DEF TypeOK, TapsDistinct, Distinct, Live
<1> DEFINE t == Unlinked(taps, head, s)
           h == NewHead(taps, head, s)
           u == [t EXCEPT ![s].netif_up = FALSE, ![s].has_ip4 = FALSE]
<1>1. t \in [Slot -> Tap] /\ SameIds(taps, t) /\ h \in Slot \cup {Null}
  BY <1>0, UnlinkedTyped
<1>2. \/ Teardown(s) = Registry(taps, count, head, "ok")
      \/ Teardown(s) = Registry(taps, count, head, "cycle")
      \/ Teardown(s) = Registry(u, count, h, "ok")
  BY DEF Teardown
<1> HIDE DEF t, h
<1>3. u \in [Slot -> Tap] /\ SameIds(taps, u)
  BY <1>1, Zenon DEF Tap, SameIds
<1> HIDE DEF u
<1>4. Distinct(u, count) /\ SameIds(taps, taps)
  BY <1>0, <1>3, DistinctSame DEF SameIds
<1> QED
  BY <1>0, <1>1, <1>2, <1>3, <1>4 DEF Registry, RegistryOK, Endless

\* The copy of the last tap over the removed one keeps the networks distinct.
LEMMA ConfigDownTyped ==
    ASSUME TypeOK, TapsDistinct, NEW n \in Network
    PROVE  RegistryOK(ConfigDown(n))
<1>0. /\ taps \in [Slot -> Tap] /\ count \in 0 .. MaxTaps /\ head \in Slot \cup {Null}
      /\ Distinct(taps, count) /\ Live \subseteq Slot
  BY SlotFacts DEF TypeOK, TapsDistinct, Distinct, Live, Slot
<1>1. CASE tap_find(n) = {}
  BY <1>0, <1>1 DEF ConfigDown, Registry, RegistryOK
<1>2. CASE tap_find(n) # {}
  <2> DEFINE s == CHOOSE x \in tap_find(n) : TRUE
             r == Teardown(s)
             t == [r.taps EXCEPT ![s] = r.taps[count]]
  <2>1. s \in Live /\ s \in Slot
    BY <1>0, <1>2 DEF tap_find
  <2>2. RegistryOK(r) /\ r.count = count
    BY <2>1, TeardownTyped
  <2>3. ConfigDown(n) = r \/ ConfigDown(n) = Registry(t, count - 1, r.head, "ok")
    BY <1>2 DEF ConfigDown
  <2> HIDE DEF s, r
  <2>4. count \in Slot /\ count - 1 \in 0 .. MaxTaps /\ 1 .. (count - 1) = Live \ {count}
    BY <1>0, <2>1, SlotFacts DEF Live, Slot
  <2>5. t \in [Slot -> Tap]
    BY <2>1, <2>2, <2>4 DEF RegistryOK
  <2>6. \A q \in Slot : t[q] = IF q = s THEN r.taps[count] ELSE r.taps[q]
    BY <2>1, <2>2, <2>4 DEF RegistryOK
  <2>7. Distinct(r.taps, count) /\ count \in Live
    BY <1>0, <2>1, <2>2 DEF RegistryOK, Live
  <2> HIDE DEF t
  <2>8. Distinct(t, count - 1)
    BY <1>0, <2>1, <2>4, <2>6, <2>7 DEF Distinct, Live
  <2> QED
    BY <2>2, <2>3, <2>4, <2>5, <2>8 DEF Registry, RegistryOK
<1> QED
  BY <1>1, <1>2

\* A step that leaves registry r.
LEMMA Left ==
    ASSUME NEW r, RegistryOK(r), taps' = r.taps, count' = r.count, head' = r.head
    PROVE  /\ taps' \in [Slot -> Tap] /\ count' \in 0 .. MaxTaps /\ head' \in Slot \cup {Null}
           /\ TapsDistinct'
BY DEF RegistryOK, TapsDistinct, Distinct, Live

LEMMA AfterTyped ==
    ASSUME NEW pc, NEW r, RegistryOK(r)
    PROVE  After(pc, r) \in {pc} \cup Endless
BY DEF After, RegistryOK

\* What the calls of cb_vnet_config, and the taps torn down by xnet_stop, do.
LEMMA Calls ==
    ASSUME TypeOK, TapsDistinct,
           \/ \E n \in Network : xnet_join(n) \/ xnet_leave(n) \/ DeleteDown(n)
           \/ \E n \in Network : \E ip4 \in BOOLEAN : cb_vnet_config(n, ip4)
           \/ TeardownTap
    PROVE  \E r : /\ RegistryOK(r) /\ taps' = r.taps /\ count' = r.count /\ head' = r.head
                 /\ \/ apc' = After(apc, r) /\ spc' = spc
                    \/ spc' = After(spc, r) /\ apc' = apc
                 /\ joined' \subseteq Network
                 /\ UNCHANGED <<running, online, node, lwipInited, lwipUp, tcpip>>
<1>1. ASSUME NEW n \in Network, xnet_join(n) PROVE \E ip4 \in BOOLEAN :
        LET r == ConfigUp(n, ip4) IN
        /\ taps' = r.taps /\ count' = r.count /\ head' = r.head
        /\ apc' = After(apc, r) /\ spc' = spc /\ joined' \subseteq Network
        /\ UNCHANGED <<running, online, node, lwipInited, lwipUp, tcpip>>
  BY <1>1 DEF xnet_join, Callback, TypeOK, stackVars
<1>2. ASSUME NEW n \in Network, xnet_leave(n) PROVE
        LET r == ConfigDown(n) IN
        /\ taps' = r.taps /\ count' = r.count /\ head' = r.head
        /\ apc' = After(apc, r) /\ spc' = spc /\ joined' \subseteq Network
        /\ UNCHANGED <<running, online, node, lwipInited, lwipUp, tcpip>>
  BY <1>2 DEF xnet_leave, Callback, TypeOK, stackVars
<1>3. ASSUME NEW n \in Network, DeleteDown(n) PROVE
        LET r == ConfigDown(n) IN
        /\ taps' = r.taps /\ count' = r.count /\ head' = r.head
        /\ spc' = After(spc, r) /\ apc' = apc /\ joined' \subseteq Network
        /\ UNCHANGED <<running, online, node, lwipInited, lwipUp, tcpip>>
  BY <1>3 DEF DeleteDown, Callback, TypeOK, stackVars
<1>4. ASSUME NEW n \in Network, NEW ip4 \in BOOLEAN, cb_vnet_config(n, ip4) PROVE
        LET r == ConfigUp(n, ip4) IN
        /\ taps' = r.taps /\ count' = r.count /\ head' = r.head
        /\ spc' = After(spc, r) /\ apc' = apc /\ joined' \subseteq Network
        /\ UNCHANGED <<running, online, node, lwipInited, lwipUp, tcpip>>
  BY <1>4 DEF cb_vnet_config, Callback, TypeOK, stackVars
<1>5. CASE TeardownTap
  <2>0. PICK s \in Up : LET r == Teardown(s) IN
          /\ taps' = r.taps /\ count' = r.count /\ head' = r.head
          /\ apc' = After(apc, r)
    BY <1>5 DEF TeardownTap
  <2> DEFINE r == Teardown(s)
  <2>1. s \in Slot
    BY SlotFacts DEF Up, Live, Slot, TypeOK
  <2>2. RegistryOK(r)
    BY <2>1, TeardownTyped
  <2>3. /\ taps' = r.taps /\ count' = r.count /\ head' = r.head
        /\ apc' = After(apc, r) /\ spc' = spc /\ joined' \subseteq Network
        /\ UNCHANGED <<running, online, node, lwipInited, lwipUp, tcpip>>
    BY <1>5, <2>0 DEF TeardownTap, TypeOK, stackVars
  <2> HIDE DEF r
  <2> QED
    BY <2>2, <2>3
<1> QED
  BY <1>1, <1>2, <1>3, <1>4, <1>5, ConfigUpTyped, ConfigDownTyped

\* The types, and at most one tap for each network.
THEOREM OneTapPerNetwork == Spec => [](TypeOK /\ TapsDistinct)
<1>1. Init => TypeOK /\ TapsDistinct
  <2> SUFFICES ASSUME Init PROVE TypeOK /\ TapsDistinct
    OBVIOUS
  <2>1. taps \in [Slot -> Tap] /\ Live = {} /\ count \in 0 .. MaxTaps
    BY SlotFacts DEF Init, Zero, Tap, Live
  <2> QED
    BY <2>1, Zenon DEF Init, TypeOK, TapsDistinct
<1>2. TypeOK /\ TapsDistinct /\ [Next]_vars => TypeOK' /\ TapsDistinct'
  <2> SUFFICES ASSUME TypeOK, TapsDistinct, [Next]_vars PROVE TypeOK' /\ TapsDistinct'
    OBVIOUS
  <2>1. ASSUME NEW r, RegistryOK(r), taps' = r.taps, count' = r.count, head' = r.head,
               \/ apc' = After(apc, r) /\ spc' = spc
               \/ spc' = After(spc, r) /\ apc' = apc,
               joined' \subseteq Network,
               UNCHANGED <<running, online, node, lwipInited, lwipUp, tcpip>>
        PROVE  TypeOK' /\ TapsDistinct'
    <3>1. apc' \in {apc} \cup Endless /\ spc' \in {spc} \cup Endless
      BY <2>1, AfterTyped
    <3>2. taps' \in [Slot -> Tap] /\ count' \in 0 .. MaxTaps /\ head' \in Slot \cup {Null}
          /\ TapsDistinct'
      BY <2>1, Left
    <3> QED
      BY <2>1, <3>1, <3>2 DEF TypeOK
  <2>2. UNCHANGED tapVars => TapsDistinct'
    BY DEF tapVars, TapsDistinct, Live
  <2>3. CASE xnet_start \/ xnet_lwip_init \/ tcpip_init_done \/ CreateThread \/ xnet_stop \/ JoinThread
    BY <2>2, <2>3, Zenon DEF TypeOK, tapVars, stackVars, xnet_start, xnet_lwip_init,
          tcpip_init_done, CreateThread, xnet_stop, JoinThread
  <2>4. CASE NodeNew \/ cb_event \/ LoopExit \/ DeleteDone \/ Clear
    BY <2>2, <2>4, Zenon DEF TypeOK, tapVars, stackVars, NodeNew, cb_event, LoopExit, DeleteDone, Clear
  <2>5. CASE TornDown
    <3>1. count' = 0 /\ Live' = {}
      BY <2>5 DEF TornDown, Live
    <3> QED
      BY <2>5, <3>1, SlotFacts DEF TornDown, TypeOK, TapsDistinct, stackVars
  <2>6. CASE \/ TeardownTap
             \/ \E n \in Network : xnet_join(n) \/ xnet_leave(n) \/ DeleteDown(n)
             \/ \E n \in Network : \E ip4 \in BOOLEAN : cb_vnet_config(n, ip4)
    BY <2>6, <2>1, Calls
  <2>7. CASE UNCHANGED vars
    BY <2>2, <2>7 DEF vars, TypeOK, tapVars, stackVars
  <2> QED
    BY <2>3, <2>4, <2>5, <2>6, <2>7 DEF Next, Client, Svc
<1> QED
  BY <1>1, <1>2, PTL DEF Spec

\* A call of cb_vnet_config ends where it began or in an endless search.
LEMMA LifecycleCalls ==
    ASSUME TypeOK, TapsDistinct, LifecycleOK,
           \/ \E n \in Network : xnet_join(n) \/ xnet_leave(n) \/ DeleteDown(n)
           \/ \E n \in Network : \E ip4 \in BOOLEAN : cb_vnet_config(n, ip4)
           \/ TeardownTap
    PROVE  LifecycleOK'
<1>1. PICK r : /\ RegistryOK(r)
               /\ \/ apc' = After(apc, r) /\ spc' = spc
                  \/ spc' = After(spc, r) /\ apc' = apc
               /\ UNCHANGED <<running, online, node, lwipInited, lwipUp, tcpip>>
  BY Calls
<1>2. \/ apc' \in {apc} \cup Endless /\ spc' = spc
      \/ spc' \in {spc} \cup Endless /\ apc' = apc
  BY <1>1, AfterTyped
<1>3. \/ apc = "idle" /\ node /\ spc' = spc /\ ~Hung
      \/ apc = "teardown" /\ spc' = spc
      \/ spc \in {"loop", "delete"} /\ apc' = apc /\ ~Hung
  BY DEF xnet_join, xnet_leave, DeleteDown, cb_vnet_config, TeardownTap, Callback
<1> QED
  BY <1>1, <1>2, <1>3 DEF LifecycleOK, NodeThread, Endless, Hung, TypeOK

\* Where the threads are, in every reachable state.
THEOREM Lifecycle == Spec => []LifecycleOK
<1>1. Init => LifecycleOK
  BY DEF Init, LifecycleOK, NodeThread, Endless
<1>2. TypeOK /\ TapsDistinct /\ LifecycleOK /\ [Next]_vars => LifecycleOK'
  <2> SUFFICES ASSUME TypeOK, TapsDistinct, LifecycleOK, [Next]_vars PROVE LifecycleOK'
    OBVIOUS
  <2>1. CASE \/ TeardownTap
             \/ \E n \in Network : xnet_join(n) \/ xnet_leave(n) \/ DeleteDown(n)
             \/ \E n \in Network : \E ip4 \in BOOLEAN : cb_vnet_config(n, ip4)
    BY <2>1, LifecycleCalls
  <2> USE DEF LifecycleOK, NodeThread, Endless, tapVars, stackVars
  <2>2. CASE xnet_start
    BY <2>2 DEF xnet_start
  <2>3. CASE xnet_lwip_init
    BY <2>3 DEF xnet_lwip_init
  <2>4. CASE tcpip_init_done
    BY <2>4 DEF tcpip_init_done
  <2>5. CASE CreateThread
    <3>1. /\ running /\ spc \in {"none", "exited"} /\ ~node /\ ~online /\ ~(count > 0)
          /\ apc' = "idle" /\ node' = node /\ online' = online /\ count' = count
      BY <2>5 DEF CreateThread
    <3>2. CASE spc' = "new" /\ running' = running
      BY <3>1, <3>2
    <3>3. CASE running' = FALSE /\ spc' = spc
      BY <3>1, <3>3
    <3> QED
      BY <2>5, <3>2, <3>3, Zenon DEF CreateThread
  <2>6. CASE xnet_stop
    BY <2>6 DEF xnet_stop
  <2>7. CASE JoinThread
    BY <2>7 DEF JoinThread
  <2>8. CASE TornDown
    BY <2>8 DEF TornDown
  <2>9. CASE NodeNew
    BY <2>9 DEF NodeNew
  <2>10. CASE cb_event \/ LoopExit
    BY <2>10 DEF cb_event, LoopExit
  <2>11. CASE DeleteDone
    BY <2>11 DEF DeleteDone, TypeOK
  <2>12. CASE Clear
    BY <2>12 DEF Clear
  <2>13. CASE UNCHANGED vars
    BY <2>13 DEF vars
  <2> QED
    BY <2>1, <2>2, <2>3, <2>4, <2>5, <2>6, <2>7, <2>8, <2>9, <2>10, <2>11, <2>12, <2>13
       DEF Next, Client, Svc
<1> QED
  BY <1>1, <1>2, OneTapPerNetwork, PTL DEF Spec

\* xnet_running implies a node; without one an idle client sees no tap.
THEOREM NodeBehindTheFlags == Spec => []NoLeftovers
<1>1. TypeOK /\ LifecycleOK => NoLeftovers
  BY DEF TypeOK, LifecycleOK, NoLeftovers, NodeThread, Endless
<1> QED
  BY <1>1, OneTapPerNetwork, Lifecycle, PTL

-----------------------------------------------------------------------------
(* Frames.                                                                 *)

\* Frames leave the state of the service alone.
LEMMA StepOfService == [FrameNext]_allVars => [Next]_vars
BY DEF FrameNext, allVars, ServiceStep, Among, Next, cb_vframe, xnet_tap_rx, Input,
       netif_linkoutput, Output

\* The service with frames implements the service without: what is proved of Spec
\* holds of FrameSpec.
THEOREM FramesImplementService == FrameSpec => Spec
<1>1. FrameInit => Init
  BY DEF FrameInit
<1> QED
  BY <1>1, StepOfService, PTL DEF FrameSpec, Spec

\* Only svc_thread's loop delivers frames, so its node is there and nobody has
\* joined the thread; and a node that was seen is there while g_running is set.
FrameInv ==
    /\ FrameTypeOK
    /\ rx # Null => spc = "loop"
    /\ FrameInOwnTap
    /\ tx /\ ~halted => running /\ node

\* xnet_join does not move a tap, nor take its interface down.
LEMMA JoinKeepsTap ==
    ASSUME TypeOK, TapsDistinct, NEW n \in Network, NEW ip4 \in BOOLEAN, NEW s \in Live
    PROVE  LET r == ConfigUp(n, ip4) IN
           /\ s \in 1 .. r.count
           /\ r.taps[s].nwid = taps[s].nwid
           /\ taps[s].netif_up => r.taps[s].netif_up
<1>0. /\ taps \in [Slot -> Tap] /\ count \in 0 .. MaxTaps /\ head \in Slot \cup {Null}
      /\ Live \subseteq Slot /\ s \in Slot
  BY SlotFacts DEF TypeOK, Live, Slot
<1>1. ASSUME NEW t \in [Slot -> Tap], NEW c, NEW q \in Slot
      PROVE  LET r == Configured(t, c, q, ip4) IN
             /\ r.count = c
             /\ r.taps[s].nwid = t[s].nwid
             /\ t[s].netif_up => r.taps[s].netif_up
  <2> DEFINE u == [t EXCEPT ![q].has_ip4 = t[q].has_ip4 \/ ip4]
             w == [u EXCEPT ![q].netif_up = TRUE]
             v == [w EXCEPT ![q].next = head]
  <2>1. u \in [Slot -> Tap] /\ u[s].nwid = t[s].nwid /\ u[s].netif_up = t[s].netif_up
    BY <1>0 DEF Tap
  <2>2. \/ Configured(t, c, q, ip4) = Registry(v, c, q, "ok")
        \/ Configured(t, c, q, ip4) = Registry(u, c, head, AddOutcome(u, head, q))
        \/ Configured(t, c, q, ip4) = Registry(u, c, head, "ok")
    BY DEF Configured
  <2> HIDE DEF u
  <2>3. w \in [Slot -> Tap] /\ w[s].nwid = u[s].nwid /\ (u[s].netif_up => w[s].netif_up)
    BY <1>0, <2>1, Zenon DEF Tap
  <2> HIDE DEF w
  <2>4. v[s].nwid = w[s].nwid /\ (w[s].netif_up => v[s].netif_up)
    BY <1>0, <2>3 DEF Tap
  <2> HIDE DEF v
  <2>5. v[s].nwid = t[s].nwid /\ (t[s].netif_up => v[s].netif_up)
    BY <2>1, <2>3, <2>4, Zenon
  <2>6. CASE Configured(t, c, q, ip4) = Registry(v, c, q, "ok")
    BY <2>5, <2>6 DEF Registry
  <2>7. CASE \E h, out : Configured(t, c, q, ip4) = Registry(u, c, h, out)
    BY <2>1, <2>7 DEF Registry
  <2> QED
    BY <2>2, <2>6, <2>7, Zenon
<1>2. CASE tap_find(n) # {}
  <2> DEFINE q == CHOOSE x \in tap_find(n) : TRUE
  <2>1. q \in Slot
    BY <1>0, <1>2 DEF tap_find
  <2>2. ConfigUp(n, ip4) = Configured(taps, count, q, ip4)
    BY <1>2 DEF ConfigUp
  <2> HIDE DEF q
  <2> QED
    BY <1>0, <1>1, <2>1, <2>2 DEF Live
<1>3. CASE tap_find(n) = {} /\ count < MaxTaps
  <2> DEFINE c == count + 1
             t == [taps EXCEPT ![c] = Zero(n)]
  <2>1. c \in Slot /\ s # c /\ s \in 1 .. c
    BY <1>0, <1>3, SlotFacts DEF Slot, Live
  <2>2. t \in [Slot -> Tap] /\ t[s] = taps[s]
    BY <1>0, <2>1 DEF Zero, Tap
  <2>3. ConfigUp(n, ip4) = Configured(t, c, c, ip4)
    BY <1>3 DEF ConfigUp
  <2> HIDE DEF c, t
  <2> QED
    BY <1>1, <2>1, <2>2, <2>3
<1>4. CASE tap_find(n) = {} /\ ~(count < MaxTaps)
  BY <1>4 DEF ConfigUp, Registry, Live
<1> QED
  BY <1>2, <1>3, <1>4

\* A step of the service keeps the frame that is being delivered in its tap.
LEMMA ServiceKeepsFrame ==
    ASSUME TypeOK, TapsDistinct, LifecycleOK, FrameInv, ServiceStep
    PROVE  (rx # Null => spc = "loop")' /\ FrameInOwnTap'
<1> SUFFICES ASSUME rx # Null PROVE spc' = "loop" /\ FrameInOwnTap'
  BY DEF ServiceStep, Among, FrameInOwnTap
<1>0. /\ spc = "loop" /\ rx' = rx /\ (Client \/ tcpip_init_done)
      /\ ~moved' => ~moved /\ joined \subseteq joined'
  BY Zenon DEF FrameInv, ServiceStep, Among
<1>1. apc \notin {"wait", "teardown"} /\ ~JoinThread
  BY <1>0 DEF LifecycleOK, JoinThread
<1>2. CASE xnet_start \/ xnet_lwip_init \/ xnet_stop \/ tcpip_init_done
  <2>1. UNCHANGED <<taps, count>> /\ spc' = spc
    BY <1>2 DEF xnet_start, xnet_lwip_init, xnet_stop, tcpip_init_done, tapVars
  <2> QED
    BY <1>0, <2>1 DEF FrameInv, FrameInOwnTap, tap_find, Live
<1>3. ASSUME NEW n \in Network, xnet_leave(n) PROVE spc' = "loop" /\ moved'
  BY <1>0, <1>3 DEF xnet_leave
<1>4. ASSUME NEW n \in Network, xnet_join(n) PROVE spc' = "loop" /\ FrameInOwnTap'
  <2>1. PICK ip4 \in BOOLEAN : taps' = ConfigUp(n, ip4).taps /\ count' = ConfigUp(n, ip4).count
    BY <1>4 DEF xnet_join, Callback
  <2>2. spc' = "loop"
    BY <1>0, <1>4 DEF xnet_join
  <2>3. SUFFICES ASSUME ~moved' PROVE FrameInOwnTap'
    BY <2>2 DEF FrameInOwnTap
  <2>4. /\ rx.slot \in Live /\ taps[rx.slot].nwid = rx.nwid
        /\ rx.up => taps[rx.slot].netif_up
    BY <1>0, <2>3 DEF FrameInv, FrameInOwnTap, tap_find
  <2>5. /\ rx.slot \in 1 .. count' /\ taps'[rx.slot].nwid = taps[rx.slot].nwid
        /\ taps[rx.slot].netif_up => taps'[rx.slot].netif_up
    BY <2>1, <2>4, JoinKeepsTap
  <2> QED
    BY <1>0, <2>4, <2>5 DEF FrameInOwnTap, tap_find, Live
<1> QED
  BY <1>0, <1>1, <1>2, <1>3, <1>4
     DEF Client, CreateThread, TeardownTap, TornDown, FrameInOwnTap

\* Nothing deletes the node while g_running is set.
LEMMA ServiceKeepsNode ==
    ASSUME TypeOK, LifecycleOK, FrameInv, ServiceStep
    PROVE  (tx /\ ~halted => running /\ node)'
<1> SUFFICES ASSUME tx', ~halted' PROVE running' /\ node'
  OBVIOUS
<1>1. tx /\ ~halted /\ running' /\ running /\ node
  BY Zenon DEF ServiceStep, Among, FrameInv, FrameTypeOK, TypeOK
<1>2. ~DeleteDone
  BY <1>1 DEF DeleteDone, LifecycleOK, TypeOK, Endless
<1>3. Client \/ tcpip_init_done \/ Svc
  BY Zenon DEF ServiceStep, Among
<1>4. Client => node' = node
  BY DEF Client, xnet_start, xnet_lwip_init, CreateThread, xnet_stop, JoinThread,
         TeardownTap, TornDown, xnet_join, xnet_leave
<1>5. Svc => node'
  BY <1>1, <1>2, Zenon DEF Svc, NodeNew, cb_event, LoopExit, Clear, DeleteDown, cb_vnet_config
<1> QED
  BY <1>1, <1>3, <1>4, <1>5, Zenon DEF tcpip_init_done

LEMMA ServiceKeepsFrameTypes ==
    ASSUME FrameTypeOK, ServiceStep
    PROVE  FrameTypeOK'
BY Zenon DEF ServiceStep, Among, FrameTypeOK

\* Where a frame is on its way in or out, relative to the threads of the service.
LEMMA FrameInvariant == FrameSpec => []FrameInv
<1>1. FrameInit => FrameInv
  BY Zenon DEF FrameInit, FrameInv, FrameTypeOK, FrameInOwnTap
<1>2. /\ TypeOK /\ TapsDistinct /\ LifecycleOK /\ FrameInv /\ [FrameNext]_allVars
      => FrameInv'
  <2> SUFFICES ASSUME TypeOK, TapsDistinct, LifecycleOK, FrameInv, [FrameNext]_allVars
               PROVE  FrameInv'
    OBVIOUS
  <2>1. CASE ServiceStep
    BY <2>1, ServiceKeepsFrame, ServiceKeepsNode, ServiceKeepsFrameTypes DEF FrameInv
  <2>2. ASSUME NEW n \in Network, cb_vframe(n) PROVE FrameInv'
    <3>1. PICK s \in tap_find(n) : rx' = [nwid |-> n, slot |-> s, up |-> FALSE]
      BY <2>2, Zenon DEF cb_vframe
    <3>2. s \in Slot /\ rx' \in Frame /\ tap_find(n)' = tap_find(n)
      BY <2>2, <3>1, SlotFacts
         DEF tap_find, Live, Slot, Frame, TypeOK, cb_vframe, vars, tapVars
    <3> QED
      BY <2>2, <3>1, <3>2
         DEF cb_vframe, vars, FrameInv, FrameTypeOK, FrameInOwnTap
  <2> USE DEF FrameInv, FrameTypeOK, FrameInOwnTap, tap_find, Live, vars, tapVars
  <2>3. CASE xnet_tap_rx
    BY <2>3, Zenon DEF xnet_tap_rx, Frame
  <2>4. CASE Input
    BY <2>4, Zenon DEF Input
  <2>5. CASE netif_linkoutput
    BY <2>5, Zenon DEF netif_linkoutput, TypeOK
  <2>6. CASE Output
    BY <2>6, Zenon DEF Output
  <2>7. CASE UNCHANGED allVars
    BY <2>7 DEF allVars, frameVars
  <2> QED
    BY <2>1, <2>2, <2>3, <2>4, <2>5, <2>6, <2>7 DEF FrameNext
<1> QED
  BY <1>1, <1>2, FramesImplementService, OneTapPerNetwork, Lifecycle, PTL DEF FrameSpec

\* A frame from the node meets the interface of its own network, unless a network
\* was left while svc_thread carried it.
THEOREM FramesMeetTheirTap == FrameSpec => []FrameInOwnTap
<1>1. FrameInv => FrameInOwnTap
  BY DEF FrameInv
<1> QED
  BY <1>1, FrameInvariant, PTL

\* A frame from lwIP meets a node that is there: netif_linkoutput tests g_node and
\* uses it without a lock, and nothing deletes the node in between unless the
\* service was stopped.
THEOREM OutputMeetsNode == FrameSpec => []OutputHasNode
<1>1. FrameInv => OutputHasNode
  BY DEF FrameInv, OutputHasNode
<1> QED
  BY <1>1, FrameInvariant, PTL

=============================================================================
