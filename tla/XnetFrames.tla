----------------------------- MODULE XnetFrames -----------------------------
(***************************************************************************)
(* The frames of the native library: cb_vframe and xnet_tap_rx carry a     *)
(* frame from the node to a tap's interface on svc_thread, netif_linkoutput*)
(* carries one from lwIP to the node on a thread that holds the core lock. *)
(* Neither takes g_lock, so the registry and the node may change between   *)
(* the steps of both.                                                      *)
(*                                                                         *)
(* What a frame holds is left out.  lwIP takes a frame under the core lock *)
(* (LWIP_TCPIP_CORE_LOCKING_INPUT).                                        *)
(***************************************************************************)
EXTENDS XnetService

VARIABLES
    rx,      \* the frame svc_thread is delivering: its network, the tap found for
             \* it, and whether the tap's interface was seen up
    tx,      \* netif_linkoutput has seen a node and is about to use g_node
    moved,   \* history: a network was left since the tap was found
    halted  \* history: g_running was clear at some time since the node was seen

frameVars == <<rx, tx, moved, halted>>
allVars == <<vars, frameVars>>

Frame == [nwid : Network, slot : Slot, up : BOOLEAN]

FrameInit == Init /\ rx = Null /\ tx = FALSE /\ moved = FALSE /\ halted = FALSE

-----------------------------------------------------------------------------
(* Steps of the service.  svc_thread does nothing else while it delivers,  *)
(* and interfaces come and go under the core lock.                         *)

UpNetworks == {taps[s].nwid : s \in Up}

LocksCore == UpNetworks' # UpNetworks \/ (~Hung /\ Hung')

\* Step A of the service among the frames.
Among(A) ==
    /\ A
    /\ tx => ~LocksCore
    /\ moved' = (rx # Null /\ (moved \/ ~(joined \subseteq joined')))
    /\ halted' = (tx /\ (halted \/ ~running'))
    /\ UNCHANGED <<rx, tx>>

ServiceStep ==
    \/ Among(Client \/ tcpip_init_done)
    \/ rx = Null /\ Among(Svc)

-----------------------------------------------------------------------------
(* From the node to lwIP.                                                  *)

cb_vframe(n) ==
    /\ spc = "loop" /\ rx = Null /\ n \in joined
    /\ \E s \in tap_find(n) : rx' = [nwid |-> n, slot |-> s, up |-> FALSE]
    /\ UNCHANGED <<vars, tx, moved, halted>>

\* The test at the beginning of xnet_tap_rx, and pbuf_alloc, which may fail.
xnet_tap_rx ==
    /\ rx # Null /\ ~rx.up
    /\ \/ rx' = Null
       \/ taps[rx.slot].netif_up /\ lwipUp /\ rx' = [rx EXCEPT !.up = TRUE]
    /\ moved' = (rx' # Null /\ moved)
    /\ UNCHANGED <<vars, tx, halted>>

\* tap->netif.input, which waits for the core lock.
Input ==
    /\ rx # Null /\ rx.up
    /\ ~tx /\ ~Hung
    /\ rx' = Null /\ moved' = FALSE
    /\ UNCHANGED <<vars, tx, halted>>

-----------------------------------------------------------------------------
(* From lwIP to the node.                                                  *)

\* The test of g_node, for a frame of an interface that is listed.
netif_linkoutput ==
    /\ ~tx /\ ~Hung /\ head # Null /\ node
    /\ tx' = TRUE /\ halted' = ~running
    /\ UNCHANGED <<vars, rx, moved>>

\* ZT_Node_processVirtualNetworkFrame with g_node as it is now.
Output ==
    /\ tx
    /\ tx' = FALSE /\ halted' = FALSE
    /\ UNCHANGED <<vars, rx, moved>>

-----------------------------------------------------------------------------

FrameNext ==
    \/ ServiceStep
    \/ \E n \in Network : cb_vframe(n)
    \/ xnet_tap_rx \/ Input \/ netif_linkoutput \/ Output

FrameSpec == FrameInit /\ [][FrameNext]_allVars

\* As FairSpec.  The core lock and the time of svc_thread are contended, hence
\* strong fairness: whoever waits for the lock gets it some time, and between the
\* frames of one iteration and the next svc_thread tests g_running.
FrameFairSpec ==
    /\ FrameSpec
    /\ WF_allVars(Among(tcpip_init_done))
    /\ SF_allVars(Among(xnet_lwip_init \/ CreateThread \/ JoinThread \/ TeardownTap \/ TornDown))
    /\ SF_allVars(rx = Null /\ Among(NodeNew \/ LoopExit \/ DeleteDone \/ Clear))
    /\ WF_allVars(xnet_tap_rx)
    /\ SF_allVars(Input)
    /\ WF_allVars(Output)

-----------------------------------------------------------------------------
(* Properties.                                                             *)

FrameTypeOK ==
    /\ rx \in Frame \cup {Null}
    /\ {tx, moved, halted} \subseteq BOOLEAN

\* A frame goes to the interface of its own network, and to one that is still
\* there, unless a network was left in the meantime: joins never move the tap that
\* was found, and xnet_stop takes no tap down before svc_thread has ended.
FrameInOwnTap ==
    rx # Null /\ ~moved =>
        /\ rx.slot \in tap_find(rx.nwid)
        /\ rx.up => taps[rx.slot].netif_up

\* The node that netif_linkoutput has seen is there when it is used, unless the
\* service was stopped before or in the meantime: nothing else deletes a node, also
\* not a failed start.
OutputHasNode == tx /\ ~halted => node
=============================================================================
