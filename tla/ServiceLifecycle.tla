-------------------------- MODULE ServiceLifecycle --------------------------
(***************************************************************************)
(* ZeroTierOneService: how its threads are started and stopped.            *)
(*                                                                         *)
(* onStartCommand runs on the main thread.  stopZeroTier runs, without a   *)
(* lock, on whichever thread calls it: the main thread (onDestroy,         *)
(* onRevoke), the event bus thread the user interface stops the service    *)
(* from, and, through shutdown, the UDP thread or the service thread when  *)
(* the node reports an error.  updateTunnelConfig runs on a thread of the  *)
(* bus whenever the node delivers a new network configuration.             *)
(*                                                                         *)
(* A step ends where a thread has tested a field it is about to use, and   *)
(* where it waits: there another thread may clear the field.  The tether   *)
(* services are those of TetherServices; the multicast scanners, which run *)
(* only before Android 10, are left out.                                   *)
(***************************************************************************)
EXTENDS Naturals, FiniteSets

CONSTANTS
    Udp, Svc, Tun,  \* threads: UdpCom.run, the service's run, the TUN reader
    Worker,         \* threads of the event bus that run updateTunnelConfig
    Main, Bus,      \* the main thread, the bus thread of the user interface
    MaxCalls,       \* bound: calls of start, stop and update in progress at once
    Null

Loop == Udp \cup Svc \cup Tun
Caller == {Main, Bus} \cup Udp \cup Svc
Thread == Loop \cup Worker \cup {Main, Bus}

ASSUME ThreadAssumption ==
    /\ Main # Bus /\ Null \notin Thread
    /\ {Main, Bus} \cap (Loop \cup Worker) = {} /\ Worker \cap Loop = {}
    /\ Udp \cap Svc = {} /\ Udp \cap Tun = {} /\ Svc \cap Tun = {}

VARIABLES
    svrSocket, vpnSocket,  \* whether the service holds the socket, the tunnel
    node, tunTapAdapter,   \* whether the field is set
    udpThread, vpnThread,  \* the fields; a thread or Null
    receiveThread,         \* of the adapter
    registered,            \* on the event bus
    joined,                \* the node has joined the network
    config,                \* the network is in virtualNetworkConfigMap
    closed,                \* UDP threads whose socket is closed
    pc,                    \* where each thread is; "none" is a thread not running
    intr,                  \* threads with the interrupt flag set
    wait,                  \* the thread a join waits for
    nullRead,              \* a cleared field was used
    failed,                \* the service thread called shutdown
    twice,                 \* two calls of stopZeroTier overlapped
    startRaced,            \* a start overlapped a stop
    updateRaced            \* an update overlapped a stop or another update

network == <<registered, joined, config>>
fields == <<svrSocket, vpnSocket, node, tunTapAdapter, udpThread, vpnThread,
            receiveThread, network>>
history == <<nullRead, failed, twice, startRaced, updateRaced>>
vars == <<fields, closed, pc, intr, wait, history>>

StopPc == {"svr", "udpInt", "udpJoin", "tapInt", "tapJoin", "tapJoin2", "vpnInt",
           "vpnJoin", "sock", "close", "bus", "tail"}
StartPc == {"bind", "create", "spawn", "service", "receive"}

Alive == {t \in Loop : pc[t] # "none"}
Stopping == {t \in Caller : pc[t] \in StopPc}
Updating == {t \in Worker : pc[t] # "idle"}
Starting == pc[Main] \in StartPc
Calls == Stopping \cup Updating \cup (IF Starting THEN {Main} ELSE {})

\* Bound: calls that upset each other are followed to their end, and nothing new
\* begins after them.
MayBegin ==
    /\ Cardinality(Calls) < MaxCalls
    /\ ~(startRaced \/ updateRaced \/ (failed /\ twice))

\* In the loop, possibly inside a call of the node.
Running == {t \in Loop : pc[t] = "run"}

Init ==
    /\ svrSocket = FALSE /\ vpnSocket = FALSE /\ node = FALSE /\ tunTapAdapter = FALSE
    /\ udpThread = Null /\ vpnThread = Null /\ receiveThread = Null
    /\ registered = FALSE /\ joined = FALSE /\ config = FALSE /\ closed = {}
    /\ pc = [t \in Thread |-> IF t \in Loop THEN "none" ELSE "idle"]
    /\ intr = {} /\ wait = [t \in Caller \cup Worker |-> Null]
    /\ nullRead = FALSE /\ failed = FALSE /\ twice = FALSE
    /\ startRaced = FALSE /\ updateRaced = FALSE

Goto(t, where) == pc' = [pc EXCEPT ![t] = where]

\* A thread that has ended and that nobody waits for stands for a new one.
Fresh(S) == {t \in S : pc[t] = "none" /\ \A c \in Caller \cup Worker : wait[c] # t}

\* Where a call of t goes on when it is done: the loop that made it, or nothing.
Home(t) == IF t \in Udp \cup Svc THEN "loop" ELSE "idle"

\* Where an exception takes t: UdpCom.run ends on one, the service's run logs it
\* and loops, the bus and the callers on the main thread let the call go.
Thrown(t) == IF t \in Udp THEN "none" ELSE Home(t)

NullPointer(t) ==
    /\ Goto(t, Thrown(t))
    /\ nullRead' = TRUE
    /\ UNCHANGED <<fields, closed, intr, wait, failed, twice, startRaced, updateRaced>>

-----------------------------------------------------------------------------
(* onStartCommand, from the check of the network on.                       *)

onStartCommand ==
    /\ pc[Main] = "idle" /\ MayBegin
    /\ registered' = TRUE
    /\ \E usable \in BOOLEAN :
          IF usable THEN Goto(Main, "bind") /\ startRaced' = (Stopping # {})
          ELSE UNCHANGED <<pc, startRaced>>
    /\ UNCHANGED <<svrSocket, vpnSocket, node, tunTapAdapter, udpThread, vpnThread,
                   receiveThread, joined, config, closed, intr, wait, nullRead, failed,
                   twice, updateRaced>>

\* The field is set before bind, which may fail.
Bind ==
    /\ pc[Main] = "bind"
    /\ svrSocket' = TRUE
    /\ \E ok \in BOOLEAN : (ok \/ ~svrSocket) /\ Goto(Main, IF ok THEN "create" ELSE "idle")
    /\ UNCHANGED <<vpnSocket, node, tunTapAdapter, udpThread, vpnThread, receiveThread,
                   network, closed, intr, wait, history>>

\* A node that fails to initialise stays in the field.
CreateNode ==
    /\ pc[Main] = "create"
    /\ IF node THEN Goto(Main, "service") /\ UNCHANGED <<node, tunTapAdapter, receiveThread>>
       ELSE /\ node' = TRUE /\ tunTapAdapter' = TRUE /\ receiveThread' = Null
            /\ \E ok \in BOOLEAN : Goto(Main, IF ok THEN "spawn" ELSE "idle")
    /\ UNCHANGED <<svrSocket, vpnSocket, udpThread, vpnThread, network, closed, intr,
                   wait, history>>

\* The thread has the socket the field held when UdpCom was made.
StartUdp ==
    /\ pc[Main] = "spawn"
    /\ \E u \in Fresh(Udp) :
          /\ udpThread' = u
          /\ pc' = [pc EXCEPT ![Main] = "service", ![u] = "run"]
          /\ intr' = intr \ {u}
          /\ closed' = IF svrSocket THEN closed \ {u} ELSE closed \cup {u}
    /\ UNCHANGED <<svrSocket, vpnSocket, node, tunTapAdapter, vpnThread, receiveThread,
                   network, wait, history>>

StartService ==
    /\ pc[Main] = "service"
    /\ IF vpnThread # Null THEN Goto(Main, "receive") /\ UNCHANGED <<vpnThread, intr>>
       ELSE \E s \in Fresh(Svc) :
               /\ vpnThread' = s
               /\ pc' = [pc EXCEPT ![Main] = "receive", ![s] = "enter"]
               /\ intr' = intr \ {s}
    /\ UNCHANGED <<svrSocket, vpnSocket, node, tunTapAdapter, udpThread, receiveThread,
                   network, closed, wait, history>>

\* start() on a thread that has ended throws, and so does a missing thread: both
\* are caught, and the command gives up without joinNetwork.
RestartUdp ==
    /\ pc[Main] = "receive"
    /\ joined' = (joined \/ (udpThread \in Alive /\ node))
    /\ Goto(Main, "idle")
    /\ UNCHANGED <<svrSocket, vpnSocket, node, tunTapAdapter, udpThread, vpnThread,
                   receiveThread, registered, config, closed, intr, wait, history>>

-----------------------------------------------------------------------------
(* stopZeroTier by thread t.                                               *)

\* A call of stopZeroTier begins, and what it overlaps.
Enter(t) ==
    /\ MayBegin
    /\ Goto(t, "svr")
    /\ twice' = (twice \/ Stopping \ {t} # {})
    /\ startRaced' = Starting /\ updateRaced' = (Updating # {})

\* onDestroy, onRevoke, StopEvent and the stops of the user interface.
stopZeroTier(t) ==
    /\ t \in {Main, Bus} /\ pc[t] = "idle"
    /\ Enter(t)
    /\ UNCHANGED <<fields, closed, intr, wait, nullRead, failed>>

\* node.leave drops the configuration; the service stops when no network is left.
leaveNetwork ==
    /\ pc[Bus] = "idle" /\ node
    /\ \E last \in BOOLEAN :
          IF last THEN Enter(Bus)
          ELSE UNCHANGED <<pc, twice, startRaced, updateRaced>>
    /\ joined' = FALSE /\ config' = FALSE
    /\ UNCHANGED <<svrSocket, vpnSocket, node, tunTapAdapter, udpThread, vpnThread,
                   receiveThread, registered, closed, intr, wait, nullRead, failed>>

\* Where stopZeroTier goes on at its tests "the field is set and its thread is
\* alive", for the service thread and, before it, the adapter.
AtVpnSkips == "sock"  \* mutant: the service thread is left alone

AtVpn == IF vpnThread \in Alive THEN "vpnInt" ELSE "sock"
AtTap == IF tunTapAdapter /\ receiveThread \in Alive THEN "tapInt" ELSE AtVpn

\* Mutant: the field keeps the closed socket.
CloseSocketKeeps(t) ==
    /\ pc[t] = "svr"
    /\ closed' = IF svrSocket THEN closed \cup Udp ELSE closed
    /\ Goto(t, IF udpThread \in Alive THEN "udpInt" ELSE AtTap)
    /\ UNCHANGED <<fields, intr, wait, history>>

CloseSocket(t) ==
    /\ pc[t] = "svr"
    /\ svrSocket' = FALSE
    /\ closed' = IF svrSocket THEN closed \cup Udp ELSE closed
    /\ Goto(t, IF udpThread \in Alive THEN "udpInt" ELSE AtTap)
    /\ UNCHANGED <<vpnSocket, node, tunTapAdapter, udpThread, vpnThread, receiveThread,
                   network, intr, wait, history>>

\* Mutant: interrupts every thread but itself.
InterruptOthers(t, u, next) ==
    /\ intr' = IF u \in Alive \ {t} THEN intr \cup {u} ELSE intr
    /\ wait' = [wait EXCEPT ![t] = u]
    /\ Goto(t, next)

Interrupt(t, u, next) ==
    /\ intr' = IF u \in Alive THEN intr \cup {u} ELSE intr
    /\ wait' = [wait EXCEPT ![t] = u]
    /\ Goto(t, next)

\* join returns when the thread has ended; the flag of the waiting thread ends it
\* as well, and is cleared.
Joined(t) ==
    \/ wait[t] \notin Alive /\ UNCHANGED intr
    \/ wait[t] \in Alive /\ t \in intr /\ intr' = intr \ {t}

InterruptUdp(t) ==
    /\ pc[t] = "udpInt"
    /\ \/ udpThread = Null /\ NullPointer(t)
       \/ /\ udpThread # Null /\ Interrupt(t, udpThread, "udpJoin")
          /\ UNCHANGED <<fields, closed, history>>

JoinUdp(t) ==
    /\ pc[t] = "udpJoin" /\ Joined(t)
    /\ udpThread' = Null
    /\ wait' = [wait EXCEPT ![t] = Null]
    /\ Goto(t, AtTap)
    /\ UNCHANGED <<svrSocket, vpnSocket, node, tunTapAdapter, vpnThread, receiveThread,
                   network, closed, history>>

\* TunTapAdapter.interrupt and join, also called by updateTunnelConfig: the field
\* receiveThread is read again for the second join.
InterruptTap(t) ==
    /\ pc[t] = "tapInt"
    /\ \/ ~tunTapAdapter /\ NullPointer(t)
       \/ /\ tunTapAdapter /\ receiveThread # Null
          /\ Interrupt(t, receiveThread, "tapJoin")
          /\ UNCHANGED <<fields, closed, history>>
       \/ /\ tunTapAdapter /\ receiveThread = Null
          /\ NullPointer(t)

JoinTap(t) ==
    /\ pc[t] = "tapJoin" /\ Joined(t)
    /\ \/ /\ tunTapAdapter /\ receiveThread # Null
          /\ wait' = [wait EXCEPT ![t] = receiveThread]
          /\ Goto(t, "tapJoin2")
          /\ UNCHANGED nullRead
       \/ /\ ~tunTapAdapter \/ receiveThread = Null
          /\ wait' = [wait EXCEPT ![t] = Null]
          /\ Goto(t, Thrown(t))
          /\ nullRead' = TRUE
    /\ UNCHANGED <<fields, closed, failed, twice, startRaced, updateRaced>>

\* Mutant: updateTunnelConfig clears the field as well.
JoinTapAgainClears(t) ==
    /\ pc[t] = "tapJoin2" /\ Joined(t)
    /\ wait' = [wait EXCEPT ![t] = Null]
    /\ Goto(t, IF t \in Worker THEN "reset" ELSE AtVpn)
    /\ tunTapAdapter' = FALSE
    /\ UNCHANGED <<svrSocket, vpnSocket, node, udpThread, vpnThread, receiveThread,
                   network, closed, history>>

\* Only stopZeroTier clears the field.
JoinTapAgain(t) ==
    /\ pc[t] = "tapJoin2" /\ Joined(t)
    /\ wait' = [wait EXCEPT ![t] = Null]
    /\ IF t \in Worker THEN Goto(t, "reset") /\ UNCHANGED tunTapAdapter
       ELSE Goto(t, AtVpn) /\ tunTapAdapter' = FALSE
    /\ UNCHANGED <<svrSocket, vpnSocket, node, udpThread, vpnThread, receiveThread,
                   network, closed, history>>

InterruptService(t) ==
    /\ pc[t] = "vpnInt"
    /\ \/ vpnThread = Null /\ NullPointer(t)
       \/ /\ vpnThread # Null /\ Interrupt(t, vpnThread, "vpnJoin")
          /\ UNCHANGED <<fields, closed, history>>

\* Mutant: the node is closed without waiting for the service thread.
JoinServiceAtOnce(t) ==
    /\ pc[t] = "vpnJoin" /\ UNCHANGED intr
    /\ vpnThread' = Null
    /\ wait' = [wait EXCEPT ![t] = Null]
    /\ Goto(t, "sock")
    /\ UNCHANGED <<svrSocket, vpnSocket, node, tunTapAdapter, udpThread, receiveThread,
                   network, closed, history>>

JoinService(t) ==
    /\ pc[t] = "vpnJoin" /\ Joined(t)
    /\ vpnThread' = Null
    /\ wait' = [wait EXCEPT ![t] = Null]
    /\ Goto(t, "sock")
    /\ UNCHANGED <<svrSocket, vpnSocket, node, tunTapAdapter, udpThread, receiveThread,
                   network, closed, history>>

\* Closes the tunnel and looks at the node; at "tail" the callers of stopZeroTier
\* close it once more.
CloseTunnel(t) ==
    /\ pc[t] \in {"sock", "tail"}
    /\ vpnSocket' = FALSE
    /\ Goto(t, IF pc[t] = "tail" THEN Home(t) ELSE IF node THEN "close" ELSE "bus")
    /\ UNCHANGED <<svrSocket, node, tunTapAdapter, udpThread, vpnThread, receiveThread,
                   network, closed, intr, wait, history>>

\* The configuration goes with the node if it calls back for the network then.
CloseNode(t) ==
    /\ pc[t] = "close"
    /\ \/ ~node /\ NullPointer(t)
       \/ /\ node /\ node' = FALSE /\ joined' = FALSE
          /\ \E c \in {FALSE, config} : config' = c
          /\ Goto(t, "bus")
          /\ UNCHANGED <<svrSocket, vpnSocket, tunTapAdapter, udpThread, vpnThread,
                         receiveThread, registered, closed, intr, wait, history>>

\* StopEvent and the user interface call stopZeroTier alone.
Unregister(t) ==
    /\ pc[t] = "bus"
    /\ registered' = FALSE
    /\ \/ Goto(t, "tail")
       \/ t \in {Main, Bus} /\ Goto(t, "idle")
    /\ UNCHANGED <<svrSocket, vpnSocket, node, tunTapAdapter, udpThread, vpnThread,
                   receiveThread, joined, config, closed, intr, wait, history>>

stop(t) ==
    \/ CloseSocket(t) \/ InterruptUdp(t) \/ JoinUdp(t)
    \/ InterruptService(t) \/ JoinService(t)
    \/ CloseTunnel(t) \/ CloseNode(t) \/ Unregister(t)

tap(t) == InterruptTap(t) \/ JoinTap(t) \/ JoinTapAgain(t)

-----------------------------------------------------------------------------
(* The threads' loops.                                                     *)

Ends(t) ==
    /\ Goto(t, "none")
    /\ intr' = intr \ {t}
    /\ UNCHANGED <<fields, closed, wait, history>>

\* run reads the node before its loop, outside any try.
EnterRun(s) ==
    /\ pc[s] = "enter"
    /\ IF node THEN Goto(s, "run") /\ UNCHANGED nullRead
       ELSE Goto(s, "none") /\ nullRead' = TRUE
    /\ UNCHANGED <<fields, closed, intr, wait, failed, twice, startRaced, updateRaced>>

\* A set flag ends every loop, at its test or in sleep; a closed socket ends
\* UdpCom.run, and so does an error of the receive call other than its timeout.
LoopEnds(t) ==
    /\ pc[t] \in {"run", "loop"}
    /\ t \in intr \cup closed
    /\ Ends(t)

ReceiveFails(u) ==
    /\ pc[u] = "run" /\ u \notin intr \cup closed
    /\ Ends(u)

\* The service's run goes on after a shutdown of its own.  Without a node it
\* catches its own exception and tries again at once, which changes nothing.
RunAgain(s) ==
    /\ pc[s] = "loop" /\ s \notin intr /\ node
    /\ Goto(s, "run")
    /\ UNCHANGED <<fields, closed, intr, wait, history>>

\* processWirePacket or processBackgroundTasks reports an error.
shutdown(t) ==
    /\ pc[t] = "run"
    /\ Enter(t)
    /\ failed' = (failed \/ t \in Svc)
    /\ UNCHANGED <<fields, closed, intr, wait, nullRead>>

-----------------------------------------------------------------------------
(* updateTunnelConfig.                                                     *)

\* The node, called by u, reports a changed configuration; the event is handled
\* by another thread if the service is on the bus.
onNetworkConfigurationUpdated(u) ==
    /\ pc[u] = "run" /\ joined /\ MayBegin
    /\ config' = TRUE
    /\ \E w \in Worker :
          /\ pc[w] = "idle"
          /\ IF registered
             THEN Goto(w, "update") /\ updateRaced' = (Stopping \cup Updating # {})
             ELSE UNCHANGED <<pc, updateRaced>>
    /\ UNCHANGED <<svrSocket, vpnSocket, node, tunTapAdapter, udpThread, vpnThread,
                   receiveThread, registered, joined, closed, intr, wait, nullRead,
                   failed, twice, startRaced>>

updateTunnelConfig(w) ==
    /\ pc[w] = "update"
    /\ Goto(w, IF config THEN "restart" ELSE "idle")
    /\ UNCHANGED <<fields, closed, intr, wait, history>>

TestTap(w) ==
    /\ pc[w] = "restart"
    /\ \/ ~tunTapAdapter /\ NullPointer(w)
       \/ /\ tunTapAdapter
          /\ Goto(w, IF receiveThread \in Alive THEN "tapInt" ELSE "reset")
          /\ UNCHANGED <<fields, closed, intr, wait, history>>

\* clearRouteMap, and the tunnel is closed.
Reset(w) ==
    /\ pc[w] = "reset"
    /\ \/ ~tunTapAdapter /\ NullPointer(w)
       \/ /\ tunTapAdapter /\ vpnSocket' = FALSE
          /\ Goto(w, "establish")
          /\ UNCHANGED <<svrSocket, node, tunTapAdapter, udpThread, vpnThread,
                         receiveThread, network, closed, intr, wait, history>>

\* The routes may be refused, or the permission for the tunnel withdrawn.
Establish(w) ==
    /\ pc[w] = "establish"
    /\ \E ok \in BOOLEAN :
          /\ vpnSocket' = (vpnSocket \/ ok)
          /\ Goto(w, IF ok THEN "begin" ELSE "idle")
    /\ UNCHANGED <<svrSocket, node, tunTapAdapter, udpThread, vpnThread, receiveThread,
                   network, closed, intr, wait, history>>

\* The streams, the adapter's fields and startThreads.
StartThreads(w) ==
    /\ pc[w] = "begin"
    /\ \/ ~(tunTapAdapter /\ vpnSocket) /\ NullPointer(w)
       \/ /\ tunTapAdapter /\ vpnSocket
          /\ \E t \in Fresh(Tun) :
                /\ receiveThread' = t
                /\ pc' = [pc EXCEPT ![w] = "finish", ![t] = "run"]
                /\ intr' = intr \ {t}
          /\ UNCHANGED <<svrSocket, vpnSocket, node, tunTapAdapter, udpThread, vpnThread,
                         network, closed, wait, history>>

\* The routes are read from the adapter again, for the tether services.
Finish(w) ==
    /\ pc[w] = "finish"
    /\ \/ ~tunTapAdapter /\ NullPointer(w)
       \/ /\ Goto(w, "idle")
          /\ UNCHANGED <<fields, closed, intr, wait, history>>

update(w) ==
    \/ updateTunnelConfig(w) \/ TestTap(w) \/ Reset(w) \/ Establish(w)
    \/ StartThreads(w) \/ Finish(w)

-----------------------------------------------------------------------------

start == Bind \/ CreateNode \/ StartUdp \/ StartService \/ RestartUdp

\* What thread t does on its own; pc[t] enables one of these at a time.
Step(t) ==
    \/ t = Main /\ start
    \/ t \in Caller /\ stop(t)
    \/ t \in Caller \cup Worker /\ tap(t)
    \/ t \in Worker /\ update(t)
    \/ t \in Svc /\ EnterRun(t)
    \/ t \in Loop /\ LoopEnds(t)

Next ==
    \/ onStartCommand \/ leaveNetwork
    \/ \E t \in {Main, Bus} : stopZeroTier(t)
    \/ \E t \in Thread : Step(t)
    \/ \E u \in Udp : ReceiveFails(u)
    \/ \E s \in Svc : RunAgain(s)
    \/ \E t \in Udp \cup Svc : shutdown(t) \/ onNetworkConfigurationUpdated(t)

Spec == Init /\ [][Next]_vars

\* The threads keep running and the calls of the node return; nobody has to start
\* or stop the service, and the node need not call back or fail.
FairSpec == Spec /\ \A t \in Thread : WF_vars(Step(t))

-----------------------------------------------------------------------------

\* stopZeroTier closes the node only when no other thread is inside it: the
\* threads it has interrupted have ended by then.  Two stops may overlap; a stop
\* must not overlap a start or an update, and the service thread must not have
\* stopped the service itself.
CloseIsSafe ==
    ~(failed \/ startRaced \/ updateRaced) =>
        \A t \in Caller : pc[t] = "close" => Running = {}

\* The fields stopZeroTier and updateTunnelConfig use after testing them are
\* still set, unless two such calls overlapped or the service thread survived its
\* own shutdown.
NoNullRead == nullRead => failed \/ twice \/ startRaced \/ updateRaced

\* When the service has been stopped and no call is in progress it holds no
\* socket, its service thread has ended and a UDP thread still there finds its
\* socket closed, and without an update in the way there is no tunnel and no TUN
\* thread either; overlapping stops do not spoil this.
StoppedIsClean ==
    (~(failed \/ startRaced) /\ ~node /\ ~registered /\ Calls = {}) =>
        /\ ~svrSocket
        /\ ~updateRaced => ~vpnSocket /\ Tun \cap Alive = {}
        /\ Svc \cap Alive = {}
        /\ Udp \cap Alive \subseteq closed

\* Every call of stopZeroTier returns: when the UDP thread makes it and joins
\* itself, when the service thread does, and when two of UDP thread, main thread
\* and bus thread make it at once.  A stop that overlaps an update may wait for a
\* TUN thread nobody interrupts, and one that overlaps a shutdown of the service
\* thread for a thread that has lost its interrupt.
StopReturns ==
    \A t \in Caller :
        pc[t] \in StopPc ~>
            \/ pc[t] \notin StopPc
            \/ startRaced \/ updateRaced \/ (failed /\ twice)

\* Once stopped, all the threads end unless the service is started again.
ThreadsEnd ==
    (~node /\ Calls = {}) ~>
        (Alive = {} \/ node \/ Calls # {} \/ failed \/ startRaced \/ updateRaced)
=============================================================================
