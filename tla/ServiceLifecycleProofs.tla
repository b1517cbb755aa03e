----------------------- MODULE ServiceLifecycleProofs -----------------------
(* TLAPS proofs about ServiceLifecycle, for any number of threads of each  *)
(* kind and any number of calls in progress at once.                       *)
EXTENDS ServiceLifecycle, TLAPS

UpdatePc == {"update", "restart", "tapInt", "tapJoin", "tapJoin2", "reset", "establish",
             "begin", "finish"}

\* The labels of each thread's code.
LabelOf(t) ==
    IF t = Main THEN {"idle"} \cup StartPc \cup StopPc
    ELSE IF t = Bus THEN {"idle"} \cup StopPc
    ELSE IF t \in Udp THEN {"none", "run", "loop"} \cup StopPc
    ELSE IF t \in Svc THEN {"none", "enter", "run", "loop"} \cup StopPc
    ELSE IF t \in Tun THEN {"none", "run"}
    ELSE {"idle"} \cup UpdatePc
Label == UNION {LabelOf(t) : t \in Thread}

LabelsOK == pc \in [Thread -> Label] /\ \A t \in Thread : pc[t] \in LabelOf(t)

FieldsOK ==
    /\ svrSocket \in BOOLEAN /\ vpnSocket \in BOOLEAN
    /\ node \in BOOLEAN /\ tunTapAdapter \in BOOLEAN
    /\ udpThread \in Udp \cup {Null} /\ vpnThread \in Svc \cup {Null}
    /\ receiveThread \in Tun \cup {Null}
    /\ registered \in BOOLEAN /\ joined \in BOOLEAN /\ config \in BOOLEAN
    /\ closed \subseteq Udp /\ intr \subseteq Loop
    /\ wait \in [Caller \cup Worker -> Loop \cup {Null}]

HistoryOK ==
    /\ nullRead \in BOOLEAN /\ failed \in BOOLEAN /\ twice \in BOOLEAN
    /\ startRaced \in BOOLEAN /\ updateRaced \in BOOLEAN

\* Every field holds a value of its type, and every thread is at a label of its code.
TypeOK == LabelsOK /\ FieldsOK /\ HistoryOK

\* Where stopZeroTier has dealt with the UDP thread, the TUN thread, the service
\* thread and the tunnel, and where a UDP thread has not yet given up its field.
PastVpn == {"sock", "close", "bus", "tail"}
PastTap == {"vpnInt", "vpnJoin"} \cup PastVpn
PastUdp == {"tapInt", "tapJoin", "tapJoin2"} \cup PastTap
PastSock == {"close", "bus", "tail"}
PreUdp == {"run", "svr", "udpInt", "udpJoin"}

NoUdp == \A u \in Udp : pc[u] \notin PreUdp
NoSvc == \A s \in Svc : pc[s] = "none"
NoTun == \A t \in Tun : pc[t] = "none"

\* What holds however many stops and updates overlap, as long as no start overlaps a
\* stop and no service thread stops the service: the fields name the threads that
\* run, and a stop that is past a thread has seen it end.
StartPart ==
    /\ pc[Main] \in StartPc => registered /\ \A t \in Caller : pc[t] \notin StopPc
    /\ pc[Main] \in {"spawn", "service", "receive"} => node

UdpPart ==
    /\ \A u \in Udp : pc[u] \in PreUdp => u = udpThread
    /\ \A u \in Udp : pc[u] \in PastUdp => u # udpThread /\ u \notin intr
    /\ \A t \in Caller : pc[t] = "udpJoin" => udpThread \in {wait[t], Null}
    /\ \A t \in Caller : pc[t] \in PastUdp => NoUdp
    /\ ~node \/ pc[Main] = "spawn" => NoUdp

SvcPart ==
    /\ \A s \in Svc : pc[s] \in {"none", "enter", "run"}
    /\ \A s \in Svc : pc[s] # "none" => s = vpnThread
    /\ \A t \in Caller : pc[t] = "vpnJoin" => vpnThread \in {wait[t], Null}
    /\ \A t \in Caller : pc[t] \in PastVpn => NoSvc
    /\ ~node \/ ~registered => NoSvc

SocketPart ==
    /\ \A t \in Caller : pc[t] \in StopPc \ {"svr"} => ~svrSocket
    /\ ~registered => ~svrSocket

StopInv == ~(failed \/ startRaced) => StartPart /\ UdpPart /\ SvcPart /\ SocketPart

\* What holds besides if no update overlaps a stop or another update.
UpdatePart ==
    /\ \A w \in Worker : pc[w] # "idle" =>
          registered /\ node /\ \A t \in Caller : pc[t] \notin StopPc
    /\ \A v, w \in Worker : pc[v] # "idle" /\ pc[w] # "idle" => v = w

TunPart ==
    /\ \A t \in Tun : pc[t] # "none" => t = receiveThread /\ tunTapAdapter
    /\ \A w \in Worker : pc[w] \in {"reset", "establish", "begin"} => NoTun
    /\ \A t \in Caller \cup Worker :
          pc[t] \in {"tapJoin", "tapJoin2"} => wait[t] = receiveThread
    /\ \A t \in Caller : pc[t] \in PastTap => NoTun
    /\ ~registered \/ ~node => NoTun

TunnelPart ==
    /\ \A t \in Caller : pc[t] \in PastSock => ~vpnSocket
    /\ ~registered => ~vpnSocket

UpdateInv ==
    ~(failed \/ startRaced \/ updateRaced) => UpdatePart /\ TunPart /\ TunnelPart

\* What holds besides if no two stops overlap: what a thread has tested is still so
\* when it uses it.
TestPart ==
    /\ \A t, u \in Caller : pc[t] \in StopPc /\ pc[u] \in StopPc => t = u
    /\ \A t \in Caller :
          /\ pc[t] = "udpInt" => udpThread # Null
          /\ pc[t] = "vpnInt" => vpnThread # Null
          /\ pc[t] = "close" => node

AdapterPart ==
    /\ \A t \in Caller \cup Worker :
          pc[t] \in {"tapInt", "tapJoin"} => tunTapAdapter /\ receiveThread # Null
    /\ \A w \in Worker : pc[w] # "idle" => tunTapAdapter
    /\ \A w \in Worker : pc[w] = "begin" => vpnSocket
    /\ node /\ ~tunTapAdapter =>
          \E t \in Caller : pc[t] \in {"vpnInt", "vpnJoin", "sock", "close"}

FieldInv ==
    ~(failed \/ startRaced \/ updateRaced \/ twice) => ~nullRead /\ TestPart /\ AdapterPart

\* A UDP thread outlives the service's socket only to find it closed.
ClosedInv == ~svrSocket => \A u \in Udp : pc[u] # "none" => u \in closed

\* The kinds of thread are disjoint.
LEMMA ThreadFacts ==
    /\ Main \in Caller /\ Bus \in Caller /\ Main # Bus /\ Null \notin Thread
    /\ \A t \in Caller : t \in Thread /\ t \notin Tun /\ t \notin Worker
    /\ \A t \in Caller : t = Main \/ t = Bus \/ t \in Udp \/ t \in Svc
    /\ \A t \in Loop : t \in Thread /\ t \notin Worker /\ t # Main /\ t # Bus
    /\ \A t \in Loop : t \in Udp \/ t \in Svc \/ t \in Tun
    /\ \A u \in Udp : u \in Caller /\ u \in Loop /\ u \notin Svc
    /\ \A s \in Svc : s \in Caller /\ s \in Loop
    /\ \A t \in Tun : t \in Loop
    /\ \A w \in Worker : w \in Thread
BY ThreadAssumption DEF Thread, Loop, Caller

\* The labels of a thread by its kind.
LEMMA LabelFacts ==
    /\ {"idle"} \cup StartPc \cup StopPc = LabelOf(Main)
    /\ {"idle"} \cup StopPc = LabelOf(Bus)
    /\ \A u \in Udp : LabelOf(u) = {"none", "run", "loop"} \cup StopPc
    /\ \A s \in Svc : LabelOf(s) = {"none", "enter", "run", "loop"} \cup StopPc
    /\ \A t \in Tun : LabelOf(t) = {"none", "run"}
    /\ \A w \in Worker : LabelOf(w) = {"idle"} \cup UpdatePc
    /\ \A t \in Caller : StopPc \subseteq LabelOf(t) /\ Home(t) \in LabelOf(t)
    /\ \A t \in Caller \cup Worker : Thrown(t) \in LabelOf(t)
    /\ StopPc = {"svr", "udpInt", "udpJoin", "tapInt", "tapJoin", "tapJoin2", "vpnInt",
                 "vpnJoin", "sock", "close", "bus", "tail"}
    /\ StartPc = {"bind", "create", "spawn", "service", "receive"}
    /\ UpdatePc = {"update", "restart", "tapInt", "tapJoin", "tapJoin2", "reset",
                   "establish", "begin", "finish"}
<1> USE ThreadFacts
<1>1. /\ {"idle"} \cup StartPc \cup StopPc = LabelOf(Main)
      /\ {"idle"} \cup StopPc = LabelOf(Bus)
  BY DEF LabelOf
<1>2. /\ \A u \in Udp : LabelOf(u) = {"none", "run", "loop"} \cup StopPc
      /\ \A s \in Svc : LabelOf(s) = {"none", "enter", "run", "loop"} \cup StopPc
  BY DEF LabelOf
<1>3. /\ \A t \in Tun : LabelOf(t) = {"none", "run"}
      /\ \A w \in Worker : LabelOf(w) = {"idle"} \cup UpdatePc
  BY DEF LabelOf
<1>4. \A t \in Caller : StopPc \subseteq LabelOf(t) /\ Home(t) \in LabelOf(t)
  BY <1>1, <1>2 DEF Home
<1>5. \A t \in Caller \cup Worker : Thrown(t) \in LabelOf(t)
  BY <1>2, <1>3, <1>4 DEF Thrown, Home
<1> QED
  BY <1>1, <1>2, <1>3, <1>4, <1>5 DEF StopPc, StartPc, UpdatePc

\* A thread that moves within its code.
LEMMA LabelMove ==
    ASSUME LabelsOK, NEW t \in Thread, NEW l \in LabelOf(t), pc' = [pc EXCEPT ![t] = l]
    PROVE  LabelsOK'
<1>1. l \in Label /\ pc \in [Thread -> Label]
  BY DEF Label, LabelsOK
<1> QED
  BY <1>1 DEF LabelsOK

\* Two threads that move, one of them new.
LEMMA LabelMove2 ==
    ASSUME LabelsOK, NEW t \in Thread, NEW l \in LabelOf(t), NEW u \in Thread,
           NEW m \in LabelOf(u),
           pc' = [pc EXCEPT ![t] = l, ![u] = m]
    PROVE  LabelsOK'
<1>1. l \in Label /\ m \in Label /\ pc \in [Thread -> Label]
  BY DEF Label, LabelsOK
<1> QED
  BY <1>1 DEF LabelsOK

\* A stop that begins notices a start, an update and another stop in progress.
LEMMA EnterFacts ==
    ASSUME NEW t \in Caller, Enter(t)
    PROVE  /\ pc' = [pc EXCEPT ![t] = "svr"]
           /\ ~startRaced' => pc[Main] \notin StartPc
           /\ ~updateRaced' => \A w \in Worker : pc[w] = "idle"
           /\ ~twice' => \A u \in Caller : pc[u] \in StopPc => u = t
<1>1. pc' = [pc EXCEPT ![t] = "svr"]
  BY Zenon DEF Enter, Goto
<1>2. ~startRaced' => pc[Main] \notin StartPc
  BY Zenon DEF Enter, Starting
<1>3. ~updateRaced' => Updating = {}
  BY Zenon DEF Enter
<1>4. ~twice' => Stopping \ {t} = {}
  BY Zenon DEF Enter
<1> QED
  BY <1>1, <1>2, <1>3, <1>4 DEF Updating, Stopping

\* A join that stopZeroTier has reached past the UDP thread, and every join of
\* updateTunnelConfig, waits for its thread to end: nobody interrupts the caller.
LEMMA JoinWaits ==
    ASSUME TypeOK, UdpPart, SvcPart, NEW t \in Caller \cup Worker,
           pc[t] \in {"tapJoin", "tapJoin2", "vpnJoin"}, Joined(t)
    PROVE  wait[t] \notin Alive /\ UNCHANGED intr
<1>1. t \notin intr
  <2>1. CASE t \in Udp
    BY <2>1 DEF UdpPart, PastUdp, PastTap
  <2>2. CASE t \notin Udp
    <3>1. t \notin Svc
      BY DEF SvcPart
    <3> QED
      BY <2>2, <3>1, ThreadFacts DEF TypeOK, FieldsOK
  <2> QED
    BY <2>1, <2>2, Zenon
<1> QED
  BY <1>1 DEF Joined

\* A stop or an update alone finds the adapter and the TUN thread it has tested.
LEMMA AdapterPartStep ==
    ASSUME TypeOK, StartPart, UdpPart, SvcPart, UpdatePart, TunPart, TestPart,
           AdapterPart, ~startRaced', ~failed', ~updateRaced', ~twice', [Next]_vars
    PROVE  AdapterPart'
<1>0. /\ pc \in [Thread -> Label] /\ wait \in [Caller \cup Worker -> Loop \cup {Null}]
      /\ HistoryOK /\ FieldsOK
  BY DEF TypeOK, LabelsOK, FieldsOK
<1> USE <1>0, ThreadFacts DEF StartPart, UpdatePart, TestPart, AdapterPart, StopPc,
                              StartPc
<1>1. CASE \/ onStartCommand
           \/ leaveNetwork
           \/ \E t \in {Main, Bus} : stopZeroTier(t)
           \/ UNCHANGED vars
  BY <1>1, EnterFacts DEF onStartCommand, leaveNetwork, stopZeroTier, vars, Goto, fields,
                          network, history
<1>2. ASSUME NEW t \in Udp \cup Svc, shutdown(t) PROVE AdapterPart'
  <2>1. t \in Udp
    BY <1>2, Zenon DEF shutdown
  <2> QED
    BY <1>2, <2>1 DEF shutdown, Enter, Goto, fields, network
<1>3. ASSUME NEW u \in Udp \cup Svc, onNetworkConfigurationUpdated(u) PROVE AdapterPart'
  <2>1. node
    BY <1>3 DEF onNetworkConfigurationUpdated, UdpPart, SvcPart, NoUdp, NoSvc, PreUdp
  <2>2. PICK w \in Worker :
           IF registered
           THEN Goto(w, "update") /\ updateRaced' = (Stopping \cup Updating # {})
           ELSE UNCHANGED <<pc, updateRaced>>
    BY <1>3 DEF onNetworkConfigurationUpdated
  <2>3. UNCHANGED <<node, tunTapAdapter, receiveThread, vpnSocket>>
    BY <1>3 DEF onNetworkConfigurationUpdated
  <2>4. CASE ~registered
    BY <2>2, <2>3, <2>4
  <2>5. CASE registered
    <3>1. Stopping \cup Updating = {}
      BY <2>2, <2>5, Zenon
    <3>2. pc' = [pc EXCEPT ![w] = "update"]
      BY <2>2, <2>5 DEF Goto
    <3>3. tunTapAdapter
      BY <2>1, <3>1 DEF Stopping
    <3> QED
      BY <2>3, <3>2, <3>3
  <2> QED
    BY <2>4, <2>5, Zenon
<1>4. CASE start
  BY <1>4 DEF Bind, CreateNode, StartUdp, Fresh, StartService, RestartUdp, start, Goto,
              fields, network, history
<1>5. ASSUME NEW t \in Caller, CloseSocket(t) PROVE AdapterPart'
  BY <1>5 DEF CloseSocket, AtTap, AtVpn, Alive, Goto, network
<1>6. ASSUME NEW t \in Caller,
             InterruptUdp(t) \/ InterruptService(t) \/ JoinService(t) \/
             CloseTunnel(t) \/ Unregister(t)
      PROVE  AdapterPart'
  BY <1>6 DEF InterruptUdp, Interrupt, NullPointer, Thrown, Home, InterruptService,
              JoinService, Joined, CloseTunnel, Unregister, Goto, fields, network, history
<1>7. ASSUME NEW t \in Caller, JoinUdp(t) PROVE AdapterPart'
  BY <1>7 DEF JoinUdp, AtTap, AtVpn, Alive, Goto, network
<1>8. ASSUME NEW t \in Caller, CloseNode(t) PROVE AdapterPart'
  <2>1. node
    BY <1>8 DEF CloseNode
  <2>2. /\ node' = FALSE /\ pc[t] = "close" /\ pc' = [pc EXCEPT ![t] = "bus"]
        /\ UNCHANGED <<vpnSocket, tunTapAdapter, receiveThread>>
    BY <1>8, <2>1, Zenon DEF CloseNode, Goto
  <2> QED
    BY <2>2
<1>9. ASSUME NEW t \in Caller \cup Worker,
             InterruptTap(t) \/ JoinTap(t)
      PROVE  AdapterPart'
  BY <1>9 DEF InterruptTap, Interrupt, NullPointer, Thrown, Home, JoinTap, Joined, Goto,
              fields, network, history
<1>10. ASSUME NEW t \in Caller \cup Worker, JoinTapAgain(t) PROVE AdapterPart'
  BY <1>10 DEF JoinTapAgain, AtVpn, Alive, Goto, network
<1>11. ASSUME NEW w \in Worker,
              updateTunnelConfig(w) \/ Reset(w) \/ Establish(w) \/ StartThreads(w)
              \/ Finish(w)
       PROVE  AdapterPart'
  BY <1>11 DEF updateTunnelConfig, Reset, NullPointer, Thrown, Home, Establish,
               StartThreads, Fresh, Finish, Goto, fields, network, history
<1>12. ASSUME NEW w \in Worker, TestTap(w) PROVE AdapterPart'
  <2>1. CASE NullPointer(w)
    BY <1>12, <2>1 DEF TestTap, NullPointer, Thrown, Home, Goto, fields, network
  <2>2. CASE ~NullPointer(w)
    BY <1>12, <2>2 DEF TestTap, Goto, Alive, fields, network
  <2> QED
    BY <2>1, <2>2, Zenon
<1>13. CASE \/ \E s \in Svc : EnterRun(s)
            \/ \E t \in Loop : LoopEnds(t)
            \/ \E u \in Udp : ReceiveFails(u)
            \/ \E s \in Svc : RunAgain(s)
  BY <1>13 DEF EnterRun, LoopEnds, Ends, ReceiveFails, RunAgain, Goto, fields, network,
               history
<1> QED
  BY <1>1, <1>2, <1>3, <1>4, <1>5, <1>6, <1>7, <1>8, <1>9, <1>10, <1>11, <1>12,
     <1>13, Zenon
     DEF Next, Step, start, stop, tap, update

\* The adapter names the TUN thread that runs.
LEMMA TunPartStep ==
    ASSUME TypeOK, StartPart, UdpPart, SvcPart, UpdatePart, TunPart, ~startRaced',
           ~failed', ~updateRaced', [Next]_vars
    PROVE  TunPart'
<1>0. /\ pc \in [Thread -> Label] /\ wait \in [Caller \cup Worker -> Loop \cup {Null}]
      /\ HistoryOK /\ FieldsOK
  BY DEF TypeOK, LabelsOK, FieldsOK
<1> USE <1>0, ThreadFacts DEF StartPart, UpdatePart, TunPart, NoTun, PastTap, PastVpn,
                              StopPc, StartPc
<1>1. CASE \/ onStartCommand
           \/ leaveNetwork
           \/ \E t \in {Main, Bus} : stopZeroTier(t)
           \/ \E u \in Udp \cup Svc : onNetworkConfigurationUpdated(u)
           \/ UNCHANGED vars
  BY <1>1, EnterFacts DEF onStartCommand, leaveNetwork, stopZeroTier,
                          onNetworkConfigurationUpdated, vars, Goto, fields, network,
                          history
<1>2. ASSUME NEW t \in Udp \cup Svc, shutdown(t) PROVE TunPart'
  <2>1. t \in Udp
    BY <1>2, Zenon DEF shutdown
  <2> QED
    BY <1>2, <2>1 DEF shutdown, Enter, Goto, fields, network
<1>3. CASE start
  BY <1>3 DEF Bind, CreateNode, StartUdp, Fresh, StartService, RestartUdp, start, Goto,
              fields, network, history
<1>4. ASSUME NEW t \in Caller, CloseSocket(t) PROVE TunPart'
  <2>1. AtTap \in {"tapInt", "vpnInt", "sock"} /\ (AtTap # "tapInt" => NoTun)
    BY DEF AtTap, AtVpn, Alive
  <2> QED
    BY <1>4, <2>1 DEF CloseSocket, Goto, network
<1>5. ASSUME NEW t \in Caller,
             InterruptUdp(t) \/ InterruptService(t) \/ JoinService(t) \/
             CloseTunnel(t) \/ Unregister(t)
      PROVE  TunPart'
  BY <1>5 DEF InterruptUdp, Interrupt, NullPointer, Thrown, Home, InterruptService,
              JoinService, Joined, CloseTunnel, Unregister, Goto, fields, network, history
<1>6. ASSUME NEW t \in Caller, JoinUdp(t) PROVE TunPart'
  <2>1. AtTap \in {"tapInt", "vpnInt", "sock"} /\ (AtTap # "tapInt" => NoTun)
    BY DEF AtTap, AtVpn, Alive
  <2> QED
    BY <1>6, <2>1 DEF JoinUdp, Goto, network
<1>7. ASSUME NEW t \in Caller, CloseNode(t) PROVE TunPart'
  <2>1. CASE NullPointer(t)
    BY <1>7, <2>1 DEF CloseNode, NullPointer, Thrown, Home, Goto, fields, network, history
  <2>2. CASE ~NullPointer(t)
    <3>1. /\ node' = FALSE /\ pc[t] = "close" /\ pc' = [pc EXCEPT ![t] = "bus"]
          /\ UNCHANGED <<svrSocket, vpnSocket, tunTapAdapter, udpThread, vpnThread,
                         receiveThread, registered, intr, wait, history>>
      BY <1>7, <2>2, Zenon DEF CloseNode, Goto
    <3> QED
      BY <3>1
  <2> QED
    BY <2>1, <2>2, Zenon
<1>8. ASSUME NEW t \in Caller \cup Worker, InterruptTap(t) \/ JoinTap(t) PROVE TunPart'
  BY <1>8 DEF InterruptTap, Interrupt, NullPointer, Thrown, Home, JoinTap, Joined, Goto,
              fields, network, history
<1>9. ASSUME NEW t \in Caller \cup Worker, JoinTapAgain(t) PROVE TunPart'
  <2>1. wait[t] \notin Alive
    BY <1>9, JoinWaits DEF JoinTapAgain
  <2>2. NoTun
    BY <1>9, <2>1 DEF JoinTapAgain, Alive
  <2>3. AtVpn \in {"vpnInt", "sock"}
    BY DEF AtVpn
  <2> QED
    BY <1>9, <2>2, <2>3 DEF JoinTapAgain, Goto, network
<1>10. ASSUME NEW w \in Worker,
              updateTunnelConfig(w) \/ Reset(w) \/ Establish(w) \/ StartThreads(w)
              \/ Finish(w)
       PROVE  TunPart'
  BY <1>10 DEF updateTunnelConfig, Reset, NullPointer, Thrown, Home, Establish,
               StartThreads, Fresh, Finish, Goto, fields, network, history
<1>11. ASSUME NEW w \in Worker, TestTap(w) PROVE TunPart'
  <2>1. CASE NullPointer(w)
    BY <1>11, <2>1 DEF TestTap, NullPointer, Thrown, Home, Goto, fields, network
  <2>2. CASE ~NullPointer(w)
    BY <1>11, <2>2 DEF TestTap, Goto, Alive, fields, network
  <2> QED
    BY <2>1, <2>2, Zenon
<1>12. CASE \/ \E s \in Svc : EnterRun(s)
            \/ \E t \in Loop : LoopEnds(t)
            \/ \E u \in Udp : ReceiveFails(u)
            \/ \E s \in Svc : RunAgain(s)
  BY <1>12 DEF EnterRun, LoopEnds, Ends, ReceiveFails, RunAgain, Goto, fields, network,
               history
<1> QED
  BY <1>1, <1>2, <1>3, <1>4, <1>5, <1>6, <1>7, <1>8, <1>9, <1>10, <1>11, <1>12, Zenon
     DEF Next, Step, start, stop, tap, update

\* No update is in progress during a stop, nor when the service has left the bus or
\* the node is closed.
LEMMA UpdatePartStep ==
    ASSUME TypeOK, StartPart, UdpPart, SvcPart, UpdatePart, ~startRaced', ~failed',
           ~updateRaced', [Next]_vars
    PROVE  UpdatePart'
<1>0. /\ pc \in [Thread -> Label] /\ wait \in [Caller \cup Worker -> Loop \cup {Null}]
      /\ HistoryOK /\ FieldsOK
  BY DEF TypeOK, LabelsOK, FieldsOK
<1> USE <1>0, ThreadFacts, LabelFacts DEF StartPart, UpdatePart, StopPc, StartPc, UpdatePc
<1>1. CASE \/ onStartCommand
           \/ leaveNetwork
           \/ \E t \in {Main, Bus} : stopZeroTier(t)
           \/ \E t \in Udp \cup Svc : shutdown(t)
           \/ UNCHANGED vars
  BY <1>1, EnterFacts DEF onStartCommand, leaveNetwork, stopZeroTier, shutdown, vars,
                          Goto, fields, network, history
<1>2. ASSUME NEW u \in Udp \cup Svc, onNetworkConfigurationUpdated(u) PROVE UpdatePart'
  <2>1. node
    BY <1>2 DEF onNetworkConfigurationUpdated, UdpPart, SvcPart, NoUdp, NoSvc, PreUdp
  <2>2. PICK w \in Worker :
           /\ pc[w] = "idle"
           /\ IF registered
              THEN Goto(w, "update") /\ updateRaced' = (Stopping \cup Updating # {})
              ELSE UNCHANGED <<pc, updateRaced>>
    BY <1>2 DEF onNetworkConfigurationUpdated
  <2>3. UNCHANGED <<node, registered>>
    BY <1>2 DEF onNetworkConfigurationUpdated
  <2>4. CASE ~registered
    BY <2>2, <2>3, <2>4
  <2>5. CASE registered
    <3>1. Stopping \cup Updating = {}
      BY <2>2, <2>5, Zenon
    <3>2. /\ \A t \in Caller : pc[t] \notin StopPc
          /\ \A v \in Worker : pc[v] = "idle"
      BY <3>1 DEF Stopping, Updating
    <3>3. pc' = [pc EXCEPT ![w] = "update"]
      BY <2>2, <2>5 DEF Goto
    <3> QED
      BY <2>1, <2>3, <2>5, <3>2, <3>3
  <2> QED
    BY <2>4, <2>5, Zenon
<1>3. CASE start
  BY <1>3 DEF Bind, CreateNode, StartUdp, Fresh, StartService, RestartUdp, start, Goto,
              fields, network, history
<1>4. ASSUME NEW t \in Caller,
             CloseSocket(t) \/ InterruptUdp(t) \/ JoinUdp(t) \/ InterruptService(t)
             \/ JoinService(t) \/ CloseTunnel(t) \/ Unregister(t)
      PROVE  UpdatePart'
  BY <1>4 DEF CloseSocket, AtTap, AtVpn, InterruptUdp, Interrupt, NullPointer, Thrown,
              Home, JoinUdp, Joined, InterruptService, JoinService, CloseTunnel,
              Unregister, Goto, fields, network, history
<1>5. ASSUME NEW t \in Caller, CloseNode(t) PROVE UpdatePart'
  <2>1. CASE NullPointer(t)
    BY <1>5, <2>1 DEF CloseNode, NullPointer, Thrown, Home, Goto, fields, network, history
  <2>2. CASE ~NullPointer(t)
    <3>1. /\ node' = FALSE /\ pc[t] = "close" /\ pc' = [pc EXCEPT ![t] = "bus"]
          /\ UNCHANGED <<svrSocket, vpnSocket, tunTapAdapter, udpThread, vpnThread,
                         receiveThread, registered, intr, wait, history>>
      BY <1>5, <2>2, Zenon DEF CloseNode, Goto
    <3> QED
      BY <3>1
  <2> QED
    BY <2>1, <2>2, Zenon
<1>6. ASSUME NEW t \in Caller \cup Worker, tap(t) PROVE UpdatePart'
  BY <1>6 DEF InterruptTap, Interrupt, NullPointer, Thrown, Home, JoinTap, Joined,
              JoinTapAgain, AtVpn, tap, Goto, fields, network, history
<1>7. ASSUME NEW w \in Worker, update(w) PROVE UpdatePart'
  BY <1>7 DEF updateTunnelConfig, TestTap, NullPointer, Thrown, Home, Reset, Establish,
              StartThreads, Fresh, Finish, update, Goto, fields, network, history
<1>8. CASE \/ \E s \in Svc : EnterRun(s)
           \/ \E t \in Loop : LoopEnds(t)
           \/ \E u \in Udp : ReceiveFails(u)
           \/ \E s \in Svc : RunAgain(s)
  BY <1>8 DEF EnterRun, LoopEnds, Ends, ReceiveFails, RunAgain, Goto, fields, network,
              history
<1> QED
  BY <1>1, <1>2, <1>3, <1>4, <1>5, <1>6, <1>7, <1>8, Zenon
     DEF Next, Step, start, stop, tap, update

\* A UDP thread is in its field until it joins itself or has ended.
LEMMA UdpPartStep ==
    ASSUME TypeOK, StartPart, UdpPart, SvcPart, ~startRaced', ~failed', [Next]_vars
    PROVE  UdpPart'
<1>0. /\ pc \in [Thread -> Label] /\ wait \in [Caller \cup Worker -> Loop \cup {Null}]
      /\ HistoryOK /\ FieldsOK
  BY DEF TypeOK, LabelsOK, FieldsOK
<1> USE <1>0, ThreadFacts DEF StartPart, UdpPart, NoUdp, PreUdp, PastUdp, PastTap,
                              PastVpn, StopPc, StartPc
<1>1. CASE \/ onStartCommand
           \/ leaveNetwork
           \/ \E t \in {Main, Bus} : stopZeroTier(t)
           \/ \E u \in Udp \cup Svc : onNetworkConfigurationUpdated(u)
           \/ UNCHANGED vars
  BY <1>1, EnterFacts DEF onStartCommand, leaveNetwork, stopZeroTier,
                          onNetworkConfigurationUpdated, vars, Goto, fields, network,
                          history
<1>2. ASSUME NEW t \in Udp \cup Svc, shutdown(t) PROVE UdpPart'
  <2>1. t \in Udp
    BY <1>2, Zenon DEF shutdown
  <2> QED
    BY <1>2, <2>1 DEF shutdown, Enter, Goto, fields, network
<1>3. CASE start
  BY <1>3 DEF Bind, CreateNode, StartUdp, Fresh, StartService, RestartUdp, start, Goto,
              fields, network, history
<1>4. ASSUME NEW t \in Caller, CloseSocket(t) PROVE UdpPart'
  BY <1>4 DEF CloseSocket, AtTap, AtVpn, Alive, Goto, network
<1>5. ASSUME NEW t \in Caller,
             InterruptUdp(t) \/ JoinService(t) \/ CloseTunnel(t) \/ Unregister(t)
      PROVE  UdpPart'
  BY <1>5 DEF InterruptUdp, Interrupt, NullPointer, Thrown, Home, JoinService, Joined,
              CloseTunnel, Unregister, Goto, fields, network, history
<1>6. ASSUME NEW t \in Caller, JoinUdp(t) PROVE UdpPart'
  <2>1. /\ t \in Udp => t = udpThread /\ wait[t] = t /\ intr' = intr \ {t}
        /\ t \notin Udp => wait[t] \notin Alive
    BY <1>6 DEF JoinUdp, Joined, Alive, SvcPart, FieldsOK
  <2>2. \A u \in Udp : pc[u] \in PreUdp => u = t
    BY <1>6, <2>1 DEF JoinUdp, Alive
  <2>3. \A u \in Udp : u \notin intr => u \notin intr'
    BY <1>6 DEF JoinUdp, Joined
  <2>4. AtTap \in {"tapInt", "vpnInt", "sock"}
    BY DEF AtTap, AtVpn
  <2> HIDE DEF UdpPart
  <2>5. /\ pc' = [pc EXCEPT ![t] = AtTap] /\ udpThread' = Null /\ node' = node
        /\ wait' = [wait EXCEPT ![t] = Null] /\ pc[t] = "udpJoin"
    BY <1>6 DEF JoinUdp, Goto
  <2>6. NoUdp'
    BY <2>2, <2>4, <2>5
  <2> QED
    BY <2>1, <2>3, <2>4, <2>5, <2>6 DEF UdpPart
<1>7. ASSUME NEW t \in Caller, InterruptService(t) PROVE UdpPart'
  <2>1. CASE NullPointer(t)
    BY <1>7, <2>1 DEF InterruptService, NullPointer, Thrown, Home, Goto, fields, network
  <2>2. CASE ~NullPointer(t)
    BY <1>7, <2>2 DEF InterruptService, Interrupt, FieldsOK, Goto, fields, network
  <2> QED
    BY <2>1, <2>2, Zenon
<1>8. ASSUME NEW t \in Caller, CloseNode(t) PROVE UdpPart'
  <2>1. CASE NullPointer(t)
    BY <1>8, <2>1 DEF CloseNode, NullPointer, Thrown, Home, Goto, fields, network, history
  <2>2. CASE ~NullPointer(t)
    <3>1. /\ node' = FALSE /\ pc[t] = "close" /\ pc' = [pc EXCEPT ![t] = "bus"]
          /\ UNCHANGED <<svrSocket, vpnSocket, tunTapAdapter, udpThread, vpnThread,
                         receiveThread, registered, intr, wait, history>>
      BY <1>8, <2>2, Zenon DEF CloseNode, Goto
    <3> QED
      BY <3>1
  <2> QED
    BY <2>1, <2>2, Zenon
<1>9. ASSUME NEW t \in Caller \cup Worker, InterruptTap(t) PROVE UdpPart'
  <2>1. CASE NullPointer(t)
    BY <1>9, <2>1 DEF InterruptTap, NullPointer, Thrown, Home, Goto, fields, network
  <2>2. CASE ~NullPointer(t)
    BY <1>9, <2>2 DEF InterruptTap, Interrupt, FieldsOK, Goto, fields, network
  <2> QED
    BY <2>1, <2>2, Zenon
<1>10. ASSUME NEW t \in Caller \cup Worker, JoinTap(t) \/ JoinTapAgain(t) PROVE UdpPart'
  BY <1>10 DEF JoinTap, Joined, Thrown, Home, JoinTapAgain, AtVpn, Goto, fields, network,
               history
<1>11. ASSUME NEW w \in Worker, update(w) PROVE UdpPart'
  BY <1>11 DEF updateTunnelConfig, TestTap, NullPointer, Thrown, Home, Reset, Establish,
               StartThreads, Fresh, Finish, update, Goto, fields, network, history
<1>12. CASE \/ \E s \in Svc : EnterRun(s)
            \/ \E t \in Loop : LoopEnds(t)
            \/ \E u \in Udp : ReceiveFails(u)
            \/ \E s \in Svc : RunAgain(s)
  BY <1>12 DEF EnterRun, LoopEnds, Ends, ReceiveFails, RunAgain, Goto, fields, network,
               history
<1> QED
  BY <1>1, <1>2, <1>3, <1>4, <1>5, <1>6, <1>7, <1>8, <1>9, <1>10, <1>11, <1>12, Zenon
     DEF Next, Step, start, stop, tap, update

\* A stop alone finds the threads and the node it has tested.
LEMMA TestPartStep ==
    ASSUME TypeOK, StartPart, UdpPart, SvcPart, TestPart, ~startRaced', ~failed',
           ~updateRaced', ~twice', [Next]_vars
    PROVE  TestPart'
<1>0. /\ pc \in [Thread -> Label] /\ wait \in [Caller \cup Worker -> Loop \cup {Null}]
      /\ HistoryOK /\ FieldsOK
  BY DEF TypeOK, LabelsOK, FieldsOK
<1> USE <1>0, ThreadFacts DEF StartPart, TestPart, StopPc, StartPc
<1>1. CASE \/ onStartCommand
           \/ leaveNetwork
           \/ \E t \in {Main, Bus} : stopZeroTier(t)
           \/ \E t \in Udp \cup Svc : shutdown(t)
           \/ \E u \in Udp \cup Svc : onNetworkConfigurationUpdated(u)
           \/ UNCHANGED vars
  BY <1>1, EnterFacts DEF onStartCommand, leaveNetwork, stopZeroTier, shutdown,
                          onNetworkConfigurationUpdated, vars, Goto, fields, network,
                          history
<1>2. CASE start
  BY <1>2 DEF Bind, CreateNode, StartUdp, Fresh, StartService, RestartUdp, start, Goto,
              fields, network, history
<1>3. ASSUME NEW t \in Caller, CloseSocket(t) PROVE TestPart'
  BY <1>3 DEF CloseSocket, AtTap, AtVpn, Alive, Goto, network
<1>4. ASSUME NEW t \in Caller,
             InterruptUdp(t) \/ InterruptService(t) \/ JoinService(t) \/
             CloseTunnel(t) \/ Unregister(t)
      PROVE  TestPart'
  BY <1>4 DEF InterruptUdp, Interrupt, NullPointer, Thrown, Home, InterruptService,
              JoinService, Joined, CloseTunnel, Unregister, Goto, fields, network, history
<1>5. ASSUME NEW t \in Caller, JoinUdp(t) PROVE TestPart'
  BY <1>5 DEF JoinUdp, AtTap, AtVpn, Alive, Goto, network
<1>6. ASSUME NEW t \in Caller, CloseNode(t) PROVE TestPart'
  <2>1. CASE NullPointer(t)
    BY <1>6, <2>1 DEF CloseNode, NullPointer, Thrown, Home, Goto, fields, network, history
  <2>2. CASE ~NullPointer(t)
    <3>1. /\ node' = FALSE /\ pc[t] = "close" /\ pc' = [pc EXCEPT ![t] = "bus"]
          /\ UNCHANGED <<svrSocket, vpnSocket, tunTapAdapter, udpThread, vpnThread,
                         receiveThread, registered, intr, wait, history>>
      BY <1>6, <2>2, Zenon DEF CloseNode, Goto
    <3> QED
      BY <3>1
  <2> QED
    BY <2>1, <2>2, Zenon
<1>7. ASSUME NEW t \in Caller \cup Worker, InterruptTap(t) \/ JoinTap(t) PROVE TestPart'
  BY <1>7 DEF InterruptTap, Interrupt, NullPointer, Thrown, Home, JoinTap, Joined, Goto,
              fields, network, history
<1>8. ASSUME NEW t \in Caller \cup Worker, JoinTapAgain(t) PROVE TestPart'
  BY <1>8 DEF JoinTapAgain, AtVpn, Alive, Goto, network
<1>9. ASSUME NEW w \in Worker, update(w) PROVE TestPart'
  BY <1>9 DEF updateTunnelConfig, TestTap, NullPointer, Thrown, Home, Reset, Establish,
              StartThreads, Fresh, Finish, update, Goto, fields, network, history
<1>10. CASE \/ \E s \in Svc : EnterRun(s)
            \/ \E t \in Loop : LoopEnds(t)
            \/ \E u \in Udp : ReceiveFails(u)
            \/ \E s \in Svc : RunAgain(s)
  BY <1>10 DEF EnterRun, LoopEnds, Ends, ReceiveFails, RunAgain, Goto, fields, network,
               history
<1> QED
  BY <1>1, <1>2, <1>3, <1>4, <1>5, <1>6, <1>7, <1>8, <1>9, <1>10, Zenon
     DEF Next, Step, start, stop, tap, update

\* A stop closes the tunnel, and no update opens one meanwhile.
LEMMA TunnelPartStep ==
    ASSUME TypeOK, UpdatePart, TunnelPart, ~startRaced', ~failed', ~updateRaced',
           [Next]_vars
    PROVE  TunnelPart'
<1>0. /\ pc \in [Thread -> Label] /\ wait \in [Caller \cup Worker -> Loop \cup {Null}]
      /\ HistoryOK /\ FieldsOK
  BY DEF TypeOK, LabelsOK, FieldsOK
<1> USE <1>0, ThreadFacts DEF UpdatePart, TunnelPart, PastSock, StopPc
<1>1. CASE \/ onStartCommand
           \/ leaveNetwork
           \/ \E t \in {Main, Bus} : stopZeroTier(t)
           \/ \E t \in Udp \cup Svc : shutdown(t)
           \/ \E u \in Udp \cup Svc : onNetworkConfigurationUpdated(u)
           \/ UNCHANGED vars
  BY <1>1, EnterFacts DEF onStartCommand, leaveNetwork, stopZeroTier, shutdown,
                          onNetworkConfigurationUpdated, vars, Goto, fields, network,
                          history
<1>2. CASE start
  BY <1>2 DEF Bind, CreateNode, StartUdp, Fresh, StartService, RestartUdp, start, Goto,
              fields, network, history
<1>3. ASSUME NEW t \in Caller,
             CloseSocket(t) \/ InterruptUdp(t) \/ JoinUdp(t) \/ InterruptService(t)
             \/ JoinService(t) \/ CloseTunnel(t) \/ Unregister(t)
      PROVE  TunnelPart'
  BY <1>3 DEF CloseSocket, AtTap, AtVpn, InterruptUdp, Interrupt, NullPointer, Thrown,
              Home, JoinUdp, Joined, InterruptService, JoinService, CloseTunnel,
              Unregister, Goto, fields, network, history
<1>4. ASSUME NEW t \in Caller, CloseNode(t) PROVE TunnelPart'
  <2>1. CASE NullPointer(t)
    BY <1>4, <2>1 DEF CloseNode, NullPointer, Thrown, Home, Goto, fields, network, history
  <2>2. CASE ~NullPointer(t)
    <3>1. /\ node' = FALSE /\ pc[t] = "close" /\ pc' = [pc EXCEPT ![t] = "bus"]
          /\ UNCHANGED <<svrSocket, vpnSocket, tunTapAdapter, udpThread, vpnThread,
                         receiveThread, registered, intr, wait, history>>
      BY <1>4, <2>2, Zenon DEF CloseNode, Goto
    <3> QED
      BY <3>1
  <2> QED
    BY <2>1, <2>2, Zenon
<1>5. ASSUME NEW t \in Caller \cup Worker, tap(t) PROVE TunnelPart'
  BY <1>5 DEF InterruptTap, Interrupt, NullPointer, Thrown, Home, JoinTap, Joined,
              JoinTapAgain, AtVpn, tap, Goto, fields, network, history
<1>6. ASSUME NEW w \in Worker, update(w) PROVE TunnelPart'
  BY <1>6 DEF updateTunnelConfig, TestTap, NullPointer, Thrown, Home, Reset, Establish,
              StartThreads, Fresh, Finish, update, Goto, fields, network, history
<1>7. CASE \/ \E s \in Svc : EnterRun(s)
           \/ \E t \in Loop : LoopEnds(t)
           \/ \E u \in Udp : ReceiveFails(u)
           \/ \E s \in Svc : RunAgain(s)
  BY <1>7 DEF EnterRun, LoopEnds, Ends, ReceiveFails, RunAgain, Goto, fields, network,
              history
<1> QED
  BY <1>1, <1>2, <1>3, <1>4, <1>5, <1>6, <1>7, Zenon
     DEF Next, Step, start, stop, tap, update

\* A service thread is in its field until a stop has seen it end.
LEMMA SvcPartStep ==
    ASSUME TypeOK, StartPart, UdpPart, SvcPart, ~startRaced', ~failed', [Next]_vars
    PROVE  SvcPart'
<1>0. /\ pc \in [Thread -> Label] /\ wait \in [Caller \cup Worker -> Loop \cup {Null}]
      /\ HistoryOK /\ FieldsOK
  BY DEF TypeOK, LabelsOK, FieldsOK
<1> USE <1>0, ThreadFacts DEF StartPart, SvcPart, NoSvc, PastVpn, StopPc, StartPc
<1>1. CASE \/ onStartCommand
           \/ leaveNetwork
           \/ \E t \in {Main, Bus} : stopZeroTier(t)
           \/ \E u \in Udp \cup Svc : onNetworkConfigurationUpdated(u)
           \/ UNCHANGED vars
  BY <1>1, EnterFacts DEF onStartCommand, leaveNetwork, stopZeroTier,
                          onNetworkConfigurationUpdated, vars, Goto, fields, network,
                          history
<1>2. ASSUME NEW t \in Udp \cup Svc, shutdown(t) PROVE SvcPart'
  <2>1. t \in Udp
    BY <1>2, Zenon DEF shutdown
  <2> QED
    BY <1>2, <2>1 DEF shutdown, Enter, Goto, fields, network
<1>3. CASE start
  BY <1>3 DEF Bind, CreateNode, StartUdp, Fresh, StartService, RestartUdp, start, Goto,
              fields, network, history
<1>4. ASSUME NEW t \in Caller, CloseSocket(t) PROVE SvcPart'
  BY <1>4 DEF CloseSocket, AtTap, AtVpn, Alive, Goto, network
<1>5. ASSUME NEW t \in Caller,
             InterruptUdp(t) \/ InterruptService(t) \/ CloseTunnel(t) \/
             Unregister(t)
      PROVE  SvcPart'
  BY <1>5 DEF InterruptUdp, Interrupt, NullPointer, Thrown, Home, InterruptService,
              CloseTunnel, Unregister, Goto, fields, network, history
<1>6. ASSUME NEW t \in Caller, JoinUdp(t) PROVE SvcPart'
  BY <1>6 DEF JoinUdp, Joined, AtTap, AtVpn, Alive, Goto, network
<1>7. ASSUME NEW t \in Caller, JoinService(t) PROVE SvcPart'
  <2>1. wait[t] \notin Alive
    BY <1>7, JoinWaits DEF JoinService
  <2>2. NoSvc
    BY <1>7, <2>1 DEF JoinService, Alive
  <2> QED
    BY <1>7, <2>2 DEF JoinService, Goto, network
<1>8. ASSUME NEW t \in Caller, CloseNode(t) PROVE SvcPart'
  <2>1. CASE NullPointer(t)
    BY <1>8, <2>1 DEF CloseNode, NullPointer, Thrown, Home, Goto, fields, network, history
  <2>2. CASE ~NullPointer(t)
    <3>1. /\ node' = FALSE /\ pc[t] = "close" /\ pc' = [pc EXCEPT ![t] = "bus"]
          /\ UNCHANGED <<svrSocket, vpnSocket, tunTapAdapter, udpThread, vpnThread,
                         receiveThread, registered, intr, wait, history>>
      BY <1>8, <2>2, Zenon DEF CloseNode, Goto
    <3> QED
      BY <3>1
  <2> QED
    BY <2>1, <2>2, Zenon
<1>9. ASSUME NEW t \in Caller \cup Worker, InterruptTap(t) \/ JoinTap(t) PROVE SvcPart'
  BY <1>9 DEF InterruptTap, Interrupt, NullPointer, Thrown, Home, JoinTap, Joined, Goto,
              fields, network, history
<1>10. ASSUME NEW t \in Caller \cup Worker, JoinTapAgain(t) PROVE SvcPart'
  BY <1>10 DEF JoinTapAgain, Joined, AtVpn, Alive, Goto, network
<1>11. ASSUME NEW w \in Worker,
              updateTunnelConfig(w) \/ TestTap(w) \/ Reset(w)
       PROVE  SvcPart'
  BY <1>11 DEF updateTunnelConfig, TestTap, NullPointer, Thrown, Home, Reset, Goto,
               fields, network, history
<1>12. ASSUME NEW w \in Worker,
              Establish(w) \/ StartThreads(w) \/ Finish(w)
       PROVE  SvcPart'
  BY <1>12 DEF Establish, StartThreads, NullPointer, Thrown, Home, Fresh, Finish, Goto,
               fields, network, history
<1>13. CASE \/ \E s \in Svc : EnterRun(s)
            \/ \E t \in Loop : LoopEnds(t)
            \/ \E u \in Udp : ReceiveFails(u)
            \/ \E s \in Svc : RunAgain(s)
  BY <1>13 DEF EnterRun, LoopEnds, Ends, ReceiveFails, RunAgain, Goto, fields, network,
               history
<1> QED
  BY <1>1, <1>2, <1>3, <1>4, <1>5, <1>6, <1>7, <1>8, <1>9, <1>10, <1>11, <1>12,
     <1>13, Zenon
     DEF Next, Step, start, stop, tap, update

\* A stop closes the socket first, and no start binds a new one meanwhile.
LEMMA SocketPartStep ==
    ASSUME TypeOK, StartPart, SocketPart, ~startRaced', ~failed', [Next]_vars
    PROVE  SocketPart'
<1>0. /\ pc \in [Thread -> Label] /\ wait \in [Caller \cup Worker -> Loop \cup {Null}]
      /\ HistoryOK /\ FieldsOK
  BY DEF TypeOK, LabelsOK, FieldsOK
<1> USE <1>0, ThreadFacts DEF StartPart, SocketPart, StopPc, StartPc
<1>1. CASE \/ onStartCommand
           \/ leaveNetwork
           \/ \E t \in {Main, Bus} : stopZeroTier(t)
           \/ \E t \in Udp \cup Svc : shutdown(t)
           \/ \E u \in Udp \cup Svc : onNetworkConfigurationUpdated(u)
           \/ UNCHANGED vars
  BY <1>1, EnterFacts DEF onStartCommand, leaveNetwork, stopZeroTier, shutdown,
                          onNetworkConfigurationUpdated, vars, Goto, fields, network,
                          history
<1>2. CASE start
  BY <1>2 DEF Bind, CreateNode, StartUdp, Fresh, StartService, RestartUdp, start, Goto,
              fields, network, history
<1>3. ASSUME NEW t \in Caller,
             CloseSocket(t) \/ InterruptUdp(t) \/ JoinUdp(t) \/ InterruptService(t)
             \/ JoinService(t) \/ CloseTunnel(t) \/ Unregister(t)
      PROVE  SocketPart'
  BY <1>3 DEF CloseSocket, AtTap, AtVpn, InterruptUdp, Interrupt, NullPointer, Thrown,
              Home, JoinUdp, Joined, InterruptService, JoinService, CloseTunnel,
              Unregister, Goto, fields, network, history
<1>4. ASSUME NEW t \in Caller, CloseNode(t) PROVE SocketPart'
  <2>1. CASE NullPointer(t)
    BY <1>4, <2>1 DEF CloseNode, NullPointer, Thrown, Home, Goto, fields, network, history
  <2>2. CASE ~NullPointer(t)
    <3>1. /\ node' = FALSE /\ pc[t] = "close" /\ pc' = [pc EXCEPT ![t] = "bus"]
          /\ UNCHANGED <<svrSocket, vpnSocket, tunTapAdapter, udpThread, vpnThread,
                         receiveThread, registered, intr, wait, history>>
      BY <1>4, <2>2, Zenon DEF CloseNode, Goto
    <3> QED
      BY <3>1
  <2> QED
    BY <2>1, <2>2, Zenon
<1>5. ASSUME NEW t \in Caller \cup Worker, tap(t) PROVE SocketPart'
  BY <1>5 DEF InterruptTap, Interrupt, NullPointer, Thrown, Home, JoinTap, Joined,
              JoinTapAgain, AtVpn, tap, Goto, fields, network, history
<1>6. ASSUME NEW w \in Worker,
             updateTunnelConfig(w) \/ TestTap(w) \/ Reset(w)
      PROVE  SocketPart'
  BY <1>6 DEF updateTunnelConfig, TestTap, NullPointer, Thrown, Home, Reset, Goto, fields,
              network, history
<1>7. ASSUME NEW w \in Worker,
             Establish(w) \/ StartThreads(w) \/ Finish(w)
      PROVE  SocketPart'
  BY <1>7 DEF Establish, StartThreads, NullPointer, Thrown, Home, Fresh, Finish, Goto,
              fields, network, history
<1>8. CASE \/ \E s \in Svc : EnterRun(s)
           \/ \E t \in Loop : LoopEnds(t)
           \/ \E u \in Udp : ReceiveFails(u)
           \/ \E s \in Svc : RunAgain(s)
  BY <1>8 DEF EnterRun, LoopEnds, Ends, ReceiveFails, RunAgain, Goto, fields, network,
              history
<1> QED
  BY <1>1, <1>2, <1>3, <1>4, <1>5, <1>6, <1>7, <1>8, Zenon
     DEF Next, Step, start, stop, tap, update

\* No stop begins during a start unnoticed.
LEMMA StartPartStep ==
    ASSUME TypeOK, StartPart, ~startRaced', ~failed', [Next]_vars
    PROVE  StartPart'
<1>0. /\ pc \in [Thread -> Label] /\ wait \in [Caller \cup Worker -> Loop \cup {Null}]
      /\ HistoryOK /\ FieldsOK
  BY DEF TypeOK, LabelsOK, FieldsOK
<1> USE <1>0, ThreadFacts DEF StartPart, StopPc, StartPc
<1>1. CASE onStartCommand
  <2>1. \/ pc' = [pc EXCEPT ![Main] = "bind"] /\ Stopping = {}
        \/ pc' = pc
    BY <1>1, Zenon DEF onStartCommand, Goto
  <2>2. registered' = TRUE /\ node' = node
    BY <1>1 DEF onStartCommand
  <2> QED
    BY <2>1, <2>2 DEF Stopping
<1>2. CASE \/ leaveNetwork
           \/ \E t \in {Main, Bus} : stopZeroTier(t)
           \/ \E t \in Udp \cup Svc : shutdown(t)
           \/ \E u \in Udp \cup Svc : onNetworkConfigurationUpdated(u)
           \/ UNCHANGED vars
  BY <1>2, EnterFacts DEF leaveNetwork, stopZeroTier, shutdown,
                          onNetworkConfigurationUpdated, vars, Goto, fields, network,
                          history
<1>3. CASE start
  BY <1>3 DEF Bind, CreateNode, StartUdp, Fresh, StartService, RestartUdp, start, Goto,
              fields, network, history
<1>4. ASSUME NEW t \in Caller,
             CloseSocket(t) \/ InterruptUdp(t) \/ JoinUdp(t) \/ InterruptService(t)
             \/ JoinService(t) \/ CloseTunnel(t) \/ Unregister(t)
      PROVE  StartPart'
  BY <1>4 DEF CloseSocket, AtTap, AtVpn, InterruptUdp, Interrupt, NullPointer, Thrown,
              Home, JoinUdp, Joined, InterruptService, JoinService, CloseTunnel,
              Unregister, Goto, fields, network, history
<1>5. ASSUME NEW t \in Caller, CloseNode(t) PROVE StartPart'
  BY <1>5, Zenon DEF CloseNode, NullPointer, Thrown, Home, Goto, fields, network, history
<1>6. ASSUME NEW t \in Caller \cup Worker, tap(t) PROVE StartPart'
  BY <1>6 DEF InterruptTap, Interrupt, NullPointer, Thrown, Home, JoinTap, Joined,
              JoinTapAgain, AtVpn, tap, Goto, fields, network, history
<1>7. ASSUME NEW w \in Worker,
             updateTunnelConfig(w) \/ TestTap(w) \/ Reset(w)
      PROVE  StartPart'
  BY <1>7 DEF updateTunnelConfig, TestTap, NullPointer, Thrown, Home, Reset, Goto, fields,
              network, history
<1>8. ASSUME NEW w \in Worker,
             Establish(w) \/ StartThreads(w) \/ Finish(w)
      PROVE  StartPart'
  BY <1>8 DEF Establish, StartThreads, NullPointer, Thrown, Home, Fresh, Finish, Goto,
              fields, network, history
<1>9. CASE \/ \E s \in Svc : EnterRun(s)
           \/ \E t \in Loop : LoopEnds(t)
           \/ \E u \in Udp : ReceiveFails(u)
           \/ \E s \in Svc : RunAgain(s)
  BY <1>9 DEF EnterRun, LoopEnds, Ends, ReceiveFails, RunAgain, Goto, fields, network,
              history
<1> QED
  BY <1>1, <1>2, <1>3, <1>4, <1>5, <1>6, <1>7, <1>8, <1>9, Zenon
     DEF Next, Step, start, stop, tap, update

\* Closing the socket closes it for every UDP thread.
LEMMA ClosedStep ==
    ASSUME TypeOK, ClosedInv, [Next]_vars
    PROVE  ClosedInv'
<1>0. /\ pc \in [Thread -> Label] /\ wait \in [Caller \cup Worker -> Loop \cup {Null}]
      /\ HistoryOK /\ FieldsOK
  BY DEF TypeOK, LabelsOK, FieldsOK
<1> USE <1>0, ThreadFacts DEF ClosedInv, StopPc
<1>1. CASE \/ onStartCommand
           \/ leaveNetwork
           \/ \E t \in {Main, Bus} : stopZeroTier(t)
           \/ \E t \in Udp \cup Svc : shutdown(t)
           \/ \E u \in Udp \cup Svc : onNetworkConfigurationUpdated(u)
           \/ UNCHANGED vars
  BY <1>1 DEF onStartCommand, leaveNetwork, Enter, stopZeroTier, shutdown,
              onNetworkConfigurationUpdated, vars, Goto, fields, network, history
<1>2. CASE start
  BY <1>2 DEF Bind, CreateNode, StartUdp, Fresh, StartService, RestartUdp, start, Goto,
              fields, network, history
<1>3. ASSUME NEW t \in Caller,
             CloseSocket(t) \/ InterruptUdp(t) \/ JoinUdp(t) \/ InterruptService(t)
             \/ JoinService(t) \/ CloseTunnel(t) \/ Unregister(t)
      PROVE  ClosedInv'
  BY <1>3 DEF CloseSocket, AtTap, AtVpn, InterruptUdp, Interrupt, NullPointer, Thrown,
              Home, JoinUdp, Joined, InterruptService, JoinService, CloseTunnel,
              Unregister, Goto, fields, network, history
<1>4. ASSUME NEW t \in Caller, CloseNode(t) PROVE ClosedInv'
  BY <1>4, Zenon DEF CloseNode, NullPointer, Thrown, Home, Goto, fields, network, history
<1>5. ASSUME NEW t \in Caller \cup Worker, tap(t) PROVE ClosedInv'
  BY <1>5 DEF InterruptTap, Interrupt, NullPointer, Thrown, Home, JoinTap, Joined,
              JoinTapAgain, AtVpn, tap, Goto, fields, network, history
<1>6. ASSUME NEW w \in Worker,
             updateTunnelConfig(w) \/ TestTap(w) \/ Reset(w)
      PROVE  ClosedInv'
  BY <1>6 DEF updateTunnelConfig, TestTap, NullPointer, Thrown, Home, Reset, Goto, fields,
              network, history
<1>7. ASSUME NEW w \in Worker,
             Establish(w) \/ StartThreads(w) \/ Finish(w)
      PROVE  ClosedInv'
  BY <1>7 DEF Establish, StartThreads, NullPointer, Thrown, Home, Fresh, Finish, Goto,
              fields, network, history
<1>8. CASE \/ \E s \in Svc : EnterRun(s)
           \/ \E t \in Loop : LoopEnds(t)
           \/ \E u \in Udp : ReceiveFails(u)
           \/ \E s \in Svc : RunAgain(s)
  BY <1>8 DEF EnterRun, LoopEnds, Ends, ReceiveFails, RunAgain, Goto, fields, network,
              history
<1> QED
  BY <1>1, <1>2, <1>3, <1>4, <1>5, <1>6, <1>7, <1>8, Zenon
     DEF Next, Step, start, stop, tap, update

\* No field that is used has been cleared.
LEMMA NoNullReadStep ==
    ASSUME TypeOK, StartPart, UdpPart, SvcPart, UpdatePart, TestPart, AdapterPart,
           ~nullRead, [Next]_vars
    PROVE  (~nullRead)'
<1>0. /\ pc \in [Thread -> Label] /\ wait \in [Caller \cup Worker -> Loop \cup {Null}]
      /\ HistoryOK /\ FieldsOK
  BY DEF TypeOK, LabelsOK, FieldsOK
<1> USE <1>0, ThreadFacts DEF SvcPart, NoSvc, TestPart, AdapterPart, StopPc, UpdatePc
<1>1. CASE \/ onStartCommand
           \/ leaveNetwork
           \/ \E t \in {Main, Bus} : stopZeroTier(t)
           \/ \E t \in Udp \cup Svc : shutdown(t)
           \/ \E u \in Udp \cup Svc : onNetworkConfigurationUpdated(u)
           \/ UNCHANGED vars
  BY <1>1 DEF onStartCommand, leaveNetwork, Enter, stopZeroTier, shutdown,
              onNetworkConfigurationUpdated, vars, history
<1>2. CASE start
  BY <1>2, Zenon DEF Bind, CreateNode, StartUdp, Fresh, StartService, RestartUdp, start,
                     history
<1>3. ASSUME NEW t \in Caller,
             CloseSocket(t) \/ InterruptUdp(t) \/ JoinUdp(t) \/ InterruptService(t)
             \/ JoinService(t) \/ CloseTunnel(t) \/ Unregister(t)
      PROVE  (~nullRead)'
  BY <1>3 DEF CloseSocket, AtTap, AtVpn, InterruptUdp, Interrupt, NullPointer, Thrown,
              Home, JoinUdp, Joined, InterruptService, JoinService, CloseTunnel,
              Unregister, history
<1>4. ASSUME NEW t \in Caller, CloseNode(t) PROVE (~nullRead)'
  BY <1>4, Zenon DEF CloseNode, NullPointer, Thrown, Home, history
<1>5. ASSUME NEW t \in Caller \cup Worker, tap(t) PROVE (~nullRead)'
  BY <1>5 DEF InterruptTap, Interrupt, NullPointer, Thrown, Home, JoinTap, Joined,
              JoinTapAgain, AtVpn, tap, history
<1>6. ASSUME NEW w \in Worker, update(w) PROVE (~nullRead)'
  BY <1>6 DEF updateTunnelConfig, TestTap, NullPointer, Thrown, Home, Reset, Establish,
              StartThreads, Fresh, Finish, update, history
<1>7. CASE \/ \E s \in Svc : EnterRun(s)
           \/ \E t \in Loop : LoopEnds(t)
           \/ \E u \in Udp : ReceiveFails(u)
           \/ \E s \in Svc : RunAgain(s)
  BY <1>7, Zenon DEF EnterRun, LoopEnds, Ends, ReceiveFails, RunAgain, history
<1> QED
  BY <1>1, <1>2, <1>3, <1>4, <1>5, <1>6, <1>7, Zenon
     DEF Next, Step, start, stop, tap, update

\* Every thread stays within its code.
LEMMA LabelsStep ==
    ASSUME TypeOK, [Next]_vars
    PROVE  LabelsOK'
<1> USE ThreadFacts, LabelFacts, LabelMove DEF TypeOK
<1>1. CASE onStartCommand
  <2>1. CASE UNCHANGED pc
    BY <2>1 DEF LabelsOK
  <2>2. CASE pc' # pc
    BY <1>1, <2>2 DEF onStartCommand, Goto
  <2> QED
    BY <2>1, <2>2, Zenon
<1>2. CASE leaveNetwork
  <2>1. CASE UNCHANGED pc
    BY <2>1 DEF LabelsOK
  <2>2. CASE pc' # pc
    BY <1>2, <2>2 DEF leaveNetwork, Enter, Goto
  <2> QED
    BY <2>1, <2>2, Zenon
<1>3. ASSUME NEW t \in {Main, Bus}, stopZeroTier(t) PROVE LabelsOK'
  BY <1>3, Zenon DEF stopZeroTier, Enter, Goto
<1>4. ASSUME NEW t \in Udp \cup Svc, shutdown(t) PROVE LabelsOK'
  BY <1>4, Zenon DEF shutdown, Enter, Goto
<1>5. ASSUME NEW u \in Udp \cup Svc, onNetworkConfigurationUpdated(u) PROVE LabelsOK'
  <2>1. CASE UNCHANGED pc
    BY <2>1 DEF LabelsOK
  <2>2. CASE pc' # pc
    BY <1>5, <2>2 DEF onNetworkConfigurationUpdated, Goto
  <2> QED
    BY <2>1, <2>2, Zenon
<1>6. CASE UNCHANGED vars
  BY <1>6, Zenon DEF vars, LabelsOK
<1>7. CASE Bind \/ CreateNode \/ RestartUdp
  BY <1>7 DEF Bind, CreateNode, RestartUdp, Goto
<1>8. CASE StartUdp
  <2>1. PICK u \in Udp : pc' = [pc EXCEPT ![Main] = "service", ![u] = "run"]
    BY <1>8, Zenon DEF StartUdp, Fresh
  <2> QED
    BY <2>1, LabelMove2, Zenon
<1>9. CASE StartService
  <2>1. CASE vpnThread # Null
    BY <1>9, <2>1 DEF StartService, Goto
  <2>2. CASE vpnThread = Null
    <3>1. PICK s \in Svc : pc' = [pc EXCEPT ![Main] = "receive", ![s] = "enter"]
      BY <1>9, <2>2 DEF StartService, Fresh
    <3>2. "receive" \in LabelOf(Main) /\ "enter" \in LabelOf(s)
      OBVIOUS
    <3> QED
      BY <3>1, <3>2, LabelMove2, Zenon
  <2> QED
    BY <2>1, <2>2, Zenon
<1>10. ASSUME NEW t \in Caller,
              CloseSocket(t) \/ InterruptUdp(t) \/ JoinUdp(t) \/ InterruptService(t)
              \/ JoinService(t) \/ CloseTunnel(t) \/ Unregister(t)
       PROVE  LabelsOK'
  BY <1>10 DEF CloseSocket, AtTap, AtVpn, InterruptUdp, Interrupt, NullPointer, Thrown,
               Home, JoinUdp, Joined, InterruptService, JoinService, CloseTunnel,
               Unregister, Goto
<1>11. ASSUME NEW t \in Caller, CloseNode(t) PROVE LabelsOK'
  BY <1>11, Zenon DEF CloseNode, NullPointer, Thrown, Home, Goto
<1>12. ASSUME NEW t \in Caller \cup Worker, tap(t) PROVE LabelsOK'
  BY <1>12 DEF InterruptTap, Interrupt, NullPointer, Thrown, Home, JoinTap, Joined,
               JoinTapAgain, AtVpn, tap, Goto
<1>13. ASSUME NEW w \in Worker,
              updateTunnelConfig(w) \/ TestTap(w) \/ Reset(w) \/ Establish(w) \/
              Finish(w)
       PROVE  LabelsOK'
  BY <1>13 DEF updateTunnelConfig, TestTap, NullPointer, Thrown, Home, Reset, Establish,
               Finish, Goto
<1>14. ASSUME NEW w \in Worker, StartThreads(w) PROVE LabelsOK'
  <2>1. CASE NullPointer(w)
    BY <2>1, Zenon DEF NullPointer, Goto
  <2>2. CASE ~NullPointer(w)
    <3>1. PICK t \in Tun : pc' = [pc EXCEPT ![w] = "finish", ![t] = "run"]
      BY <1>14, <2>2 DEF StartThreads, Fresh
    <3>2. "finish" \in LabelOf(w) /\ "run" \in LabelOf(t)
      BY DEF UpdatePc
    <3> QED
      BY <3>1, <3>2, LabelMove2, Zenon
  <2> QED
    BY <2>1, <2>2, Zenon
<1>15. CASE \/ \E s \in Svc : EnterRun(s)
            \/ \E u \in Udp : ReceiveFails(u)
            \/ \E s \in Svc : RunAgain(s)
  BY <1>15 DEF EnterRun, ReceiveFails, Ends, RunAgain, Goto
<1>16. ASSUME NEW t \in Loop, LoopEnds(t) PROVE LabelsOK'
  <2>1. "none" \in LabelOf(t) /\ t \in Thread
    OBVIOUS
  <2> QED
    BY <1>16, <2>1, Zenon DEF LoopEnds, Ends, Goto
<1> QED
  BY <1>1, <1>2, <1>3, <1>4, <1>5, <1>6, <1>7, <1>8, <1>9, <1>10, <1>11, <1>12,
     <1>13, <1>14, <1>15, <1>16, Zenon
     DEF Next, Step, start, stop, tap, update

\* Every step keeps the fields within their types.
LEMMA FieldsStep ==
    ASSUME TypeOK, [Next]_vars
    PROVE  FieldsOK'
<1> USE ThreadFacts DEF TypeOK, FieldsOK, Alive
<1>1. CASE onStartCommand
  BY <1>1 DEF onStartCommand, fields, network
<1>2. ASSUME NEW t \in {Main, Bus}, stopZeroTier(t) PROVE FieldsOK'
  BY <1>2 DEF stopZeroTier, Enter, fields, network
<1>3. ASSUME NEW t \in Udp \cup Svc, shutdown(t) PROVE FieldsOK'
  BY <1>3 DEF shutdown, Enter, fields, network
<1>4. ASSUME NEW u \in Udp \cup Svc, onNetworkConfigurationUpdated(u) PROVE FieldsOK'
  BY <1>4 DEF onNetworkConfigurationUpdated, fields, network
<1>5. CASE UNCHANGED vars
  BY <1>5 DEF vars, fields, network
<1>6. CASE leaveNetwork
  BY <1>6, Zenon DEF leaveNetwork, Enter, fields, network
<1>7. CASE Bind
  BY <1>7 DEF Bind, fields, network
<1>8. CASE StartUdp
  BY <1>8 DEF StartUdp, Fresh, fields, network
<1>9. CASE StartService \/ RestartUdp
  BY <1>9 DEF StartService, Fresh, RestartUdp, fields, network
<1>10. CASE CreateNode
  BY <1>10, Zenon DEF CreateNode, fields, network
<1>11. ASSUME NEW t \in Caller,
              CloseSocket(t) \/ CloseTunnel(t) \/ CloseNode(t) \/ Unregister(t)
       PROVE  FieldsOK'
  BY <1>11, Zenon DEF CloseSocket, AtTap, AtVpn, CloseTunnel, Home, CloseNode,
                      NullPointer, Thrown, Unregister, fields, network
<1>12. ASSUME NEW t \in Caller,
              InterruptUdp(t) \/ JoinUdp(t) \/ InterruptService(t) \/ JoinService(t)
       PROVE  FieldsOK'
  BY <1>12 DEF InterruptUdp, Interrupt, NullPointer, Thrown, Home, JoinUdp, Joined, AtTap,
               AtVpn, InterruptService, JoinService, fields, network
<1>13. ASSUME NEW t \in Caller \cup Worker,
              InterruptTap(t) \/ JoinTap(t)
       PROVE  FieldsOK'
  BY <1>13 DEF InterruptTap, Interrupt, NullPointer, Thrown, Home, JoinTap, Joined,
               fields, network
<1>14. ASSUME NEW t \in Caller \cup Worker, JoinTapAgain(t) PROVE FieldsOK'
  BY <1>14, Zenon DEF JoinTapAgain, Joined, AtVpn, fields, network
<1>15. ASSUME NEW w \in Worker,
              updateTunnelConfig(w) \/ TestTap(w) \/ Establish(w) \/ StartThreads(w)
              \/ Finish(w)
       PROVE  FieldsOK'
  BY <1>15 DEF updateTunnelConfig, TestTap, NullPointer, Thrown, Home, Establish,
               StartThreads, Fresh, Finish, fields, network
<1>16. ASSUME NEW w \in Worker, Reset(w) PROVE FieldsOK'
  BY <1>16, Zenon DEF Reset, NullPointer, Thrown, Home, fields, network
<1>17. CASE \/ \E s \in Svc : EnterRun(s)
            \/ \E t \in Loop : LoopEnds(t)
            \/ \E u \in Udp : ReceiveFails(u)
            \/ \E s \in Svc : RunAgain(s)
  BY <1>17 DEF EnterRun, LoopEnds, Ends, ReceiveFails, RunAgain, fields, network
<1> QED
  BY <1>1, <1>2, <1>3, <1>4, <1>5, <1>6, <1>7, <1>8, <1>9, <1>10, <1>11, <1>12,
     <1>13, <1>14, <1>15, <1>16, <1>17, Zenon
     DEF Next, Step, start, stop, tap, update

\* And the history.
LEMMA HistoryStep ==
    ASSUME TypeOK, [Next]_vars
    PROVE  HistoryOK'
<1> USE DEF TypeOK, HistoryOK
<1>1. CASE onStartCommand \/ (\E u \in Udp \cup Svc : onNetworkConfigurationUpdated(u))
  BY <1>1, Zenon DEF onStartCommand, onNetworkConfigurationUpdated, history
<1>2. CASE leaveNetwork
  <2>1. Enter(Bus) \/ UNCHANGED <<twice, startRaced, updateRaced>>
    BY <1>2 DEF leaveNetwork
  <2>2. UNCHANGED <<nullRead, failed>>
    BY <1>2 DEF leaveNetwork
  <2>3. CASE Enter(Bus)
    BY <2>2, <2>3 DEF Enter, Starting
  <2>4. CASE UNCHANGED <<twice, startRaced, updateRaced>>
    BY <2>2, <2>4
  <2> QED
    BY <2>1, <2>3, <2>4
<1>3. ASSUME NEW t \in {Main, Bus}, stopZeroTier(t) PROVE HistoryOK'
  BY <1>3 DEF stopZeroTier, Enter, Starting
<1>4. ASSUME NEW t \in Udp \cup Svc, shutdown(t) PROVE HistoryOK'
  BY <1>4 DEF shutdown, Enter, Starting
<1>5. CASE UNCHANGED vars
  BY <1>5 DEF vars, history
<1>6. CASE start
  BY <1>6 DEF Bind, CreateNode, StartUdp, Fresh, StartService, RestartUdp, start, history
<1>7. ASSUME NEW t \in Caller,
             CloseSocket(t) \/ JoinUdp(t) \/ JoinService(t) \/ CloseTunnel(t) \/
             Unregister(t)
      PROVE  HistoryOK'
  BY <1>7 DEF CloseSocket, AtTap, AtVpn, JoinUdp, Joined, JoinService, CloseTunnel, Home,
              Unregister, history
<1>8. ASSUME NEW t \in Caller,
             InterruptUdp(t) \/ InterruptService(t) \/ CloseNode(t)
      PROVE  HistoryOK'
  BY <1>8, Zenon DEF InterruptUdp, Interrupt, NullPointer, Thrown, Home, InterruptService,
                     CloseNode, history
<1>9. ASSUME NEW t \in Caller \cup Worker,
             InterruptTap(t) \/ JoinTap(t)
      PROVE  HistoryOK'
  BY <1>9, Zenon DEF InterruptTap, Interrupt, NullPointer, Thrown, Home, JoinTap, Joined,
                     history
<1>10. ASSUME NEW t \in Caller \cup Worker, JoinTapAgain(t) PROVE HistoryOK'
  BY <1>10 DEF JoinTapAgain, Joined, AtVpn, history
<1>11. ASSUME NEW w \in Worker, updateTunnelConfig(w) \/ Establish(w) PROVE HistoryOK'
  BY <1>11 DEF updateTunnelConfig, Establish, history
<1>12. ASSUME NEW w \in Worker,
              TestTap(w) \/ Reset(w) \/ StartThreads(w) \/ Finish(w)
       PROVE  HistoryOK'
  BY <1>12, Zenon DEF TestTap, NullPointer, Thrown, Home, Reset, StartThreads, Fresh,
                      Finish, history
<1>13. ASSUME NEW s \in Svc, EnterRun(s) PROVE HistoryOK'
  BY <1>13, Zenon DEF EnterRun, history
<1>14. CASE \/ \E t \in Loop : LoopEnds(t)
            \/ \E u \in Udp : ReceiveFails(u)
            \/ \E s \in Svc : RunAgain(s)
  BY <1>14 DEF LoopEnds, Ends, ReceiveFails, RunAgain, history
<1> QED
  BY <1>1, <1>2, <1>3, <1>4, <1>5, <1>6, <1>7, <1>8, <1>9, <1>10, <1>11, <1>12,
     <1>13, <1>14, Zenon
     DEF Next, Step, start, stop, tap, update

\* What has happened has happened.
Grown == (failed => failed') /\ (twice => twice') /\ (startRaced => startRaced')
         /\ (updateRaced => updateRaced') /\ (nullRead => nullRead')

\* The history only grows.
LEMMA HistoryGrows ==
    ASSUME TypeOK, [Next]_vars
    PROVE  Grown
<1> USE DEF TypeOK, HistoryOK, Grown, MayBegin
<1>1. CASE \/ onStartCommand
           \/ leaveNetwork
           \/ \E t \in {Main, Bus} : stopZeroTier(t)
           \/ \E t \in Udp \cup Svc : shutdown(t)
           \/ \E u \in Udp \cup Svc : onNetworkConfigurationUpdated(u)
           \/ UNCHANGED vars
  BY <1>1, Zenon DEF onStartCommand, leaveNetwork, Enter, stopZeroTier, shutdown,
                     onNetworkConfigurationUpdated, vars, history
<1>2. CASE start
  BY <1>2, Zenon DEF Bind, CreateNode, StartUdp, Fresh, StartService, RestartUdp, start,
                     history
<1>3. ASSUME NEW t \in Caller, stop(t) PROVE Grown
  BY <1>3, Zenon DEF CloseSocket, AtTap, AtVpn, InterruptUdp, Interrupt, NullPointer,
                     Thrown, Home, JoinUdp, Joined, InterruptService, JoinService,
                     CloseTunnel, CloseNode, Unregister, stop, history
<1>4. ASSUME NEW t \in Caller \cup Worker, tap(t) PROVE Grown
  BY <1>4, Zenon DEF InterruptTap, Interrupt, NullPointer, Thrown, Home, JoinTap, Joined,
                     JoinTapAgain, AtVpn, tap, history
<1>5. ASSUME NEW w \in Worker, update(w) PROVE Grown
  BY <1>5, Zenon DEF updateTunnelConfig, TestTap, NullPointer, Thrown, Home, Reset,
                     Establish, StartThreads, Fresh, Finish, update, history
<1>6. CASE \/ \E s \in Svc : EnterRun(s)
           \/ \E t \in Loop : LoopEnds(t)
           \/ \E u \in Udp : ReceiveFails(u)
           \/ \E s \in Svc : RunAgain(s)
  BY <1>6, Zenon DEF EnterRun, LoopEnds, Ends, ReceiveFails, RunAgain, history
<1> QED
  BY <1>1, <1>2, <1>3, <1>4, <1>5, <1>6, Zenon
     DEF Next, Step, start, stop, tap, update

-----------------------------------------------------------------------------

\* The inductive invariant: each part under the calls it needs not to overlap.
ServiceInv == TypeOK /\ StopInv /\ UpdateInv /\ FieldInv /\ ClosedInv

\* A service that was never started has the invariant.
LEMMA ServiceInit == Init => ServiceInv
<1> SUFFICES ASSUME Init PROVE ServiceInv
  OBVIOUS
<1>1. pc \in [Thread -> Label] /\ \A t \in Thread : pc[t] \in LabelOf(t)
  <2>1. pc = [t \in Thread |-> IF t \in Loop THEN "none" ELSE "idle"]
    BY DEF Init
  <2>2. \A t \in Thread : (IF t \in Loop THEN "none" ELSE "idle") \in LabelOf(t)
    BY ThreadFacts DEF Thread, Loop, LabelOf
  <2>3. \A t \in Thread : LabelOf(t) \subseteq Label
    BY DEF Label
  <2> QED
    BY <2>1, <2>2, <2>3
<1>2. TypeOK
  BY <1>1, Zenon DEF Init, TypeOK, LabelsOK, FieldsOK, HistoryOK
<1>3. \A t \in Thread : pc[t] \in {"none", "idle"}
  BY DEF Init
<1>4. \A t \in Caller \cup Worker \cup Loop : t \in Thread
  BY ThreadFacts
<1>6. StartPart /\ SocketPart /\ UdpPart /\ SvcPart
  BY <1>3, <1>4, ThreadFacts
     DEF Init, StartPart, SocketPart, UdpPart, SvcPart, NoUdp, NoSvc, PreUdp, PastUdp,
         PastTap, PastVpn, StopPc, StartPc
<1>7. UpdatePart /\ TunPart /\ TunnelPart
  BY <1>3, <1>4, ThreadFacts
     DEF Init, UpdatePart, TunPart, TunnelPart, NoTun, PastTap, PastVpn, PastSock
<1>8. ~nullRead /\ TestPart /\ AdapterPart
  BY <1>3, <1>4, ThreadFacts DEF Init, TestPart, AdapterPart, StopPc
<1>9. ClosedInv
  BY ThreadFacts DEF Init, ClosedInv
<1> QED
  BY <1>2, <1>6, <1>7, <1>8, <1>9 DEF ServiceInv, StopInv, UpdateInv, FieldInv

\* Every step keeps the invariant, part by part.
LEMMA ServiceStep == ServiceInv /\ [Next]_vars => ServiceInv'
<1> SUFFICES ASSUME ServiceInv, [Next]_vars PROVE ServiceInv'
  OBVIOUS
<1>1. TypeOK /\ StopInv /\ UpdateInv /\ FieldInv /\ ClosedInv
  BY DEF ServiceInv
<1>2. Grown
  BY <1>1, HistoryGrows
<1>3. TypeOK'
  BY <1>1, LabelsStep, FieldsStep, HistoryStep DEF TypeOK
<1>4. ASSUME ~(failed' \/ startRaced')
      PROVE  /\ StartPart /\ UdpPart /\ SvcPart /\ SocketPart
             /\ StartPart' /\ UdpPart' /\ SvcPart' /\ SocketPart'
  <2>1. StartPart /\ UdpPart /\ SvcPart /\ SocketPart
    BY <1>1, <1>2, <1>4 DEF StopInv, Grown
  <2> QED
    BY <1>1, <1>4, <2>1, StartPartStep, UdpPartStep, SvcPartStep, SocketPartStep
<1>5. StopInv'
  BY <1>4 DEF StopInv
<1>6. ASSUME ~(failed' \/ startRaced' \/ updateRaced')
      PROVE  /\ UpdatePart /\ TunPart /\ TunnelPart
             /\ UpdatePart' /\ TunPart' /\ TunnelPart'
  <2>1. UpdatePart /\ TunPart /\ TunnelPart
    BY <1>1, <1>2, <1>6 DEF UpdateInv, Grown
  <2> QED
    BY <1>1, <1>4, <1>6, <2>1, UpdatePartStep, TunPartStep, TunnelPartStep
<1>7. UpdateInv'
  BY <1>6 DEF UpdateInv
<1>8. ASSUME ~(failed' \/ startRaced' \/ updateRaced' \/ twice')
      PROVE  ~nullRead' /\ TestPart' /\ AdapterPart'
  <2>1. ~nullRead /\ TestPart /\ AdapterPart
    BY <1>1, <1>2, <1>8 DEF FieldInv, Grown
  <2> QED
    BY <1>1, <1>4, <1>6, <1>8, <2>1, TestPartStep, AdapterPartStep, NoNullReadStep
<1>9. FieldInv'
  BY <1>8 DEF FieldInv
<1>10. ClosedInv'
  BY <1>1, ClosedStep
<1> QED
  BY <1>3, <1>5, <1>7, <1>9, <1>10 DEF ServiceInv

\* Whatever the threads and callers of ZeroTierOneService do, the service's fields
\* name the threads that run, a stop that is past a thread has seen it end, and what
\* a call has tested is still so when it uses it, each as long as the calls that
\* would upset it do not overlap.
THEOREM ServiceInductive == Spec => []ServiceInv
<1>1. Init => ServiceInv
  BY ServiceInit
<1>2. ServiceInv /\ [Next]_vars => ServiceInv'
  BY ServiceStep
<1> QED
  BY <1>1, <1>2, PTL DEF Spec

\* stopZeroTier closes the node only when no thread is inside it, however many stops
\* overlap: the UDP, service and TUN threads have ended or are past their loops.
THEOREM NodeClosedAlone == Spec => []CloseIsSafe
<1>1. ServiceInv => CloseIsSafe
  <2> SUFFICES ASSUME ServiceInv, ~(failed \/ startRaced \/ updateRaced),
                      NEW t \in Caller, pc[t] = "close"
               PROVE  Running = {}
    BY DEF CloseIsSafe
  <2>1. NoUdp /\ NoSvc
    BY DEF ServiceInv, StopInv, UdpPart, SvcPart, PastUdp, PastTap, PastVpn
  <2>2. NoTun
    BY DEF ServiceInv, UpdateInv, TunPart, PastTap, PastVpn
  <2> QED
    BY <2>1, <2>2, ThreadFacts DEF Running, NoUdp, NoSvc, NoTun, PreUdp
<1> QED
  BY <1>1, ServiceInductive, PTL

\* No field that stopZeroTier or updateTunnelConfig uses after testing it has been
\* cleared in between, as long as such calls do not overlap.
THEOREM FieldsStaySet == Spec => []NoNullRead
<1>1. ServiceInv => NoNullRead
  BY DEF ServiceInv, FieldInv, NoNullRead
<1> QED
  BY <1>1, ServiceInductive, PTL

\* A stopped service holds no socket, its service thread has ended, and a UDP thread
\* still there finds its socket closed; nor is there a tunnel or a TUN thread, unless
\* an update overlapped the stop.
THEOREM StoppedLeavesNothing == Spec => []StoppedIsClean
<1>1. ServiceInv => StoppedIsClean
  <2> SUFFICES ASSUME ServiceInv, ~(failed \/ startRaced), ~registered
               PROVE  /\ ~svrSocket
                      /\ ~updateRaced => ~vpnSocket /\ Tun \cap Alive = {}
                      /\ Svc \cap Alive = {}
                      /\ Udp \cap Alive \subseteq closed
    BY DEF StoppedIsClean
  <2>1. ~svrSocket /\ NoSvc
    BY DEF ServiceInv, StopInv, SocketPart, SvcPart
  <2>2. ~updateRaced => ~vpnSocket /\ NoTun
    BY DEF ServiceInv, UpdateInv, TunnelPart, TunPart
  <2>3. \A u \in Udp : pc[u] # "none" => u \in closed
    BY <2>1 DEF ServiceInv, ClosedInv
  <2> QED
    BY <2>1, <2>2, <2>3 DEF Alive, NoSvc, NoTun
<1> QED
  BY <1>1, ServiceInductive, PTL
=============================================================================
