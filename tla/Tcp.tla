-------------------------------- MODULE Tcp --------------------------------
(***************************************************************************)
(* Two lwIP sockets, a client A that connects and a server B that accepts, *)
(* and the network between them, from the SYN until both protocol control  *)
(* blocks are gone: tcp_process and tcp_input (core/tcp_in.c), the timers, *)
(* close and shutdown (core/tcp.c), and the netconn layer above them       *)
(* (api/api_msg.c) that xnet_socket.c calls.                               *)
(*                                                                         *)
(* The stack runs under the core lock, so a step is one incoming segment,  *)
(* one timer or one API call.  The network loses, repeats and reorders.    *)
(* Bytes are numbered from 1 in each direction.  The SACK options are left *)
(* out of the segments: lwIP does not read them.  Writes and connects are  *)
(* blocking, linger and timeouts are off, addresses are resolved.          *)
(***************************************************************************)
EXTENDS TcpSocket

CONSTANTS
    Iss,       \* the initial sequence number of each side
    MaxSend,   \* bytes each side's application writes at most
    Writes,    \* the sizes of its writes
    Hows,      \* the shutdowns the applications use, out of "RD", "WR"
    NetCap,    \* segments in flight towards each side; a further one is lost
    MaxFaults  \* segments lost, repeated or overtaken, and premature timeouts

ASSUME TcpAssumption ==
    /\ \A e \in {"A", "B"} : Iss[e] \in 0..(SeqSpace - 1) /\ MaxSend[e] \in Nat
    /\ Writes \subseteq Nat \ {0} /\ Hows \subseteq {"RD", "WR"}
    /\ NetCap \in Nat \ {0} /\ MaxFaults \in Nat

VARIABLES
    sock,   \* each side's pcb and netconn
    net,    \* segments in flight towards each side
    opens,  \* the listener has taken a SYN
    faults  \* faults so far

vars == <<sock, net, opens, faults>>

Ends == {"A", "B"}
Peer(e) == IF e = "A" THEN "B" ELSE "A"

\* The message lwip_netconn_err_to_msg makes; bytes are at least 1.
ERR == <<0>>

(***************************************************************************)
(* A socket: its pcb, conn->pcb.tcp (ref: it is set), conn->state, the     *)
(* bytes a blocked write has left, recvmbox (mboxOk: it is valid), the     *)
(* bytes fetched and not yet passed to tcp_recved, and history: the bytes  *)
(* handed to tcp_write, the bytes read, the end of stream seen, the        *)
(* shutdowns made, an error reported.                                      *)
(***************************************************************************)
NewSock ==
    [pcb |-> tcp_alloc("NONE"), ref |-> FALSE, state |-> "NONE", left |-> 0,
     mbox |-> <<>>, mboxOk |-> FALSE, taken |-> 0,
     sent |-> 0, read |-> <<>>, eof |-> FALSE, lost |-> FALSE, shut |-> {}, err |-> FALSE]

Init ==
    /\ sock = [e \in Ends |-> NewSock]
    /\ net = [e \in Ends |-> <<>>]
    /\ opens = FALSE
    /\ faults = 0

\* tcp_free
Free(c) == [c EXCEPT !.pcb = [tcp_alloc("NONE") EXCEPT !.out = c.pcb.out]]

Has(c, state) == c.pcb.state = state

(***************************************************************************)
(* Callbacks into the netconn.                                             *)
(***************************************************************************)

\* Mutant: an error looks like the end of the stream.
EventErrAsEof(c) ==
    IF ~c.ref THEN c
    ELSE [c EXCEPT !.ref = FALSE, !.state = "NONE", !.left = 0, !.err = TRUE,
                   !.mbox = IF ~c.mboxOk \/ MboxFull(c) THEN @ ELSE Append(@, EOF)]

\* TCP_EVENT_ERR: err_tcp, when the netconn still has the pcb.
EventErr(c) ==
    IF ~c.ref THEN c
    ELSE [c EXCEPT !.ref = FALSE, !.state = "NONE", !.left = 0, !.err = TRUE,
                   !.mbox = IF ~c.mboxOk \/ MboxFull(c) THEN @ ELSE Append(@, ERR)]

\* lwip_netconn_do_writemore without its tcp_output.
Writemore(c) ==
    LET n == Min({c.left, c.pcb.snd_buf})
    IN [c EXCEPT !.pcb = tcp_write(@, [i \in 1..n |-> c.sent + i]),
                 !.sent = @ + n,
                 !.left = @ - n,
                 !.state = IF c.left = n THEN "NONE" ELSE "WRITE"]

\* sent_tcp and poll_tcp
MaybeWritemore(c) == IF c.ref /\ c.state = "WRITE" THEN Writemore(c) ELSE c

Output(c) == [c EXCEPT !.pcb = tcp_output(@)]

(***************************************************************************)
(* Closing.                                                                *)
(***************************************************************************)

\* tcp_abort
tcp_abort(c) ==
    IF Has(c, "TIME_WAIT") THEN Free(c)
    ELSE EventErr(Free([c EXCEPT !.pcb = tcp_rst(@, @.snd_nxt, @.rcv_nxt)]))

tcp_close_shutdown_fin(c) ==
    IF c.pcb.state \in {"SYN_RCVD", "ESTABLISHED", "CLOSE_WAIT"}
    THEN Output([c EXCEPT !.pcb =
             [tcp_send_fin(@) EXCEPT !.state = IF @ = "CLOSE_WAIT" THEN "LAST_ACK"
                                               ELSE "FIN_WAIT_1"]])
    ELSE c

\* Data the application has not taken turns the close into a reset.
UnreadData(p) == p.refused # <<>> \/ p.rcv_wnd # TCP_WND

tcp_close_shutdown(c, rst_on_unacked_data) ==
    IF rst_on_unacked_data /\ c.pcb.state \in {"ESTABLISHED", "CLOSE_WAIT"} /\ UnreadData(c.pcb)
    THEN Free([c EXCEPT !.pcb = tcp_rst(@, @.snd_nxt, @.rcv_nxt)])
    ELSE IF Has(c, "SYN_SENT") THEN Free(c)
    ELSE tcp_close_shutdown_fin(c)

RxClosed(c) == [c EXCEPT !.pcb.flags = @ \cup {"RXCLOSED"}]

tcp_close(c) == tcp_close_shutdown(RxClosed(c), TRUE)

\* tcp_shutdown of one side.
tcp_shutdown(c, how) ==
    IF how = "RD" THEN [RxClosed(c) EXCEPT !.pcb.refused = <<>>, !.pcb.refused_fin = FALSE]
    ELSE tcp_close_shutdown(c, FALSE)

\* A shutdown of one side that closes: the other one is shut already.
ShutClose(c, how) ==
    \/ how = "RD" /\ c.pcb.state \in {"FIN_WAIT_1", "FIN_WAIT_2", "CLOSING"}
    \/ how = "WR" /\ "RXCLOSED" \in c.pcb.flags

Drain(c) == [c EXCEPT !.mbox = <<>>, !.mboxOk = FALSE]

\* lwip_netconn_do_close for one side.
DoClose(c, how) ==
    With(IF how = "RD" THEN Drain(c) ELSE c, LAMBDA d :
        [(IF ShutClose(d, how) THEN [tcp_close(d) EXCEPT !.ref = FALSE] ELSE tcp_shutdown(d, how))
            EXCEPT !.shut = @ \cup {how}])

\* lwip_netconn_do_delconn
DoDelconn(c) ==
    With(Drain(c), LAMBDA d :
        IF d.ref THEN [tcp_close(d) EXCEPT !.ref = FALSE, !.shut = {"RD", "WR"}]
        ELSE [d EXCEPT !.shut = {"RD", "WR"}])

(***************************************************************************)
(* tcp_process.                                                            *)
(***************************************************************************)

InitialCwnd(p) == [p EXCEPT !.cwnd = TCP_WND]

SynSent(c, in) ==
    LET p == c.pcb
        rest == IF p.unacked = <<>> THEN [p EXCEPT !.unsent = Tail(@)]
                ELSE [p EXCEPT !.unacked = Tail(@)]
    IN IF in.ack /\ in.syn /\ in.ackno = U32(p.lastack + 1)
       THEN [c EXCEPT
                !.pcb = tcp_ack_now(InitialCwnd(
                    [rest EXCEPT !.rcv_nxt = U32(in.seq + 1),
                                 !.rcv_ann_right_edge = U32(in.seq + 1),
                                 !.lastack = in.ackno,
                                 !.snd_wnd = in.wnd,
                                 !.snd_wl1 = U32(in.seq - 1),
                                 !.rtime = rest.unacked # <<>>,
                                 !.state = "ESTABLISHED"])),
                !.state = "NONE"]
       ELSE IF in.ack
       THEN With(tcp_rst(p, in.ackno, in.seq + TCP_TCPLEN(in)), LAMBDA q :
                [c EXCEPT !.pcb = IF q.nrtx < TCP_MAXRTX
                                  THEN tcp_rexmit_rto([q EXCEPT !.rtime = TRUE]) ELSE q])
       ELSE c

\* The acknowledgement of the SYN makes the netconn and queues it for accept.
SynRcvd(c, in) ==
    LET p == c.pcb
    IN IF in.ack
       THEN IF TCP_SEQ_BETWEEN(in.ackno, p.lastack + 1, p.snd_nxt)
            THEN With(tcp_receive([p EXCEPT !.state = "ESTABLISHED"], in), LAMBDA q :
                     [c EXCEPT !.ref = TRUE, !.mboxOk = TRUE,
                               !.pcb = IF q.got_fin
                                       THEN [tcp_ack_now(InitialCwnd(q)) EXCEPT !.state = "CLOSE_WAIT"]
                                       ELSE InitialCwnd(q)])
            ELSE [c EXCEPT !.pcb = tcp_rst(@, in.ackno, in.seq + TCP_TCPLEN(in))]
       ELSE IF in.syn /\ in.seq = U32(p.rcv_nxt - 1) THEN [c EXCEPT !.pcb = tcp_rexmit(@)]
       ELSE c

\* tcp_pcb_purge and the move to tcp_tw_pcbs.
ToTimeWait(p) ==
    [FreeOoseq(p) EXCEPT !.state = "TIME_WAIT", !.unsent = <<>>, !.unacked = <<>>,
                         !.refused = <<>>, !.refused_fin = FALSE, !.rtime = FALSE]

AllAcked(p, in) == in.ack /\ in.ackno = p.snd_nxt /\ p.unsent = <<>>

\* The states from ESTABLISHED on, after tcp_receive; was is the state before it.
AfterReceive(p, was, in) ==
    CASE was \in {"ESTABLISHED", "CLOSE_WAIT"} ->
            IF p.got_fin THEN [tcp_ack_now(p) EXCEPT !.state = "CLOSE_WAIT"] ELSE p
      [] was = "FIN_WAIT_1" ->
            IF p.got_fin
            THEN IF AllAcked(p, in) THEN ToTimeWait(tcp_ack_now(p))
                 ELSE [tcp_ack_now(p) EXCEPT !.state = "CLOSING"]
            ELSE IF AllAcked(p, in) THEN [p EXCEPT !.state = "FIN_WAIT_2"] ELSE p
      [] was = "FIN_WAIT_2" -> IF p.got_fin THEN ToTimeWait(tcp_ack_now(p)) ELSE p
      [] was = "CLOSING" -> IF AllAcked(p, in) THEN ToTimeWait(p) ELSE p
      [] was = "LAST_ACK" ->
            IF AllAcked(p, in) THEN [p EXCEPT !.flags = @ \cup {"TF_CLOSED"}] ELSE p

RstAcceptable(p, in) ==
    IF p.state = "SYN_SENT" THEN in.ackno = p.snd_nxt ELSE in.seq = p.rcv_nxt

tcp_process(c, in) ==
    LET p == c.pcb
    IN IF in.rst
       THEN IF RstAcceptable(p, in) THEN [c EXCEPT !.pcb.flags = @ \cup {"TF_RESET"}]
            ELSE IF p.state # "SYN_SENT"
                    /\ TCP_SEQ_BETWEEN(in.seq, p.rcv_nxt, p.rcv_nxt + p.rcv_wnd)
            THEN [c EXCEPT !.pcb = tcp_ack_now(@)]
            ELSE c
       ELSE IF in.syn /\ p.state \notin {"SYN_SENT", "SYN_RCVD"}
       THEN [c EXCEPT !.pcb = tcp_ack_now(@)]
       ELSE With([c EXCEPT !.pcb.persist_probe = 0], LAMBDA d :
                CASE Has(d, "SYN_SENT") -> SynSent(d, in)
                  [] Has(d, "SYN_RCVD") -> SynRcvd(d, in)
                  [] OTHER -> With(tcp_receive(d.pcb, in), LAMBDA q :
                                  [d EXCEPT !.pcb = AfterReceive(q, d.pcb.state, in)]))

(***************************************************************************)
(* tcp_input.                                                              *)
(***************************************************************************)

tcp_input_delayed_close(c) ==
    Free(IF "RXCLOSED" \in c.pcb.flags THEN c ELSE EventErr(c))

Events(c) ==
    With(IF c.pcb.recv_acked > 0 THEN MaybeWritemore(c) ELSE c, LAMBDA d :
        IF "TF_CLOSED" \in d.pcb.flags THEN tcp_input_delayed_close(d)
        ELSE IF "RXCLOSED" \in d.pcb.flags /\ d.pcb.recv_data # <<>> THEN tcp_abort(d)
        ELSE With(EventsToApp(d), Output))

ActiveInput(c, in) ==
    With(tcp_process_refused_data(c), LAMBDA d :
        IF d.pcb.refused # <<>> /\ TCP_TCPLEN(in) > 0
        THEN IF d.pcb.rcv_ann_wnd = 0 THEN [d EXCEPT !.pcb = tcp_send_empty_ack(@)] ELSE d
        ELSE With(tcp_process(d, in), LAMBDA f :
                 IF "TF_RESET" \in f.pcb.flags THEN Free(EventErr(f)) ELSE Events(f)))

tcp_timewait_input(c, in) ==
    IF in.rst \/ TCP_TCPLEN(in) = 0 THEN c
    ELSE IF in.syn /\ TCP_SEQ_BETWEEN(in.seq, c.pcb.rcv_nxt, c.pcb.rcv_nxt + c.pcb.rcv_wnd)
    THEN [c EXCEPT !.pcb = tcp_rst(@, in.ackno, in.seq + TCP_TCPLEN(in))]
    ELSE Output([c EXCEPT !.pcb = tcp_ack_now(@)])

\* No connection and no listener: a reset.
NoPcbInput(c, in) ==
    IF in.rst THEN c ELSE [c EXCEPT !.pcb = tcp_rst(@, in.ackno, in.seq + TCP_TCPLEN(in))]

\* The listener takes one SYN; the ones after it meet a full backlog.
tcp_listen_input(c, in) ==
    IF in.rst \/ (~in.ack /\ (~in.syn \/ opens)) THEN c
    ELSE IF in.ack THEN NoPcbInput(c, in)
    ELSE Output([c EXCEPT !.pcb = tcp_enqueue_flags(
             [tcp_alloc("SYN_RCVD") EXCEPT
                 !.rcv_nxt = U32(in.seq + 1), !.rcv_ann_right_edge = U32(in.seq + 1),
                 !.snd_wl2 = Iss["B"], !.snd_nxt = Iss["B"], !.lastack = Iss["B"],
                 !.snd_lbb = Iss["B"], !.snd_wl1 = U32(in.seq - 1), !.snd_wnd = in.wnd], TRUE)])

tcp_input(e, c, in) ==
    CASE Has(c, "NONE") -> IF e = "B" THEN tcp_listen_input(c, in) ELSE NoPcbInput(c, in)
      [] Has(c, "TIME_WAIT") -> tcp_timewait_input(c, in)
      [] OTHER -> ActiveInput(c, in)

(***************************************************************************)
(* tcp_slowtmr for one pcb.  fire: its retransmission or persist timer     *)
(* runs out; idle: it has been silent for longer than the limit its state  *)
(* and its out-of-sequence queue have.                                     *)
(***************************************************************************)

PersistFires(p) ==
    IF p.snd_wnd = 0 THEN tcp_zero_window_probe(p)
    ELSE IF p.unsent = <<>> THEN p
    ELSE tcp_output(tcp_split_unsent_seg(p, p.snd_wnd))

RtoFires(p) ==
    IF p.unacked = <<>> /\ p.unsent = <<>> THEN p
    ELSE With([tcp_rexmit_rto_prepare(p) EXCEPT !.rtime = TRUE, !.cwnd = TCP_MSS,
                                                !.nrtx = OneMore(@)], tcp_output)

\* Mutant: retransmissions are not counted.
GaveUpProbingOnly(p) == p.persist /\ p.persist_probe >= TCP_MAXRTX

GaveUp(p) == p.nrtx >= TCP_MAXRTX \/ (p.persist /\ p.persist_probe >= TCP_MAXRTX)

\* Mutant: FIN_WAIT_2 has no limit.
TimedOutButFinWait(p) == p.state \in {"SYN_RCVD", "LAST_ACK"}

TimedOut(p) ==
    \/ p.state = "FIN_WAIT_2" /\ "RXCLOSED" \in p.flags
    \/ p.state \in {"SYN_RCVD", "LAST_ACK"}

\* Mutant: the error callback is not called.
PurgeQuietly(c) == Free(c)

\* The pcb is freed and the error callback called.
PurgeWithError(c) == EventErr(Free(c))

SlowTmr(c, fire, idle) ==
    LET p == c.pcb
        q == IF GaveUp(p) \/ ~fire THEN p
             ELSE IF p.persist THEN PersistFires(p)
             ELSE IF p.rtime THEN RtoFires(p)
             ELSE p
    IN IF Has(c, "TIME_WAIT") THEN IF idle THEN Free(c) ELSE c
       ELSE IF GaveUp(p) \/ (idle /\ TimedOut(p)) THEN PurgeWithError([c EXCEPT !.pcb = q])
       ELSE With([c EXCEPT !.pcb = IF idle THEN FreeOoseq(q) ELSE q],
                 LAMBDA d : Output(MaybeWritemore(d)))

(***************************************************************************)
(* Steps.                                                                  *)
(***************************************************************************)

OnTheWire(s) ==
    [seq |-> s.seq, data |-> s.data, syn |-> s.syn, fin |-> s.fin, rst |-> s.rst,
     ack |-> s.ack, ackno |-> s.ackno, wnd |-> s.wnd]

Carry(flying, out) ==
    LET n == Min({Len(out), NetCap - Len(flying)})
    IN flying \o [i \in 1..n |-> OnTheWire(out[i])]

\* Side e becomes c; the segments it sent join those that remain in flight.
Step(e, c0, remain) ==
    \E c \in {c0} :
        /\ sock' = [sock EXCEPT ![e] = [c EXCEPT !.pcb = Settled(@)]]
        /\ net' = [remain EXCEPT ![Peer(e)] = Carry(@, c.pcb.out)]

\* A call of the application that reaches the pcb; conn->pcb.tcp is not dangling.
Calls(e) == sock[e].ref /\ ~Has(sock[e], "NONE") /\ sock[e].state = "NONE"

Connect ==
    LET iss == Iss["A"]
        p == [tcp_alloc("SYN_SENT") EXCEPT !.snd_nxt = iss, !.lastack = U32(iss - 1),
                  !.snd_wl2 = U32(iss - 1), !.snd_lbb = U32(iss - 1)]
    IN /\ sock["A"] = NewSock
       /\ Step("A", Output([sock["A"] EXCEPT !.pcb = tcp_enqueue_flags(p, TRUE),
                               !.ref = TRUE, !.mboxOk = TRUE, !.state = "CONNECT"]), net)
       /\ UNCHANGED <<opens, faults>>

\* A step that is a fault if b holds.
Fault(b) ==
    /\ b => faults < MaxFaults
    /\ faults' = faults + Flag(b)

\* Segment i arrives, or a copy of it.
Deliver(e, i, again) ==
    LET s == net[e][i] IN
    /\ Fault(again \/ i > 1)
    /\ opens' = (opens \/ (e = "B" /\ s.syn))
    /\ Step(e, tcp_input(e, sock[e], s),
            IF again THEN net ELSE [net EXCEPT ![e] = RemoveAt(@, i)])

Lose(e, i) ==
    /\ Fault(TRUE)
    /\ net' = [net EXCEPT ![e] = RemoveAt(@, i)]
    /\ UNCHANGED <<sock, opens>>

tcp_fasttmr(e) ==
    /\ sock[e].pcb.state \notin {"NONE", "TIME_WAIT"}
    /\ "ACK_DELAY" \in sock[e].pcb.flags \/ sock[e].pcb.refused # <<>>
    /\ Step(e, FastTmr(sock[e]), net)
    /\ UNCHANGED <<opens, faults>>

\* A timeout is premature while something is in flight.
tcp_slowtmr(e, fire, idle) ==
    /\ ~Has(sock[e], "NONE")
    /\ Fault((fire \/ idle) /\ \E f \in Ends : net[f] # <<>>)
    /\ Step(e, SlowTmr(sock[e], fire, idle), net)
    /\ UNCHANGED opens

Write(e, n) ==
    /\ Calls(e) /\ sock[e].pcb.state \in {"ESTABLISHED", "CLOSE_WAIT"}
    /\ sock[e].sent + n <= MaxSend[e]
    /\ Step(e, Output(Writemore([sock[e] EXCEPT !.left = n])), net)
    /\ UNCHANGED <<opens, faults>>

\* lwip_recv_tcp takes a message, data or an error, from the mailbox.
Fetch(e) ==
    LET m == Head(sock[e].mbox)
    IN /\ sock[e].mbox # <<>> /\ m # EOF
       /\ sock' = [sock EXCEPT ![e] =
              IF m = ERR THEN [@ EXCEPT !.mbox = Tail(@)]
              ELSE [@ EXCEPT !.mbox = Tail(@), !.read = @ \o m, !.taken = @ + Len(m)]]
       /\ UNCHANGED <<net, opens, faults>>

\* ... and gives the bytes back to the window, if there is still a pcb.
Recved(e) ==
    LET c == [sock[e] EXCEPT !.taken = 0]
    IN /\ sock[e].taken > 0
       /\ sock[e].ref => ~Has(sock[e], "NONE")
       /\ Step(e, IF c.ref THEN [c EXCEPT !.pcb = tcp_recved(@, sock[e].taken)] ELSE c, net)
       /\ UNCHANGED <<opens, faults>>

\* The end of the stream; the receive side is shut down at once, unless a write or
\* an error prevents it.
FetchEof(e) ==
    LET c == [sock[e] EXCEPT !.mbox = Tail(@), !.eof = TRUE]
    IN /\ sock[e].mbox # <<>> /\ Head(sock[e].mbox) = EOF /\ sock[e].taken = 0
       /\ sock[e].ref => ~Has(sock[e], "NONE")
       /\ Step(e, IF c.ref /\ c.state = "NONE" THEN DoClose(c, "RD") ELSE c, net)
       /\ UNCHANGED <<opens, faults>>

Shutdown(e, how) ==
    /\ Calls(e) /\ how \notin sock[e].shut
    /\ Step(e, DoClose(sock[e], how), net)
    /\ UNCHANGED <<opens, faults>>

Close(e) ==
    /\ sock[e] # NewSock /\ sock[e].shut # {"RD", "WR"}
    /\ sock[e].ref => Calls(e)
    /\ ~sock[e].ref => sock[e].err
    /\ Step(e, DoDelconn(sock[e]), net)
    /\ UNCHANGED <<opens, faults>>

Next ==
    \/ Connect
    \/ \E e \in Ends :
        \/ \E i \in DOMAIN net[e] : Deliver(e, i, FALSE) \/ Deliver(e, i, TRUE) \/ Lose(e, i)
        \/ tcp_fasttmr(e)
        \/ \E fire, idle \in BOOLEAN : tcp_slowtmr(e, fire, idle)
        \/ \E n \in Writes : Write(e, n)
        \/ Fetch(e)
        \/ Recved(e)
        \/ FetchEof(e)
        \/ \E how \in Hows : Shutdown(e, how)
        \/ Close(e)

Spec == Init /\ [][Next]_vars

\* The timers run, and what the network does not lose it delivers.
FairSpec ==
    /\ Spec
    /\ \A e \in Ends :
        /\ WF_vars(net[e] # <<>> /\ Deliver(e, 1, FALSE))
        /\ WF_vars(tcp_slowtmr(e, TRUE, FALSE))
        /\ WF_vars(tcp_slowtmr(e, FALSE, TRUE))

(***************************************************************************)
(* Properties.                                                             *)
(***************************************************************************)

DataOf(mbox) == FlattenSeq(SelectSeq(mbox, LAMBDA m : m # EOF /\ m # ERR))
Written(e) == [i \in 1..sock[e].sent |-> i]
Synchronized(e) == sock[e].pcb.state \notin {"NONE", "SYN_SENT", "SYN_RCVD"}

\* The sequence number of byte i of side e's stream, and its queued segments.
ByteSeq(e, i) == U32(Iss[e] + i - Flag(e = "A"))
Queued(e) == ToSet(sock[e].pcb.unacked \o sock[e].pcb.unsent)

\* What one side's application has read, and what waits for it in the mailbox and
\* in refused_data, is a prefix of what the other side's application has written:
\* nothing is lost, repeated or reordered by retransmissions, splits and probes.
InOrder ==
    \A e \in Ends : sock[e].mboxOk =>
        IsPrefix(sock[e].read \o DataOf(sock[e].mbox) \o sock[e].pcb.refused, Written(Peer(e)))

\* An application that has seen the end of the stream has read all of it, and the
\* other side has really shut its sending side down.
EofIsTrue ==
    \A e \in Ends : sock[e].eof =>
        /\ sock[e].read = Written(Peer(e))
        /\ "WR" \in sock[Peer(e)].shut

\* While both sides are connected, a sender has dropped nothing the receiver still
\* needs: each byte at or behind the receiver's rcv_nxt is in exactly one segment
\* of the queues, at its sequence number, whichever of the queues the segment has
\* been moved to.
SenderHoldsRest ==
    \A e \in Ends : Synchronized(e) /\ Synchronized(Peer(e)) =>
        \A i \in 1..sock[e].sent :
            TCP_SEQ_GEQ(ByteSeq(e, i), sock[Peer(e)].pcb.rcv_nxt) =>
                Cardinality({s \in Queued(e) : \E k \in DOMAIN s.data :
                                /\ s.data[k] = i
                                /\ U32(s.seq + k - 1) = ByteSeq(e, i)}) = 1

\* The persist timer, which silences the retransmission timer, never runs while
\* segments wait for an acknowledgement: they would not be retransmitted.
PersistSane == \A e \in Ends : sock[e].pcb.persist => sock[e].pcb.unacked = <<>>

\* A pcb is only freed behind the netconn's back when the application has shut down
\* its sending side alone; in every other case err_tcp or the close comes first.
DanglingOnlyHalfClosed ==
    \A e \in Ends : sock[e].ref /\ Has(sock[e], "NONE") => "WR" \in sock[e].shut

\* A blocking connect returns, with a connection or an error, whatever is lost.
ConnectReturns == sock["A"].state = "CONNECT" ~> sock["A"].state # "CONNECT"

\* A connection the application has closed is freed in the end, also when the other
\* side never closes or is gone.
Closed(e) == sock[e].shut = {"RD", "WR"} /\ ~sock[e].ref
ClosedIsFreed == \A e \in Ends : Closed(e) ~> Has(sock[e], "NONE")
=============================================================================
