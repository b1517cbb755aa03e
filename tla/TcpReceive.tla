----------------------------- MODULE TcpReceive -----------------------------
(***************************************************************************)
(* One receiving lwIP connection: tcp_input feeds the stream of a peer, in *)
(* any order and cut in any way, to the socket whose reader may be slow.   *)
(*                                                                         *)
(* The peer sends what the window it has been told of allows: byte i of    *)
(* the stream is the number i, and the FIN follows byte StreamLen.  The    *)
(* network loses, repeats and reorders, so any segment of the stream may   *)
(* arrive at any step.  Data goes up through the mailbox conn->recvmbox    *)
(* (api/api_msg.c, api/api_lib.c, api/sockets.c); what does not fit waits  *)
(* in pcb->refused_data.                                                   *)
(***************************************************************************)
EXTENDS TcpSocket

CONSTANTS
    StreamLen,  \* bytes the peer sends before its FIN
    Irs         \* the sequence number of the stream's first byte

ASSUME ReceiveAssumption ==
    /\ StreamLen \in Nat /\ StreamLen + 1 < SeqSpace \div 2
    /\ Irs \in 0..(SeqSpace - 1)

VARIABLES
    pcb,     \* the connection's tcp_pcb
    mbox,    \* conn->recvmbox: sequences of bytes, or EOF
    taken,   \* bytes fetched by lwip_recv_tcp and not yet given back to tcp_recved
    read,    \* the bytes the application has got, in order
    eof,     \* recv has returned 0
    eofLost  \* history: the mailbox was full when the FIN was to be posted

vars == <<pcb, mbox, taken, read, eof, eofLost>>

Stream == [i \in 1..StreamLen |-> i]

\* The pcb as the handshake leaves it; this side sends nothing but acknowledgements.
NewPcb ==
    [tcp_alloc("ESTABLISHED") EXCEPT !.rcv_nxt = Irs, !.rcv_ann_right_edge = U32(Irs + TCP_WND)]

Init ==
    /\ pcb = NewPcb
    /\ mbox = <<>> /\ taken = 0 /\ read = <<>>
    /\ eof = FALSE /\ eofLost = FALSE

\* The ESTABLISHED case of tcp_process.
tcp_process(p, s) ==
    With(ReceiveData(p, s), LAMBDA q :
        IF q.got_fin THEN [tcp_ack_now(q) EXCEPT !.state = "CLOSE_WAIT"] ELSE q)

tcp_input(view, s) ==
    With(tcp_process_refused_data(view), LAMBDA c :
        IF c.pcb.refused # <<>> /\ TCP_TCPLEN(s) > 0
        THEN IF c.pcb.rcv_ann_wnd = 0 THEN [c EXCEPT !.pcb = tcp_send_empty_ack(@)] ELSE c
        ELSE With([c EXCEPT !.pcb = tcp_process(@, s)], LAMBDA d :
                 With(EventsToApp(d), LAMBDA e : [e EXCEPT !.pcb = tcp_output(@)])))

Apply(view) ==
    \E c \in {view} :
        /\ pcb' = Settled(c.pcb)
        /\ mbox' = c.mbox
        /\ eofLost' = c.lost

View == [pcb |-> pcb, mbox |-> mbox, lost |-> eofLost]

\* The bytes i+1..i+n of the stream, with the FIN if it is asked for.
Segment(i, n, fin) ==
    [seq |-> U32(Irs + i), data |-> SubSeq(Stream, i + 1, i + n), syn |-> FALSE, fin |-> fin]

\* A FIN may lie one beyond the window: tcp_output counts only data.
PeerMaySend(s) == TCP_SEQ_LEQ(DataEnd(s), pcb.rcv_ann_right_edge)

SegmentArrives(i, n, fin) ==
    /\ n \in 0..TCP_MSS /\ i + n <= StreamLen
    /\ fin => i + n = StreamLen
    /\ PeerMaySend(Segment(i, n, fin))
    /\ Apply(tcp_input(View, Segment(i, n, fin)))
    /\ UNCHANGED <<taken, read, eof>>

\* A zero-window probe carries the next byte although the window the peer has
\* been told of is closed.
ProbeArrives ==
    LET i == U32(pcb.rcv_ann_right_edge - Irs)
    IN /\ pcb.rcv_nxt = pcb.rcv_ann_right_edge
       /\ i < StreamLen
       /\ Apply(tcp_input(View, Segment(i, 1, FALSE)))
       /\ UNCHANGED <<taken, read, eof>>

tcp_fasttmr ==
    /\ "ACK_DELAY" \in pcb.flags \/ pcb.refused # <<>>
    /\ Apply(FastTmr(View))
    /\ UNCHANGED <<taken, read, eof>>

\* tcp_slowtmr drops the queue when the connection has been silent for long.
OoseqTimeout ==
    /\ pcb.ooseq # <<>>
    /\ pcb' = FreeOoseq(pcb)
    /\ UNCHANGED <<mbox, taken, read, eof, eofLost>>

(***************************************************************************)
(* The reader: lwip_recv_tcp takes messages and then opens the window.     *)
(***************************************************************************)

FetchData ==
    /\ mbox # <<>> /\ Head(mbox) # EOF /\ ~eof
    /\ mbox' = Tail(mbox)
    /\ taken' = taken + Len(Head(mbox))
    /\ read' = read \o Head(mbox)
    /\ UNCHANGED <<pcb, eof, eofLost>>

\* A call whose buffer is small leaves the rest in sock->lastdata.
Recved(n) ==
    /\ n \in 1..taken
    /\ pcb' = Settled(tcp_recved(pcb, n))
    /\ taken' = taken - n
    /\ UNCHANGED <<mbox, read, eof, eofLost>>

\* The FIN is handled by a call that has no data to return; it shuts the receive
\* side down.
FetchEof ==
    /\ mbox # <<>> /\ Head(mbox) = EOF /\ taken = 0 /\ ~eof
    /\ mbox' = Tail(mbox)
    /\ eof' = TRUE
    /\ pcb' = [pcb EXCEPT !.flags = @ \cup {"RXCLOSED"}]
    /\ UNCHANGED <<taken, read, eofLost>>

Next ==
    \/ \E i \in 0..StreamLen, n \in 0..TCP_MSS, fin \in BOOLEAN : SegmentArrives(i, n, fin)
    \/ ProbeArrives
    \/ tcp_fasttmr
    \/ OoseqTimeout
    \/ FetchData
    \/ \E n \in 1..TCP_WND : Recved(n)
    \/ FetchEof

Spec == Init /\ [][Next]_vars

\* The peer's retransmission and persist timers and a network that does not lose
\* every copy bring the segment at rcv_nxt; the timers of this side run; the
\* application reads.
RetransmissionArrives ==
    \E n \in 0..TCP_MSS, fin \in BOOLEAN :
        /\ n > 0 \/ fin
        /\ SegmentArrives(U32(pcb.rcv_nxt - Irs), n, fin)

FairSpec ==
    /\ Spec
    /\ WF_vars(RetransmissionArrives)
    /\ WF_vars(ProbeArrives)
    /\ WF_vars(tcp_fasttmr)
    /\ WF_vars(FetchData)
    /\ WF_vars(\E n \in 1..TCP_WND : Recved(n))
    /\ WF_vars(FetchEof)

(***************************************************************************)
(* Properties.                                                             *)
(***************************************************************************)

FinTaken == pcb.state = "CLOSE_WAIT"
Received == U32(pcb.rcv_nxt - Irs) - Flag(FinTaken)
Unread == taken + Len(FlattenSeq(mbox)) + Len(pcb.refused)

\* What has been acknowledged with rcv_nxt is, in order and once, in the hands of
\* the application, in the mailbox or in refused_data, whatever was cut, queued,
\* dropped or refused on the way; the FIN is taken after the last byte only.
NothingLost ==
    /\ FlattenSeq(<<read>> \o mbox \o <<pcb.refused>>) = SubSeq(Stream, 1, Received)
    /\ FinTaken => Received = StreamLen
    /\ eof => read = Stream

\* The out-of-sequence queue is sorted and free of overlaps, lies beyond rcv_nxt,
\* holds the stream's bytes at their sequence numbers and a FIN at its end only:
\* what the walk of tcp_receive relies on.
OoseqOK ==
    LET q == pcb.ooseq
    IN \A i \in DOMAIN q :
        /\ TCP_SEQ_GT(q[i].seq, pcb.rcv_nxt)
        /\ i > 1 => TCP_SEQ_LEQ(DataEnd(q[i - 1]), q[i].seq)
        /\ LET k == U32(q[i].seq - Irs) IN q[i].data = SubSeq(Stream, k + 1, k + Len(q[i].data))
        /\ q[i].fin => i = Len(q) /\ DataEnd(q[i]) = U32(Irs + StreamLen)

\* A selective acknowledgement never covers a byte that is not in the queue, also
\* after queued segments were cut, replaced, delivered or dropped.
SackedIsHeld ==
    LET held == UNION {{U32(s.seq + k) : k \in 0..(Len(s.data) - 1)} : s \in ToSet(pcb.ooseq)}
        span(k) == {U32(k.left + n) : n \in 0..(U32(k.right - k.left) - 1)}
    IN \A k \in ToSet(pcb.sacks) : span(k) \subseteq held

\* The window and the bytes the application has still to give back add up to
\* TCP_WND.
WindowAccounted ==
    ~pcb.overran /\ ~eofLost => pcb.rcv_wnd + Unread + Flag(pcb.refused_fin) = TCP_WND

\* The right edge of the window told to the peer never moves back.
EdgeNeverShrinks == [][TCP_SEQ_LEQ(pcb.rcv_ann_right_edge, pcb'.rcv_ann_right_edge)]_vars

\* A connection whose application reads gets the whole stream and its end: the
\* window, the delayed acknowledgements and the mailbox never wait for one another.
\* The one exception is a FIN that meets a full mailbox.
StreamArrives == <>(eof \/ eofLost)
=============================================================================
