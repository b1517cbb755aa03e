----------------------------- MODULE TcpSender -----------------------------
(***************************************************************************)
(* The sending side of lwIP's TCP as operators on a protocol control block *)
(* (core/tcp_out.c, the acknowledgement part of tcp_receive in             *)
(* core/tcp_in.c): the queues of unsent and unacknowledged segments, the   *)
(* send window, fast and slow retransmission, zero-window probes.          *)
(*                                                                         *)
(* Memory is libc's and does not run out.  The congestion window is capped *)
(* at TCP_WND, above which it has no effect; with the window of two        *)
(* segments assumed here the slow start threshold is never below the cap,  *)
(* and segments are full-sized (mss_local is half the largest window).     *)
(***************************************************************************)
EXTENDS TcpReceiver

CONSTANTS
    TCP_SND_BUF,  \* bytes a pcb queues
    TCP_MAXRTX,   \* retransmissions and probes before giving up
    DupThreshold  \* duplicate acknowledgements that start a fast retransmit: 3

ASSUME SenderAssumption ==
    /\ {TCP_SND_BUF, TCP_MAXRTX, DupThreshold} \subseteq Nat \ {0}
    /\ TCP_WND = 2 * TCP_MSS /\ TCP_WND <= TCP_SND_BUF

Cwnd(n) == Min({n, TCP_WND})

\* A segment of the send queues and what it looks like on the wire.
QueueSeg(seq, data, syn, fin) == [seq |-> seq, data |-> data, syn |-> syn, fin |-> fin]

OnWire(p, s) ==
    [seq |-> s.seq, data |-> s.data, syn |-> s.syn, fin |-> s.fin, rst |-> FALSE,
     ack |-> p.state # "SYN_SENT", ackno |-> p.rcv_nxt, wnd |-> p.rcv_ann_wnd,
     sacks |-> <<>>]

tcp_rst(p, seqno, ackno) ==
    [p EXCEPT !.out = Append(@,
        [seq |-> U32(seqno), data |-> <<>>, syn |-> FALSE, fin |-> FALSE, rst |-> TRUE,
         ack |-> TRUE, ackno |-> U32(ackno), wnd |-> TCP_WND, sacks |-> <<>>])]

(***************************************************************************)
(* Queueing.                                                               *)
(***************************************************************************)

\* A queue kept sorted by sequence number.
InsertSorted(queue, s) ==
    LET i == SelectInSeq(queue, LAMBDA q : ~TCP_SEQ_LT(q.seq, s.seq))
    IN IF i = 0 THEN Append(queue, s) ELSE InsertAt(queue, i, s)

\* The bytes of data cut into segments that start at sequence number seq.
Chop(seq, data) ==
    [i \in 1..((Len(data) + TCP_MSS - 1) \div TCP_MSS) |->
        QueueSeg(U32(seq + (i - 1) * TCP_MSS),
                 SubSeq(data, (i - 1) * TCP_MSS + 1, Min({i * TCP_MSS, Len(data)})),
                 FALSE, FALSE)]

\* Data fills the last unsent segment up to the segment size, then new ones.
tcp_write(p, data) ==
    LET last == IF p.unsent = <<>> THEN QueueSeg(0, <<>>, TRUE, FALSE) ELSE Last(p.unsent)
        room == IF last.syn THEN 0 ELSE Min({TCP_MSS - Len(last.data), Len(data)})
        filled == IF room = 0 THEN p.unsent
                  ELSE Append(Front(p.unsent),
                              [last EXCEPT !.data = @ \o SubSeq(data, 1, room)])
    IN [p EXCEPT !.unsent = filled \o Chop(p.snd_lbb + room, SubSeq(data, room + 1, Len(data))),
                 !.snd_lbb = U32(@ + Len(data)),
                 !.snd_buf = @ - Len(data)]

\* A SYN or a FIN in a segment of its own.
tcp_enqueue_flags(p, syn) ==
    [p EXCEPT !.unsent = Append(@, QueueSeg(p.snd_lbb, <<>>, syn, ~syn)),
              !.snd_lbb = U32(@ + 1),
              !.flags = IF syn THEN @ ELSE @ \cup {"FIN"}]

tcp_send_fin(p) ==
    LET n == Len(p.unsent)
    IN IF n > 0 /\ ~p.unsent[n].syn /\ ~p.unsent[n].fin
       THEN [p EXCEPT !.unsent[n].fin = TRUE, !.flags = @ \cup {"FIN"}]
       ELSE tcp_enqueue_flags(p, FALSE)

(***************************************************************************)
(* Output.                                                                 *)
(***************************************************************************)

Wnd(p) == Min({p.snd_wnd, p.cwnd})

Fits(p, s) == U32(s.seq - p.lastack + Len(s.data)) <= Wnd(p)

tcp_do_output_nagle(p) ==
    \/ p.unacked = <<>>
    \/ "INFR" \in p.flags
    \/ Len(p.unsent) > 1
    \/ Len(p.unsent[1].data) >= TCP_MSS
    \/ p.snd_buf = 0

\* tcp_output_segment and what tcp_output does for each segment it sends.
SendHead(p) ==
    LET s == Head(p.unsent)
        end == U32(s.seq + TCP_TCPLEN(s))
    IN [p EXCEPT !.out = Append(@, OnWire(p, s)),
                 !.unsent = Tail(@),
                 !.unacked = InsertSorted(@, s),
                 !.flags = IF p.state = "SYN_SENT" THEN @ ELSE @ \ {"ACK_DELAY", "ACK_NOW"},
                 !.snd_nxt = IF TCP_SEQ_LT(@, end) THEN end ELSE @,
                 !.rtime = TRUE,
                 !.rcv_ann_right_edge = U32(p.rcv_nxt + p.rcv_ann_wnd)]

SendIfFits(p) ==
    IF p.unsent # <<>> /\ Fits(p, Head(p.unsent))
       /\ (tcp_do_output_nagle(p) \/ "FIN" \in p.flags)
    THEN SendHead(p)
    ELSE p

\* One segment after the other; each turn of the loop takes one off the queue.
SendWhatFits(p) ==
    LET after[n \in 0..Len(p.unsent)] == IF n = 0 THEN p ELSE With(after[n - 1], SendIfFits)
    IN after[Len(p.unsent)]

AckIfDue(p) == IF "ACK_NOW" \in p.flags THEN tcp_send_empty_ack(p) ELSE p

\* Mutant: segments in flight are not looked at.
StartPersistInFlight(p) ==
    IF p.snd_wnd <= p.cwnd /\ ~p.persist
    THEN [p EXCEPT !.persist = TRUE, !.persist_probe = 0] ELSE p

\* The persist timer starts when the peer's window, not the congestion window,
\* holds back data and nothing is in flight.
StartPersist(p) ==
    IF p.snd_wnd <= p.cwnd /\ p.unacked = <<>> /\ ~p.persist
    THEN [p EXCEPT !.persist = TRUE, !.persist_probe = 0] ELSE p

tcp_output(p) ==
    IF p.unsent = <<>> THEN AckIfDue(p)
    ELSE IF ~Fits(p, Head(p.unsent)) THEN AckIfDue(StartPersist(p))
    ELSE SendWhatFits([p EXCEPT !.persist = FALSE])

(***************************************************************************)
(* Retransmission.                                                         *)
(***************************************************************************)

OneMore(n) == Min({n + 1, TCP_MAXRTX})

\* All unacknowledged segments go back in front of the unsent ones.
tcp_rexmit_rto_prepare(p) == [p EXCEPT !.unsent = p.unacked \o @, !.unacked = <<>>]

\* tcp_rexmit_rto as tcp_process calls it: tcp_output runs later.
tcp_rexmit_rto(p) ==
    IF p.unacked = <<>> THEN p
    ELSE [tcp_rexmit_rto_prepare(p) EXCEPT !.nrtx = OneMore(@)]

tcp_rexmit(p) ==
    IF p.unacked = <<>> THEN p
    ELSE [p EXCEPT !.unacked = Tail(@),
                   !.unsent = InsertSorted(@, Head(p.unacked)),
                   !.nrtx = OneMore(@)]

tcp_rexmit_fast(p) ==
    IF p.unacked = <<>> \/ "INFR" \in p.flags THEN p
    ELSE [tcp_rexmit(p) EXCEPT !.cwnd = TCP_WND, !.flags = @ \cup {"INFR"}, !.rtime = TRUE]

\* One byte, or the FIN, beyond the closed window; it stays in the unsent queue.
tcp_zero_window_probe(p) ==
    LET s == Head(p.unsent)
        isFin == s.fin /\ s.data = <<>>
        probe == QueueSeg(s.seq, SubSeq(s.data, 1, 1), FALSE, isFin)
        end == U32(s.seq + 1)
    IN IF p.unsent = <<>> THEN p
       ELSE [p EXCEPT !.persist_probe = OneMore(@),
                      !.snd_nxt = IF TCP_SEQ_LT(@, end) THEN end ELSE @,
                      !.out = Append(@, OnWire(p, probe)),
                      !.rcv_ann_right_edge = U32(p.rcv_nxt + p.rcv_ann_wnd)]

\* The first unsent segment is cut so that its start fits the window.
tcp_split_unsent_seg(p, split) ==
    LET s == Head(p.unsent)
        rest == QueueSeg(U32(s.seq + split), SubSeq(s.data, split + 1, Len(s.data)), FALSE, s.fin)
        first == [Shorten(s, split) EXCEPT !.fin = FALSE]
    IN IF p.unsent = <<>> \/ Len(s.data) <= split THEN p
       ELSE [p EXCEPT !.unsent = <<first, rest>> \o Tail(@)]

(***************************************************************************)
(* An acknowledgement (tcp_receive, its first half).                       *)
(***************************************************************************)

UpdatesWindow(p, in) ==
    \/ TCP_SEQ_LT(p.snd_wl1, in.seq)
    \/ p.snd_wl1 = in.seq /\ TCP_SEQ_LT(p.snd_wl2, in.ackno)
    \/ p.snd_wl2 = in.ackno /\ in.wnd > p.snd_wnd

WindowUpdate(p, in) ==
    IF UpdatesWindow(p, in)
    THEN [p EXCEPT !.snd_wnd = in.wnd, !.snd_wl1 = in.seq, !.snd_wl2 = in.ackno] ELSE p

\* Mutant: a segment is freed when its first byte is acknowledged.
FreePartlyAcked(queue, ackno) == SelectSeq(queue, LAMBDA s : ~TCP_SEQ_LT(s.seq, ackno))

tcp_free_acked_segments(queue, ackno) ==
    LET i == SelectInSeq(queue, LAMBDA s : ~TCP_SEQ_LEQ(s.seq + TCP_TCPLEN(s), ackno))
    IN IF i = 0 THEN <<>> ELSE SubSeq(queue, i, Len(queue))

Bytes(queue) == Len(FlattenSeq([i \in DOMAIN queue |-> queue[i].data]))

\* edge is the send window's right edge before this segment.
DuplicateAck(p, in, edge) ==
    LET n == Min({p.dupacks + 1, DupThreshold})
        q == [p EXCEPT !.dupacks = n]
    IN IF /\ TCP_TCPLEN(in) = 0
          /\ U32(p.snd_wl2 + p.snd_wnd) = edge
          /\ p.rtime
          /\ p.lastack = in.ackno
       THEN IF n < DupThreshold THEN q
            ELSE tcp_rexmit_fast([q EXCEPT !.cwnd = IF p.dupacks = DupThreshold
                                                    THEN Cwnd(@ + TCP_MSS) ELSE @])
       ELSE p

\* The bytes p's queues lose when they become unacked and unsent.
Freed(p, unacked, unsent) ==
    Bytes(p.unacked) + Bytes(p.unsent) - Bytes(unacked) - Bytes(unsent)

NewAck(p, in) ==
    LET unacked == tcp_free_acked_segments(p.unacked, in.ackno)
        unsent == tcp_free_acked_segments(p.unsent, in.ackno)
        freed == Freed(p, unacked, unsent)
        acked == U32(in.ackno - p.lastack)
        cwnd == IF "INFR" \in p.flags THEN TCP_WND ELSE p.cwnd
    IN [p EXCEPT !.flags = @ \ {"INFR"},
                 !.nrtx = 0, !.dupacks = 0,
                 !.lastack = in.ackno,
                 !.cwnd = Cwnd(cwnd + acked),
                 !.unacked = unacked, !.unsent = unsent,
                 !.rtime = unacked # <<>>,
                 !.snd_buf = @ + freed,
                 !.recv_acked = freed]

ReceiveAck(p, in) ==
    LET edge == U32(p.snd_wnd + p.snd_wl2)
    IN With(WindowUpdate(p, in), LAMBDA q :
           IF TCP_SEQ_LEQ(in.ackno, q.lastack) THEN DuplicateAck(q, in, edge)
           ELSE IF TCP_SEQ_BETWEEN(in.ackno, q.lastack + 1, q.snd_nxt) THEN NewAck(q, in)
           ELSE tcp_send_empty_ack(q))

tcp_receive(p, in) ==
    With(ReceiveAck(p, in), LAMBDA q :
        ReceiveData(q, QueueSeg(in.seq, in.data, in.syn, in.fin)))
=============================================================================
