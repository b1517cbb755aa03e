----------------------------- MODULE TcpSocket -----------------------------
(***************************************************************************)
(* Between lwIP's TCP and its sockets: received data and the end of the    *)
(* stream go up through the mailbox conn->recvmbox, what does not fit      *)
(* waits in pcb->refused_data, and the reader gives the window back        *)
(* (core/tcp.c, core/tcp_in.c, api/api_msg.c).                             *)
(*                                                                         *)
(* The operators work on a socket c, a record with at least the fields pcb *)
(* and mbox, and lost: the history of an end of stream that never reaches  *)
(* the mailbox.  TF_RXCLOSED in pcb.flags stands for pcb->recv = NULL too: *)
(* both are set by every shutdown of the receive side.                     *)
(***************************************************************************)
EXTENDS TcpSender

CONSTANTS
    MboxSize,  \* messages recvmbox holds
    MaxChunk   \* the most bytes of one message: 64K

ASSUME SocketAssumption == {MboxSize, MaxChunk} \subseteq Nat \ {0}

\* &netconn_closed; a message with data is not empty.
EOF == <<>>

MboxFull(c) == Len(c.mbox) >= MboxSize

tcp_recved(p, len) ==
    With(RecvedWindow(p, len), LAMBDA w :
        With(tcp_update_rcv_ann_wnd(w), LAMBDA q :
            IF WndInflation(w) >= WndThreshold THEN tcp_output(tcp_ack_now(q)) ELSE q))

\* TCP_EVENT_CLOSED: recv_tcp without data.  Its error is not looked at.
EventClosed(c) ==
    IF "RXCLOSED" \in c.pcb.flags THEN c
    ELSE IF MboxFull(c) THEN [c EXCEPT !.lost = TRUE]
    ELSE [c EXCEPT !.mbox = Append(@, EOF)]

FinToApp(c) == EventClosed([c EXCEPT !.pcb = FinWindow(@)])

\* TCP_EVENT_RECV in pieces of at most MaxChunk bytes (pbuf_split_64k); what the
\* mailbox does not take is refused.
PostChunk(v) ==
    LET n == Min({Len(v.left), MaxChunk})
    IN IF v.left = <<>> \/ MboxFull(v) THEN v
       ELSE [mbox |-> Append(v.mbox, SubSeq(v.left, 1, n)),
             left |-> SubSeq(v.left, n + 1, Len(v.left))]

Post(c, data) ==
    LET posted[n \in 0..Len(data)] ==
            IF n = 0 THEN [mbox |-> c.mbox, left |-> data] ELSE With(posted[n - 1], PostChunk)
        end == posted[Len(data)]
    IN [c EXCEPT !.mbox = end.mbox, !.pcb.refused = IF end.left = <<>> THEN @ ELSE end.left]

\* tcp_recv_null takes everything.
PostData(c, data) ==
    IF "RXCLOSED" \in c.pcb.flags THEN [c EXCEPT !.pcb = tcp_recved(@, Len(data))]
    ELSE Post(c, data)

\* Mutant: the mark of a refused FIN is dropped.
RefusedWithoutFin(c) ==
    IF c.pcb.refused = <<>> \/ (MboxFull(c) /\ "RXCLOSED" \notin c.pcb.flags) THEN c
    ELSE PostData([c EXCEPT !.pcb.refused = <<>>, !.pcb.refused_fin = FALSE], c.pcb.refused)

\* The mark of a refused FIN is on the first buffer: if that one goes up alone the
\* mark goes with it.
tcp_process_refused_data(c) ==
    LET data == c.pcb.refused
        whole == Len(data) <= MaxChunk
        up == PostData([c EXCEPT !.pcb.refused = <<>>, !.pcb.refused_fin = FALSE], data)
    IN IF data = <<>> \/ (MboxFull(c) /\ "RXCLOSED" \notin c.pcb.flags) THEN c
       ELSE IF ~c.pcb.refused_fin THEN up
       ELSE IF whole THEN FinToApp(up)
       ELSE [up EXCEPT !.lost = TRUE]

\* tcp_input after tcp_process: data goes up or is kept, then the FIN.
EventsToApp(c) ==
    With(Post(c, c.pcb.recv_data), LAMBDA d :
        IF ~c.pcb.got_fin THEN d
        ELSE IF d.pcb.refused # <<>> THEN [d EXCEPT !.pcb.refused_fin = TRUE]
        ELSE FinToApp(d))

\* What tcp_fasttmr does for one pcb: a delayed acknowledgement is sent, or
\* forgotten when tcp_output has data it does not send yet.
FastTmr(c) ==
    LET acked == [tcp_output(tcp_ack_now(c.pcb)) EXCEPT !.flags = @ \ {"ACK_DELAY", "ACK_NOW"}]
    IN With(IF "ACK_DELAY" \in c.pcb.flags THEN [c EXCEPT !.pcb = acked] ELSE c,
            tcp_process_refused_data)

\* Mutant: the list of selective acknowledgements stays.
FreeOoseqNotSacks(p) == [p EXCEPT !.ooseq = <<>>]

\* tcp_free_ooseq
FreeOoseq(p) == [p EXCEPT !.ooseq = <<>>, !.sacks = <<>>]

\* A pcb as tcp_alloc makes it.
tcp_alloc(state) ==
    [state |-> state, flags |-> {}, out |-> <<>>,
     snd_nxt |-> 0, lastack |-> 0, snd_lbb |-> 0, snd_wnd |-> TCP_WND, snd_wl1 |-> 0,
     snd_wl2 |-> 0, snd_buf |-> TCP_SND_BUF, cwnd |-> 1, unsent |-> <<>>, unacked |-> <<>>,
     nrtx |-> 0, rtime |-> FALSE, dupacks |-> 0, persist |-> FALSE, persist_probe |-> 0,
     recv_acked |-> 0,
     rcv_nxt |-> 0, rcv_wnd |-> TCP_WND, rcv_ann_wnd |-> TCP_WND, rcv_ann_right_edge |-> 0,
     ooseq |-> <<>>, sacks |-> <<>>, refused |-> <<>>, refused_fin |-> FALSE,
     recv_data |-> <<>>, got_fin |-> FALSE, overran |-> FALSE]

\* The end of a step: what it sent is on its way, the globals are cleared.
Settled(p) == [p EXCEPT !.out = <<>>, !.recv_data = <<>>, !.got_fin = FALSE, !.recv_acked = 0]
=============================================================================
