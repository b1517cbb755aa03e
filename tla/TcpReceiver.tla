---------------------------- MODULE TcpReceiver ----------------------------
(***************************************************************************)
(* The receive side of lwIP's TCP as operators on a protocol control block *)
(* (core/tcp_in.c, core/tcp.c, core/tcp_priv.h): sequence number           *)
(* comparisons, the queue of out-of-sequence segments, the list of         *)
(* selective acknowledgements, the advertised window, and what one segment *)
(* with data or a FIN does.                                                *)
(*                                                                         *)
(* Sequence numbers and windows are u32_t in the code and wrap at          *)
(* SeqSpace here.  A pcb p is a record whose fields keep the code's names; *)
(* p.out collects the segments a step sends, p.recv_data and p.got_fin are *)
(* the globals recv_data and recv_flags & TF_GOT_FIN.                      *)
(***************************************************************************)
EXTENDS Integers, Sequences, SequencesExt, FiniteSetsExt

CONSTANTS
    SeqSpace,      \* 2^32 in the code
    TCP_WND,       \* the receive window
    TCP_MSS,       \* the largest segment
    WndThreshold,  \* TCP_WND_UPDATE_THRESHOLD
    MaxSacks       \* LWIP_TCP_MAX_SACK_NUM

ASSUME ReceiverAssumption ==
    /\ {SeqSpace, TCP_WND, TCP_MSS, WndThreshold, MaxSacks} \subseteq Nat \ {0}
    /\ SeqSpace % 2 = 0
    /\ TCP_WND < SeqSpace \div 2

U32(n) == n % SeqSpace

\* The TCP_SEQ_ comparisons: the sign of the 32-bit difference.
TCP_SEQ_LT(a, b) == U32(a - b) >= SeqSpace \div 2
TCP_SEQ_GEQ(a, b) == ~TCP_SEQ_LT(a, b)
TCP_SEQ_LEQ(a, b) == U32(a) = U32(b) \/ TCP_SEQ_LT(a, b)
TCP_SEQ_GT(a, b) == ~TCP_SEQ_LEQ(a, b)
TCP_SEQ_BETWEEN(a, b, c) == TCP_SEQ_GEQ(a, b) /\ TCP_SEQ_LEQ(a, c)

\* Op(v), with v evaluated once.
With(v, Op(_)) == CHOOSE r \in {Op(x) : x \in {v}} : TRUE

(***************************************************************************)
(* Segments: [seq, data, syn, fin], data a sequence of bytes.              *)
(***************************************************************************)

Flag(b) == IF b THEN 1 ELSE 0

TCP_TCPLEN(s) == Len(s.data) + Flag(s.syn \/ s.fin)

\* The sequence number after the segment's data.
DataEnd(s) == U32(s.seq + Len(s.data))

\* pbuf_realloc to n bytes.
Shorten(s, n) == [s EXCEPT !.data = SubSeq(@, 1, n)]

\* A segment that reaches past sequence number q is cut there.
TrimTo(s, q) == IF TCP_SEQ_GT(DataEnd(s), q) THEN Shorten(s, U32(q - s.seq)) ELSE s

\* The segments of a queue up to the first that reaches past q, and the rest.
CoveredPart(queue, q) ==
    LET i == SelectInSeq(queue, LAMBDA s : TCP_SEQ_LT(q, DataEnd(s)))
    IN IF i = 0 THEN queue ELSE SubSeq(queue, 1, i - 1)

After(queue, part) == SubSeq(queue, Len(part) + 1, Len(queue))

HasFin(queue) == \E i \in DOMAIN queue : queue[i].fin

(***************************************************************************)
(* The queue of out-of-sequence segments.                                  *)
(***************************************************************************)

\* Mutant: the segment is not cut where the next one starts.
InsertUncut(cseg, next) ==
    LET gone == CoveredPart(next, DataEnd(cseg))
    IN IF cseg.fin THEN <<cseg>> ELSE <<[cseg EXCEPT !.fin = HasFin(gone)]>> \o After(next, gone)

tcp_oos_insert_segment(cseg, next) ==
    LET gone == CoveredPart(next, DataEnd(cseg))
        rest == After(next, gone)
        c == [cseg EXCEPT !.fin = HasFin(gone)]
    IN IF cseg.fin THEN <<cseg>>
       ELSE IF rest = <<>> THEN <<c>>
       ELSE <<TrimTo(c, rest[1].seq)>> \o rest

\* A segment appended to the queue is cut at the end of the window, the others
\* are not.
ClipToWindow(p, s) ==
    LET edge == U32(p.rcv_nxt + p.rcv_wnd)
    IN IF TCP_SEQ_GT(s.seq + TCP_TCPLEN(s), edge)
       THEN [Shorten(s, U32(edge - s.seq)) EXCEPT !.fin = FALSE]
       ELSE s

\* Where the walk over the queue stops: the first segment that does not start
\* before s.  The segment in front of it is prev.
OoseqPlace(queue, s) ==
    LET i == SelectInSeq(queue, LAMBDA n : TCP_SEQ_GEQ(n.seq, s.seq))
    IN IF i = 0 THEN Len(queue) + 1 ELSE i

OoseqInsert(p, s) ==
    LET q == p.ooseq
        i == OoseqPlace(q, s)
        before == SubSeq(q, 1, i - 1)
        next == SubSeq(q, i, Len(q))
        prevCut == IF before = <<>> THEN <<>>
                   ELSE Append(Front(before), TrimTo(Last(before), s.seq))
    IN IF q = <<>> THEN <<s>>
       ELSE IF next = <<>>
       THEN IF Last(q).fin THEN q ELSE Append(prevCut, ClipToWindow(p, s))
       ELSE IF next[1].seq # s.seq
       THEN prevCut \o tcp_oos_insert_segment(s, next)
       ELSE IF Len(s.data) > Len(next[1].data)
       THEN before \o tcp_oos_insert_segment(s, next)
       ELSE q

(***************************************************************************)
(* Selective acknowledgements: a sequence of [left, right], newest first.  *)
(***************************************************************************)

\* The elements of a sequence that are in a set.
Keep(s, set) ==
    LET kept[i \in 0..Len(s)] ==
            IF i = 0 THEN <<>>
            ELSE IF s[i] \in set THEN Append(kept[i - 1], s[i]) ELSE kept[i - 1]
    IN kept[Len(s)]

tcp_add_sack(sacks, left, right) ==
    LET kept == Keep(sacks, {k \in ToSet(sacks) : \/ TCP_SEQ_LEQ(k.right, left)
                                                  \/ TCP_SEQ_LEQ(right, k.left)})
        all == <<[left |-> left, right |-> right]>> \o kept
    IN IF TCP_SEQ_LT(left, right) THEN SubSeq(all, 1, Min({Len(all), MaxSacks})) ELSE sacks

tcp_remove_sacks_lt(sacks, seq) ==
    LET kept == Keep(sacks, {k \in ToSet(sacks) : TCP_SEQ_GT(k.right, seq)})
    IN [i \in DOMAIN kept |->
           IF TCP_SEQ_LT(kept[i].left, seq) THEN [kept[i] EXCEPT !.left = seq] ELSE kept[i]]

\* The range told to the peer for a segment put at place j of queue q: the
\* contiguous run of segments around it.
Adjoins(q, i) == DataEnd(q[i]) = q[i + 1].seq
RunStart(q, j) == Min({k \in 1..j : \A m \in k..(j - 1) : Adjoins(q, m)})
RunEnd(q, j) == Max({k \in j..Len(q) : \A m \in j..(k - 1) : Adjoins(q, m)})

\* What the list says once segment s has turned the old queue into q.
SacksAfter(sacks, old, q, s) ==
    LET j == OoseqPlace(old, s)
    IN IF old = <<>>
       THEN IF s.data = <<>> THEN <<>>
            ELSE <<[left |-> s.seq, right |-> DataEnd(s)]>>
       ELSE IF j > Len(q) THEN sacks
       ELSE tcp_add_sack(sacks, q[RunStart(q, j)].seq, DataEnd(q[RunEnd(q, j)]))

(***************************************************************************)
(* Acknowledgements and the advertised window.                             *)
(***************************************************************************)

tcp_ack_now(p) == [p EXCEPT !.flags = @ \cup {"ACK_NOW"}]

tcp_ack(p) ==
    IF "ACK_DELAY" \in p.flags
    THEN [p EXCEPT !.flags = (@ \ {"ACK_DELAY"}) \cup {"ACK_NOW"}]
    ELSE [p EXCEPT !.flags = @ \cup {"ACK_DELAY"}]

\* What every segment of p carries about the receive side.
EmptyAck(p) ==
    [seq |-> p.snd_nxt, data |-> <<>>, syn |-> FALSE, fin |-> FALSE, rst |-> FALSE,
     ack |-> TRUE, ackno |-> p.rcv_nxt, wnd |-> p.rcv_ann_wnd, sacks |-> p.sacks]

tcp_send_empty_ack(p) ==
    [p EXCEPT !.out = Append(@, EmptyAck(p)),
              !.flags = @ \ {"ACK_DELAY", "ACK_NOW"},
              !.rcv_ann_right_edge = U32(p.rcv_nxt + p.rcv_ann_wnd)]

CanAnnounceMore(p) ==
    TCP_SEQ_GEQ(p.rcv_nxt + p.rcv_wnd,
                p.rcv_ann_right_edge + Min({TCP_WND \div 2, TCP_MSS}))

\* Mutant: the edge that was told to the peer is forgotten.
AnnounceLess(p) == [p EXCEPT !.rcv_ann_wnd = IF CanAnnounceMore(p) THEN p.rcv_wnd ELSE 0]

tcp_update_rcv_ann_wnd(p) ==
    [p EXCEPT !.rcv_ann_wnd =
        IF CanAnnounceMore(p) THEN p.rcv_wnd
        ELSE IF TCP_SEQ_GT(p.rcv_nxt, p.rcv_ann_right_edge) THEN 0
        ELSE U32(p.rcv_ann_right_edge - p.rcv_nxt)]

\* The value the function returns.
WndInflation(p) ==
    IF CanAnnounceMore(p) THEN U32(p.rcv_nxt + p.rcv_wnd - p.rcv_ann_right_edge) ELSE 0

\* tcp_recved up to the question whether an update is due at once.
RecvedWindow(p, len) ==
    LET w == U32(p.rcv_wnd + len)
    IN [p EXCEPT !.rcv_wnd = IF w > TCP_WND \/ w < p.rcv_wnd THEN TCP_WND ELSE w]

\* Mutant: the FIN stays in the window.
FinInWindow(p) == p

\* The application does not call tcp_recved for the FIN's sequence number.
FinWindow(p) == IF p.rcv_wnd = TCP_WND THEN p ELSE [p EXCEPT !.rcv_wnd = U32(@ + 1)]

(***************************************************************************)
(* One segment with data or a FIN (tcp_receive).                           *)
(***************************************************************************)

\* Mutant: the sequence number moves, the data does not.
MoveFront(p, s) ==
    IF TCP_SEQ_BETWEEN(p.rcv_nxt, s.seq + 1, s.seq + TCP_TCPLEN(s) - 1)
    THEN [s EXCEPT !.seq = p.rcv_nxt] ELSE s

\* The part in front of rcv_nxt is cut off.
TrimFront(p, s) ==
    LET off == U32(p.rcv_nxt - s.seq)
    IN IF TCP_SEQ_BETWEEN(p.rcv_nxt, s.seq + 1, s.seq + TCP_TCPLEN(s) - 1)
       THEN [s EXCEPT !.data = SubSeq(@, off + 1, Len(@)), !.seq = p.rcv_nxt]
       ELSE s

InWindow(p, q) == TCP_SEQ_BETWEEN(q, p.rcv_nxt, p.rcv_nxt + p.rcv_wnd - 1)

\* A segment at rcv_nxt is cut at the window and at the first queued segment it
\* does not cover; it takes the FIN of one it does cover.
TrimInSequence(p, s) ==
    LET w == IF TCP_TCPLEN(s) > p.rcv_wnd THEN [Shorten(s, p.rcv_wnd) EXCEPT !.fin = FALSE]
             ELSE s
        gone == CoveredPart(p.ooseq, DataEnd(w))
        rest == After(p.ooseq, gone)
        c == [w EXCEPT !.fin = HasFin(gone)]
    IN IF p.ooseq = <<>> \/ w.fin THEN [seg |-> w, ooseq |-> <<>>]
       ELSE [seg |-> IF rest = <<>> THEN c ELSE TrimTo(c, rest[1].seq), ooseq |-> rest]

\* rcv_nxt and the window move over segment s, whose data goes up.  The assertions
\* that s fits in the window are compiled out; overran is history.
Take(p, s) ==
    With([p EXCEPT !.rcv_nxt = U32(@ + TCP_TCPLEN(s)),
                   !.rcv_wnd = U32(@ - TCP_TCPLEN(s)),
                   !.recv_data = @ \o s.data,
                   !.got_fin = @ \/ s.fin,
                   !.overran = @ \/ TCP_TCPLEN(s) > p.rcv_wnd],
         tcp_update_rcv_ann_wnd)

\* The first queued segment goes up if it has become the next in sequence.
TakeHead(p) ==
    LET c == Head(p.ooseq)
    IN IF p.ooseq = <<>> \/ c.seq # p.rcv_nxt THEN p
       ELSE [Take(p, c) EXCEPT
                 !.ooseq = Tail(@),
                 !.state = IF c.fin /\ @ = "ESTABLISHED" THEN "CLOSE_WAIT" ELSE @]

\* ... and then the next one; each turn of the loop takes one off the queue.
TakeQueued(p) ==
    LET after[n \in 0..Len(p.ooseq)] == IF n = 0 THEN p ELSE With(after[n - 1], TakeHead)
    IN after[Len(p.ooseq)]

\* The acknowledgement of data that came in sequence, and the SACKs left.
AckInSequence(p) ==
    LET q == tcp_ack([p EXCEPT !.sacks = IF p.ooseq = <<>> THEN <<>>
                                         ELSE tcp_remove_sacks_lt(@, p.ooseq[1].seq)])
    IN IF q.sacks # <<>> THEN tcp_send_empty_ack(q) ELSE q

InSequence(p, s) ==
    With(TrimInSequence(p, s), LAMBDA t :
        With(Take([p EXCEPT !.ooseq = t.ooseq], t.seg), LAMBDA q :
            With(TakeQueued(q), AckInSequence)))

OutOfSequence(p, s) ==
    With(OoseqInsert(p, s), LAMBDA q :
       tcp_send_empty_ack([p EXCEPT !.ooseq = q, !.sacks = SacksAfter(@, p.ooseq, q, s)]))

\* tcp_receive after the acknowledgement has been dealt with.  Behind CLOSE_WAIT
\* and for an empty segment only the window is looked at.
TakesData(p) == p.state \in {"ESTABLISHED", "FIN_WAIT_1", "FIN_WAIT_2"}

ReceiveData(p, in) ==
    IF TCP_TCPLEN(in) = 0 \/ ~TakesData(p)
    THEN IF InWindow(p, in.seq) THEN p ELSE tcp_ack_now(p)
    ELSE With(TrimFront(p, in), LAMBDA s :
             IF ~InWindow(p, s.seq)
             THEN tcp_send_empty_ack(IF TCP_SEQ_LT(s.seq, p.rcv_nxt) THEN tcp_ack_now(p) ELSE p)
             ELSE IF s.seq = p.rcv_nxt THEN InSequence(p, s)
             ELSE OutOfSequence(p, s))

=============================================================================
