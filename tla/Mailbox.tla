------------------------------ MODULE Mailbox ------------------------------
(***************************************************************************)
(* What lwIP expects of a mailbox: a bounded first-in first-out queue.     *)
(* Posters offer a message; it enters the queue once, or is refused when   *)
(* the queue is full.  The reader gets the oldest message, hears that the  *)
(* queue is empty, or runs into its timeout.                               *)
(***************************************************************************)
EXTENDS Naturals, Sequences

CONSTANTS
    Posters,
    Msgs,
    Cap,      \* messages the queue holds
    NoMsg,    \* nothing offered, nothing fetched yet
    EMPTY,    \* SYS_MBOX_EMPTY
    TIMEOUT   \* SYS_ARCH_TIMEOUT

VARIABLES
    queue,
    offered,  \* what each poster wants to post
    got       \* what the reader's last call returned

vars == <<queue, offered, got>>

Init ==
    /\ queue = <<>>
    /\ offered = [t \in Posters |-> NoMsg]
    /\ got = NoMsg

Offer(t, m) ==
    /\ offered[t] = NoMsg
    /\ offered' = [offered EXCEPT ![t] = m]
    /\ UNCHANGED <<queue, got>>

Put(t) ==
    /\ offered[t] # NoMsg /\ Len(queue) < Cap
    /\ queue' = Append(queue, offered[t])
    /\ offered' = [offered EXCEPT ![t] = NoMsg]
    /\ UNCHANGED got

Refuse(t) ==
    /\ offered[t] # NoMsg /\ Len(queue) = Cap
    /\ offered' = [offered EXCEPT ![t] = NoMsg]
    /\ UNCHANGED <<queue, got>>

Take ==
    /\ queue # <<>>
    /\ got' = Head(queue)
    /\ queue' = Tail(queue)
    /\ UNCHANGED offered

Miss ==
    /\ queue = <<>>
    /\ got' = EMPTY
    /\ UNCHANGED <<queue, offered>>

GiveUp ==
    /\ got' = TIMEOUT
    /\ UNCHANGED <<queue, offered>>

Next ==
    \/ \E t \in Posters :
        \/ \E m \in Msgs : Offer(t, m)
        \/ Put(t)
        \/ Refuse(t)
    \/ Take \/ Miss \/ GiveUp

Spec == Init /\ [][Next]_vars
=============================================================================
