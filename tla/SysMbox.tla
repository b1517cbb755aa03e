------------------------------ MODULE SysMbox ------------------------------
(***************************************************************************)
(* The mailbox of lwIP's unix port (ports/unix/port/sys_arch.c): a ring of *)
(* SYS_MBOX_SIZE pointers, two counters, and three binary semaphores.      *)
(* tcpip_thread, the sockets' receive and accept queues are such           *)
(* mailboxes.                                                              *)
(*                                                                         *)
(* Any number of threads post, one thread fetches.  A semaphore operation  *)
(* (a counter under a pthread mutex and condition) is atomic; between two  *)
(* of them a thread looks at the ring in one step and changes it in        *)
(* another.  The counters are int in the code and never reset; they do not *)
(* wrap here.                                                              *)
(***************************************************************************)
EXTENDS Integers, Sequences, FiniteSets

CONSTANTS
    SYS_MBOX_SIZE,
    Posters,    \* the threads that post
    MaxPosts,   \* calls of sys_mbox_post and sys_mbox_trypost of each
    NoMsg, EMPTY, TIMEOUT

Msgs == Posters \X (1..MaxPosts)

ASSUME MboxAssumption ==
    /\ SYS_MBOX_SIZE \in Nat /\ SYS_MBOX_SIZE >= 2
    /\ IsFiniteSet(Posters)
    /\ MaxPosts \in Nat
    /\ {NoMsg, EMPTY, TIMEOUT} \cap Msgs = {}
    /\ NoMsg # EMPTY /\ NoMsg # TIMEOUT /\ EMPTY # TIMEOUT

VARIABLES
    first, last,  \* messages fetched and posted so far
    msgs,         \* the ring
    not_empty, not_full, mutex,  \* the semaphores' counters
    wait_send,    \* posters that wait for room
    pc,           \* where each poster is
    op,           \* the function it is in: "post" or "trypost"
    posts,        \* its calls; the message is the poster and the call's number
    rpc, rop,     \* the same for the reader: "fetch" or "tryfetch"
    got           \* what its last call returned

ring == <<first, last, msgs>>
sems == <<not_empty, not_full, mutex>>
poster == <<pc, op, posts>>
reader == <<rpc, rop, got>>
vars == <<ring, sems, wait_send, poster, reader>>

\* sys_mbox_new
Init ==
    /\ first = 0 /\ last = 0
    /\ msgs = [i \in 0..(SYS_MBOX_SIZE - 1) |-> NoMsg]
    /\ not_empty = 0 /\ not_full = 0 /\ mutex = 1
    /\ wait_send = 0
    /\ pc = [t \in Posters |-> "idle"]
    /\ op = [t \in Posters |-> "post"]
    /\ posts = [t \in Posters |-> 0]
    /\ rpc = "idle" /\ rop = "fetch"
    /\ got = NoMsg

\* Mutant: one slot more is used.
FullByOneMore == last >= first + SYS_MBOX_SIZE

Full == last + 1 >= first + SYS_MBOX_SIZE
IsEmpty == first = last
Msg(t) == <<t, posts[t]>>

At(t, label) == pc[t] = label
Goto(t, label) == pc' = [pc EXCEPT ![t] = label]

(***************************************************************************)
(* sys_mbox_post and sys_mbox_trypost.                                     *)
(***************************************************************************)

Call(t, o) ==
    /\ At(t, "idle") /\ posts[t] < MaxPosts
    /\ Goto(t, "lock")
    /\ op' = [op EXCEPT ![t] = o]
    /\ posts' = [posts EXCEPT ![t] = @ + 1]
    /\ UNCHANGED <<ring, sems, wait_send, reader>>

Lock(t) ==
    /\ At(t, "lock") /\ mutex = 1
    /\ mutex' = 0
    /\ Goto(t, "locked")
    /\ UNCHANGED <<ring, not_empty, not_full, wait_send, op, posts, reader>>

CheckRoom(t) ==
    /\ At(t, "locked") /\ ~Full
    /\ Goto(t, "store")
    /\ UNCHANGED <<ring, sems, wait_send, op, posts, reader>>

\* Mutant: the ring is looked at after the message is in.
StoreLooksLate(t) ==
    /\ At(t, "store")
    /\ msgs' = [msgs EXCEPT ![last % SYS_MBOX_SIZE] = Msg(t)]
    /\ last' = last + 1
    /\ not_empty' = IF first = last' THEN 1 ELSE not_empty
    /\ Goto(t, "unlock")
    /\ UNCHANGED <<first, not_full, mutex, wait_send, op, posts, reader>>

\* not_empty is signalled when the ring was empty.
Store(t) ==
    /\ At(t, "store")
    /\ msgs' = [msgs EXCEPT ![last % SYS_MBOX_SIZE] = Msg(t)]
    /\ last' = last + 1
    /\ not_empty' = IF IsEmpty THEN 1 ELSE not_empty
    /\ Goto(t, "unlock")
    /\ UNCHANGED <<first, not_full, mutex, wait_send, op, posts, reader>>

Unlock(t) ==
    /\ At(t, "unlock")
    /\ mutex' = 1
    /\ Goto(t, "idle")
    /\ UNCHANGED <<ring, not_empty, not_full, wait_send, op, posts, reader>>

\* trypost: ERR_MEM.
TryPostFails(t) ==
    /\ At(t, "locked") /\ Full /\ op[t] = "trypost"
    /\ mutex' = 1
    /\ Goto(t, "idle")
    /\ UNCHANGED <<ring, not_empty, not_full, wait_send, op, posts, reader>>

WaitForRoom(t) ==
    /\ At(t, "locked") /\ Full /\ op[t] = "post"
    /\ wait_send' = wait_send + 1
    /\ mutex' = 1
    /\ Goto(t, "wait")
    /\ UNCHANGED <<ring, not_empty, not_full, op, posts, reader>>

WokenByRoom(t) ==
    /\ At(t, "wait") /\ not_full = 1
    /\ not_full' = 0
    /\ Goto(t, "relock")
    /\ UNCHANGED <<ring, not_empty, mutex, wait_send, op, posts, reader>>

Relock(t) ==
    /\ At(t, "relock") /\ mutex = 1
    /\ mutex' = 0
    /\ wait_send' = wait_send - 1
    /\ Goto(t, "locked")
    /\ UNCHANGED <<ring, not_empty, not_full, op, posts, reader>>

(***************************************************************************)
(* sys_arch_mbox_fetch and sys_arch_mbox_tryfetch.                         *)
(***************************************************************************)

FetchCall(o) ==
    /\ rpc = "idle"
    /\ rpc' = "lock" /\ rop' = o
    /\ UNCHANGED <<ring, sems, wait_send, poster, got>>

FetchLock ==
    /\ rpc = "lock" /\ mutex = 1
    /\ mutex' = 0
    /\ rpc' = "locked"
    /\ UNCHANGED <<ring, not_empty, not_full, wait_send, poster, rop, got>>

CheckMsg ==
    /\ rpc = "locked" /\ ~IsEmpty
    /\ rpc' = "take"
    /\ UNCHANGED <<ring, sems, wait_send, poster, rop, got>>

\* Mutant: only a fetch from a full ring signals.
TakeFromFull ==
    /\ rpc = "take"
    /\ got' = msgs[first % SYS_MBOX_SIZE]
    /\ first' = first + 1
    /\ not_full' = IF wait_send > 0 /\ Full THEN 1 ELSE not_full
    /\ rpc' = "unlock"
    /\ UNCHANGED <<last, msgs, not_empty, mutex, wait_send, poster, rop>>

\* not_full is signalled when a poster waits.
Take ==
    /\ rpc = "take"
    /\ got' = msgs[first % SYS_MBOX_SIZE]
    /\ first' = first + 1
    /\ not_full' = IF wait_send > 0 THEN 1 ELSE not_full
    /\ rpc' = "unlock"
    /\ UNCHANGED <<last, msgs, not_empty, mutex, wait_send, poster, rop>>

FetchUnlock ==
    /\ rpc = "unlock"
    /\ mutex' = 1
    /\ rpc' = "idle"
    /\ UNCHANGED <<ring, not_empty, not_full, wait_send, poster, rop, got>>

\* tryfetch: SYS_MBOX_EMPTY.
TryFetchFails ==
    /\ rpc = "locked" /\ IsEmpty /\ rop = "tryfetch"
    /\ mutex' = 1
    /\ got' = EMPTY
    /\ rpc' = "idle"
    /\ UNCHANGED <<ring, not_empty, not_full, wait_send, poster, rop>>

WaitForMsg ==
    /\ rpc = "locked" /\ IsEmpty /\ rop = "fetch"
    /\ mutex' = 1
    /\ rpc' = "wait"
    /\ UNCHANGED <<ring, not_empty, not_full, wait_send, poster, rop, got>>

WokenByMsg ==
    /\ rpc = "wait" /\ not_empty = 1
    /\ not_empty' = 0
    /\ rpc' = "lock"
    /\ UNCHANGED <<ring, not_full, mutex, wait_send, poster, rop, got>>

\* The timeout of the wait; the semaphore may be signalled at the same time.
FetchTimeout ==
    /\ rpc = "wait"
    /\ got' = TIMEOUT
    /\ rpc' = "idle"
    /\ UNCHANGED <<ring, sems, wait_send, poster, rop>>

PosterStep(t) ==
    \/ Lock(t) \/ CheckRoom(t) \/ Store(t) \/ Unlock(t) \/ TryPostFails(t)
    \/ WaitForRoom(t) \/ WokenByRoom(t) \/ Relock(t)

ReaderStep ==
    \/ FetchLock \/ CheckMsg \/ Take \/ FetchUnlock \/ TryFetchFails
    \/ WaitForMsg \/ WokenByMsg

Next ==
    \/ \E t \in Posters :
        \/ \E o \in {"post", "trypost"} : Call(t, o)
        \/ PosterStep(t)
    \/ \E o \in {"fetch", "tryfetch"} : FetchCall(o)
    \/ ReaderStep
    \/ FetchTimeout

Spec == Init /\ [][Next]_vars

\* A thread in a mailbox function runs whenever its semaphore lets it, and the
\* reader, tcpip_thread for one, comes back for more.  A reader that polls with
\* tryfetch or short timeouts takes the mutex again and again: that a poster gets
\* it in the end is up to the scheduler.  Timeouts need not happen.
FairSpec ==
    /\ Spec
    /\ \A t \in Posters : WF_vars(PosterStep(t)) /\ SF_vars(Lock(t)) /\ SF_vars(Relock(t))
    /\ WF_vars(ReaderStep)
    /\ WF_vars(FetchCall("fetch"))

(***************************************************************************)
(* Properties.                                                             *)
(***************************************************************************)

Waiting == {t \in Posters : pc[t] \in {"wait", "relock"}}

\* The ring as a queue, and what each poster has not handed over yet.
Queue == [i \in 1..(last - first) |-> msgs[(first + i - 1) % SYS_MBOX_SIZE]]
Offered == [t \in Posters |->
    IF pc[t] \in {"lock", "locked", "store", "wait", "relock"} THEN Msg(t) ELSE NoMsg]

Fifo == INSTANCE Mailbox WITH
    Cap <- SYS_MBOX_SIZE - 1, queue <- Queue, offered <- Offered

\* The ring, the counters and the semaphores implement the bounded queue: messages
\* come out once and in the order they were stored, a post fails only when the ring
\* holds SYS_MBOX_SIZE - 1 messages, a tryfetch only when it is empty.
ImplementsMailbox == Fifo!Spec

\* A reader that sleeps although there is a message will be woken: the signal that
\* the post into the empty ring gave is still there.  It was given once, for the
\* first message only.
NoLostWakeup == rpc = "wait" /\ ~IsEmpty => not_empty = 1

\* A poster sleeps only while a signal is there, another poster is awake to fill
\* the ring, or messages are left whose fetch will signal.
PosterNotForgotten ==
    (\E t \in Posters : At(t, "wait")) =>
        \/ not_full = 1
        \/ ~IsEmpty
        \/ \E t \in Posters : pc[t] \in {"relock", "locked", "store"} /\ op[t] = "post"

\* wait_send, which decides whether a fetch signals, counts the posters that wait.
WaitSendCounts == wait_send = Cardinality(Waiting)

\* A call of sys_mbox_post returns, although two fetches may leave one signal.
PostReturns == \A t \in Posters : At(t, "wait") ~> At(t, "idle")

\* The reader gets all the messages: in the end the ring stays empty.
AllFetched == <>[]IsEmpty
=============================================================================
