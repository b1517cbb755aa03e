---------------------------- MODULE RingProofs ----------------------------
(* TLAPS proofs about the two ring buffers: RemoteLog, for every size and  *)
(* set of lines, and SysMbox, for every set of posters, number of posts    *)
(* and size.                                                               *)
EXTENDS SysMbox, RemoteLog, SequenceTheorems, FiniteSetTheorems, TLAPS

(***************************************************************************)
(* RemoteLog.                                                              *)
(***************************************************************************)

\* The index arithmetic of log and dump: one conditional subtraction reduces an
\* index that has passed the end at most once.
LEMMA ModOnce ==
    ASSUME NEW n \in Nat \ {0}, NEW j \in 0..(2 * n - 1)
    PROVE  j % n = IF j < n THEN j ELSE j - n
OBVIOUS

\* The array index of the j-th slot after the start of the array.
Slot(j) == IF j < Max THEN j ELSE j - Max

\* ModOnce for the buffer's size.
LEMMA ModSlot ==
    ASSUME NEW j \in 0..(2 * Max - 1)
    PROVE  j % Max = Slot(j)
BY MaxAssumption, ModOnce, Zenon DEF Slot

\* Where the next line goes.
LEMMA NextHead ==
    ASSUME NEW h \in 0..(Max - 1)
    PROVE  (h + 1) % Max = Slot(h + 1)
<1>1. h + 1 \in 0..(2 * Max - 1)
  BY MaxAssumption
<1> QED
  BY <1>1, ModSlot

\* Where the lines that dump() returns are in the array.
LEMMA DumpSlots ==
    ASSUME NEW ls \in [0..(Max - 1) -> Line \cup {None}],
           NEW h \in 0..(Max - 1), NEW c \in 0..Max
    PROVE  /\ DumpOf(ls, h, c) \in [1..c -> Line \cup {None}]
           /\ \A i \in 1..c : DumpOf(ls, h, c)[i] =
                  IF c < Max THEN ls[i - 1] ELSE ls[Slot(h + i - 1)]
<1> USE MaxAssumption
<1>1. ASSUME NEW i \in 1..c, NEW start \in {0, h}
      PROVE  (start + i - 1) % Max = Slot(start + i - 1) /\ Slot(start + i - 1) \in 0..(Max - 1)
  <2>1. start + i - 1 \in 0..(2 * Max - 1)
    OBVIOUS
  <2>2. (start + i - 1) % Max = Slot(start + i - 1)
    BY <2>1, ModSlot
  <2>3. Slot(start + i - 1) \in 0..(Max - 1)
    BY <2>1 DEF Slot
  <2> QED
    BY <2>2, <2>3
<1>2. \A i \in 1..c : DumpOf(ls, h, c)[i] = ls[Slot((IF c < Max THEN 0 ELSE h) + i - 1)]
  BY <1>1, Zenon DEF DumpOf
<1>3. DumpOf(ls, h, c) \in [1..c -> Line \cup {None}]
  BY <1>1 DEF DumpOf
<1>4. \A i \in 1..c : c < Max => Slot(0 + i - 1) = i - 1
  BY DEF Slot
<1> QED
  BY <1>2, <1>3, <1>4

\* log and /clear keep head and count in step.
THEOREM RingInvariant == LogSpec => []RingOK
<1> USE MaxAssumption DEF RingOK
<1>1. LogInit => RingOK
  BY DEF LogInit
<1>2. RingOK /\ [LogNext]_logVars => RingOK'
  <2> SUFFICES ASSUME RingOK, [LogNext]_logVars PROVE RingOK'
    OBVIOUS
  <2>1. ASSUME NEW l \in Line, Log(l) PROVE RingOK'
    <3>1. (head + 1) % Max = Slot(head + 1)
      BY NextHead
    <3> QED
      BY <2>1, <3>1 DEF Log, Slot
  <2>2. CASE Clear
    BY <2>2 DEF Clear
  <2>3. CASE UNCHANGED logVars
    BY <2>3 DEF logVars
  <2> QED
    BY <2>1, <2>2, <2>3 DEF LogNext
<1> QED
  BY <1>1, <1>2, PTL DEF LogSpec

\* The ring buffer implements the bounded log, for every buffer size: a line
\* that is logged becomes the last line of the dump, and when the buffer is
\* full the oldest line, and no other, is dropped.
THEOREM RingImplementsLog == LogSpec => ImplementsBoundedLog
<1> USE MaxAssumption
<1>1. LogInit => Abstract!Init
  BY DEF LogInit, Abstract!Init, Dump, DumpOf
<1>2. RingOK /\ RingOK' /\ [LogNext]_logVars => [Abstract!Next]_Dump
  <2> SUFFICES ASSUME RingOK, RingOK', [LogNext]_logVars PROVE Abstract!Next \/ UNCHANGED Dump
    OBVIOUS
  <2>1. ASSUME NEW l \in Line, Log(l) PROVE Abstract!Write(l)
    <3>1. (head + 1) % Max = Slot(head + 1)
      BY NextHead DEF RingOK
    <3>2. /\ Dump \in [1..count -> Line \cup {None}]
          /\ \A i \in 1..count : Dump[i] =
                 IF count < Max THEN lines[i - 1] ELSE lines[Slot(head + i - 1)]
      BY DumpSlots, Zenon DEF RingOK, Dump
    <3>3. /\ Dump' \in [1..count' -> Line \cup {None}]
          /\ \A i \in 1..count' : Dump'[i] =
                 IF count' < Max THEN lines'[i - 1] ELSE lines'[Slot(head' + i - 1)]
      BY DumpSlots, Zenon DEF RingOK, Dump
    <3>4. Dump \in Seq(Line \cup {None}) /\ Len(Dump) = count
      BY <3>2 DEF RingOK
    <3>5. CASE count < Max
      <4>1. count' = count + 1 /\ lines' = [lines EXCEPT ![count] = l]
        BY <2>1, <3>5 DEF Log, RingOK
      <4>2. \A i \in 1..(count + 1) : Dump'[i] = lines'[i - 1]
        <5>1. CASE count + 1 < Max
          BY <3>3, <4>1, <5>1
        <5>2. CASE count + 1 = Max
          <6>1. head' = 0
            BY <2>1, <3>1, <3>5, <5>2 DEF Log, RingOK, Slot
          <6>2. \A i \in 1..Max : Slot(head' + i - 1) = i - 1
            BY <6>1 DEF Slot
          <6> QED
            BY <3>3, <4>1, <5>2, <6>2
        <5> QED
          BY <3>5, <5>1, <5>2 DEF RingOK
      <4>3. \A i \in 1..(count + 1) : Dump'[i] = IF i = count + 1 THEN l ELSE Dump[i]
        BY <3>2, <3>5, <4>1, <4>2 DEF RingOK
      <4>4. Dump' = Append(Dump, l)
        BY <3>3, <3>4, <4>1, <4>3
      <4> QED
        BY <3>4, <3>5, <4>4 DEF Abstract!Write
    <3>6. CASE count = Max
      <4>1. count' = Max /\ head' = Slot(head + 1) /\ lines' = [lines EXCEPT ![head] = l]
        BY <2>1, <3>1, <3>6 DEF Log
      <4>2. \A i \in 1..Max : Dump'[i] = lines'[Slot(head' + i - 1)]
        BY <3>3, <4>1
      <4>3. \A i \in 1..(Max - 1) : Dump'[i] = Dump[i + 1]
        BY <3>2, <3>6, <4>1, <4>2 DEF RingOK, Slot
      <4>4. Dump'[Max] = l
        BY <4>1, <4>2 DEF RingOK, Slot
      <4>5. /\ Tail(Dump) \in Seq(Line \cup {None})
            /\ Len(Tail(Dump)) = Max - 1
            /\ \A i \in 1..(Max - 1) : Tail(Dump)[i] = Dump[i + 1]
        BY <3>4, <3>6
      <4>6. \A i \in 1..Max : Dump'[i] = IF i = Max THEN l ELSE Tail(Dump)[i]
        BY <4>3, <4>4, <4>5
      <4>7. Dump' = Append(Tail(Dump), l)
        BY <3>3, <4>1, <4>5, <4>6
      <4> QED
        BY <3>4, <3>6, <4>7 DEF Abstract!Write
    <3> QED
      BY <3>5, <3>6 DEF RingOK
  <2>2. CASE Clear
    BY <2>2 DEF Clear, Abstract!Next, Abstract!Clear, Dump, DumpOf
  <2>3. CASE UNCHANGED logVars
    BY <2>3 DEF logVars, Dump
  <2> QED
    BY <2>1, <2>2, <2>3 DEF LogNext, Abstract!Next
<1> QED
  BY <1>1, <1>2, RingInvariant, PTL DEF LogSpec, ImplementsBoundedLog, Abstract!Spec

(***************************************************************************)
(* SysMbox.                                                                *)
(***************************************************************************)

N == SYS_MBOX_SIZE
Cell == Msgs \cup {NoMsg}

(***************************************************************************)
(* The ring.                                                               *)
(***************************************************************************)

LEMMA MulGe == ASSUME NEW n \in Nat \ {0}, NEW k \in Int, k >= 1 PROVE n * k >= n
BY SMT

LEMMA MulLe == ASSUME NEW n \in Nat \ {0}, NEW k \in Int, k <= 0 PROVE n * k <= 0
BY SMT

\* Two counters less than the size apart are in different slots.
LEMMA SlotsDiffer ==
    ASSUME NEW n \in Nat \ {0}, NEW a \in Nat, NEW b \in Nat, a < b, b < a + n
    PROVE  a % n # b % n
<1> SUFFICES ASSUME a % n = b % n PROVE FALSE
  OBVIOUS
<1> DEFINE k == (b \div n) - (a \div n)
<1>1. a = n * (a \div n) + (a % n) /\ a \div n \in Nat /\ a % n \in Nat
  BY SMT
<1>2. b = n * (b \div n) + (b % n) /\ b \div n \in Nat /\ b % n \in Nat
  BY SMT
<1>3. k \in Int
  BY <1>1, <1>2
<1>4. b - a = n * (b \div n) - n * (a \div n)
  BY <1>1, <1>2
<1>5. n * k = n * (b \div n) - n * (a \div n)
  BY <1>1, <1>2
<1>6. n * k = b - a
  BY <1>4, <1>5
<1>7. CASE k >= 1
  BY <1>3, <1>6, <1>7, MulGe
<1>8. CASE k <= 0
  BY <1>3, <1>6, <1>8, MulLe
<1> QED
  BY <1>3, <1>7, <1>8

LEMMA SlotRange == ASSUME NEW n \in Nat \ {0}, NEW a \in Nat PROVE a % n \in 0 .. (n - 1)
BY SMT

\* The queue that a ring m with the counters f and l holds.
Ring(m, f, l) == [i \in 1 .. (l - f) |-> m[(f + i - 1) % N]]

LEMMA SizeFacts == N \in Nat \ {0} /\ N >= 2
BY MboxAssumption DEF N

LEMMA RingTyped ==
    ASSUME NEW m \in [0 .. (N - 1) -> Cell], NEW f \in Nat, NEW l \in Nat, f <= l
    PROVE  Ring(m, f, l) \in Seq(Cell) /\ Len(Ring(m, f, l)) = l - f
<1> DEFINE n == l - f
<1>1. n \in Nat
  OBVIOUS
<1>2. \A i \in 1 .. n : m[(f + i - 1) % N] \in Cell
  <2> SUFFICES ASSUME NEW i \in 1 .. n PROVE m[(f + i - 1) % N] \in Cell
    BY Zenon
  <2>1. f + i - 1 \in Nat
    OBVIOUS
  <2> QED
    BY <2>1, SizeFacts, SlotRange
<1>3. Ring(m, f, l) \in [1 .. n -> Cell]
  BY <1>2, Zenon DEF Ring
<1>4. Ring(m, f, l) \in Seq(Cell)
  BY <1>1, <1>3, SeqDef
<1> QED
  BY <1>1, <1>3, <1>4, LenProperties

LEMMA RingStore ==
    ASSUME NEW m \in [0 .. (N - 1) -> Cell], NEW f \in Nat, NEW l \in Nat, f <= l,
           l + 1 < f + N, NEW v \in Cell
    PROVE  Ring([m EXCEPT ![l % N] = v], f, l + 1) = Append(Ring(m, f, l), v)
<1> DEFINE mm == [m EXCEPT ![l % N] = v]
           q == Ring(m, f, l)
           r == Ring(mm, f, l + 1)
<1>1. l % N \in 0 .. (N - 1)
  BY SizeFacts, SlotRange
<1>2. mm \in [0 .. (N - 1) -> Cell]
  BY <1>1
<1>3. q \in Seq(Cell) /\ Len(q) = l - f
  BY RingTyped, Zenon
<1>4. r \in Seq(Cell) /\ Len(r) = l - f + 1
  <2>1. l + 1 \in Nat /\ f <= l + 1
    OBVIOUS
  <2>2. r \in Seq(Cell) /\ Len(r) = (l + 1) - f
    BY <1>2, <2>1, RingTyped, Zenon
  <2> QED
    BY <2>2
<1>5. Append(q, v) \in Seq(Cell) /\ Len(Append(q, v)) = l - f + 1
  BY <1>3, AppendProperties
<1>6. ASSUME NEW i \in 1 .. (l - f + 1) PROVE r[i] = Append(q, v)[i]
  <2>1. r[i] = mm[(f + i - 1) % N] /\ f + i - 1 \in Nat
    BY DEF Ring
  <2>2. (f + i - 1) % N \in 0 .. (N - 1)
    BY <2>1, SizeFacts, SlotRange
  <2>3. CASE i = l - f + 1
    <3>1. f + i - 1 = l
      BY <2>3
    <3>2. r[i] = v
      BY <1>1, <2>1, <3>1
    <3> QED
      BY <1>3, <2>3, <3>2, AppendProperties
  <2>4. CASE i \in 1 .. (l - f)
    <3>1. f + i - 1 < l /\ l < f + i - 1 + N
      BY <2>4, SizeFacts
    <3>2. (f + i - 1) % N # l % N
      BY <2>1, <3>1, SizeFacts, SlotsDiffer, Zenon
    <3>3. r[i] = m[(f + i - 1) % N]
      BY <1>1, <2>1, <2>2, <3>2
    <3>4. q[i] = m[(f + i - 1) % N]
      BY <2>4 DEF Ring
    <3>5. Append(q, v)[i] = q[i]
      BY <1>3, <2>4, AppendProperties
    <3> QED
      BY <3>3, <3>4, <3>5
  <2>5. i = l - f + 1 \/ i \in 1 .. (l - f)
    OBVIOUS
  <2> QED
    BY <2>3, <2>4, <2>5, Zenon
<1> HIDE DEF mm, q, r
<1>7. r = Append(q, v)
  BY <1>4, <1>5, <1>6, SeqEqual
<1> QED
  BY <1>7, Zenon DEF mm, q, r

LEMMA RingFetch ==
    ASSUME NEW m \in [0 .. (N - 1) -> Cell], NEW f \in Nat, NEW l \in Nat, f < l
    PROVE  /\ Ring(m, f, l) # <<>>
           /\ Head(Ring(m, f, l)) = m[f % N]
           /\ Tail(Ring(m, f, l)) = Ring(m, f + 1, l)
<1> DEFINE q == Ring(m, f, l)
           r == Ring(m, f + 1, l)
<1>1. q \in Seq(Cell) /\ Len(q) = l - f
  <2>1. f <= l
    OBVIOUS
  <2> QED
    BY <2>1, RingTyped, Zenon
<1>2. r \in Seq(Cell) /\ Len(r) = l - f - 1
  <2>1. f + 1 \in Nat /\ f + 1 <= l
    OBVIOUS
  <2>2. r \in Seq(Cell) /\ Len(r) = l - (f + 1)
    BY <2>1, RingTyped, Zenon
  <2> QED
    BY <2>2
<1>3. q # <<>>
  BY <1>1
<1>4. Head(q) = m[f % N]
  <2>1. q[1] = m[(f + 1 - 1) % N]
    BY DEF Ring
  <2>2. Head(q) = q[1]
    BY <1>1, <1>3
  <2> QED
    BY <2>1, <2>2
<1>5. /\ Tail(q) \in Seq(Cell) /\ Len(Tail(q)) = l - f - 1
      /\ \A i \in 1 .. (l - f - 1) : Tail(q)[i] = q[i + 1]
  <2> HIDE DEF q
  <2> QED
    BY <1>1, <1>3, HeadTailProperties
<1>6. ASSUME NEW i \in 1 .. (l - f - 1) PROVE r[i] = Tail(q)[i]
  <2>1. r[i] = m[(f + 1 + i - 1) % N]
    BY DEF Ring
  <2>2. q[i + 1] = m[(f + (i + 1) - 1) % N]
    BY DEF Ring
  <2>3. f + 1 + i - 1 = f + (i + 1) - 1
    OBVIOUS
  <2> QED
    BY <1>5, <2>1, <2>2, <2>3
<1> HIDE DEF q, r
<1>7. r = Tail(q)
  BY <1>2, <1>5, <1>6, SeqEqual
<1> QED
  BY <1>3, <1>4, <1>7 DEF q, r

(***************************************************************************)
(* The invariant.                                                          *)
(***************************************************************************)

Labels == {"idle", "lock", "locked", "store", "unlock", "wait", "relock", "take"}

\* Inside the critical section.
CS == {"locked", "store", "take", "unlock"}

TypeInv ==
    /\ first \in Nat /\ last \in Nat
    /\ msgs \in [0 .. (N - 1) -> Cell]
    /\ not_empty \in {0, 1} /\ not_full \in {0, 1} /\ mutex \in {0, 1}
    /\ wait_send \in Int
    /\ pc \in [Posters -> Labels]
    /\ op \in [Posters -> {"post", "trypost"}]
    /\ posts \in [Posters -> 0 .. MaxPosts]
    /\ rpc \in Labels

CallInv ==
    \A t \in Posters :
        /\ pc[t] # "idle" => posts[t] >= 1
        /\ pc[t] \in {"wait", "relock"} => op[t] = "post"

Exclusion ==
    /\ mutex = 1 => rpc \notin CS /\ \A t \in Posters : pc[t] \notin CS
    /\ \A t \in Posters : pc[t] \in CS => rpc \notin CS
    /\ \A t, u \in Posters : pc[t] \in CS /\ pc[u] \in CS => t = u

\* The counters, and what the checks have found still holds in the next step.
RingInv ==
    /\ first <= last /\ last < first + N
    /\ \A t \in Posters : pc[t] = "store" => ~Full
    /\ rpc = "take" => ~IsEmpty

LEMMA MsgTyped ==
    ASSUME TypeInv, CallInv, NEW t \in Posters, pc[t] # "idle"
    PROVE  Msg(t) \in Msgs
BY MboxAssumption DEF TypeInv, CallInv, Msg, Msgs

\* A step keeps the types.
LEMMA TypeStep ==
    ASSUME TypeInv, CallInv, [Next]_vars
    PROVE  TypeInv'
<1> USE DEF TypeInv, Labels, At, Goto, ring, sems, poster, reader
<1>1. ASSUME NEW t \in Posters, NEW o \in {"post", "trypost"}, Call(t, o) PROVE TypeInv'
  BY <1>1, MboxAssumption DEF Call
<1>2. ASSUME NEW t \in Posters, Lock(t) PROVE TypeInv'
  BY <1>2 DEF Lock
<1>3. ASSUME NEW t \in Posters, CheckRoom(t) PROVE TypeInv'
  BY <1>3 DEF CheckRoom
<1>4. ASSUME NEW t \in Posters, Store(t) PROVE TypeInv'
  <2>1. Msg(t) \in Cell
    BY <1>4, MsgTyped DEF Store, Cell
  <2>2. last % N \in 0 .. (N - 1)
    BY SizeFacts, SlotRange
  <2>3. msgs' \in [0 .. (N - 1) -> Cell]
    BY <1>4, <2>1, <2>2 DEF Store, N
  <2> QED
    BY <1>4, <2>3 DEF Store
<1>5. ASSUME NEW t \in Posters, Unlock(t) PROVE TypeInv'
  BY <1>5 DEF Unlock
<1>6. ASSUME NEW t \in Posters, TryPostFails(t) PROVE TypeInv'
  BY <1>6 DEF TryPostFails
<1>7. ASSUME NEW t \in Posters, WaitForRoom(t) PROVE TypeInv'
  BY <1>7 DEF WaitForRoom
<1>8. ASSUME NEW t \in Posters, WokenByRoom(t) PROVE TypeInv'
  BY <1>8 DEF WokenByRoom
<1>9. ASSUME NEW t \in Posters, Relock(t) PROVE TypeInv'
  BY <1>9 DEF Relock
<1>10. ASSUME NEW o \in {"fetch", "tryfetch"}, FetchCall(o) PROVE TypeInv'
  BY <1>10 DEF FetchCall
<1>11. ASSUME FetchLock PROVE TypeInv'
  BY <1>11 DEF FetchLock
<1>12. ASSUME CheckMsg PROVE TypeInv'
  BY <1>12 DEF CheckMsg
<1>13. ASSUME Take PROVE TypeInv'
  BY <1>13 DEF Take
<1>14. ASSUME FetchUnlock PROVE TypeInv'
  BY <1>14 DEF FetchUnlock
<1>15. ASSUME TryFetchFails PROVE TypeInv'
  BY <1>15 DEF TryFetchFails
<1>16. ASSUME WaitForMsg PROVE TypeInv'
  BY <1>16 DEF WaitForMsg
<1>17. ASSUME WokenByMsg PROVE TypeInv'
  BY <1>17 DEF WokenByMsg
<1>18. ASSUME FetchTimeout PROVE TypeInv'
  BY <1>18 DEF FetchTimeout
<1>19. CASE UNCHANGED vars
  BY <1>19 DEF vars, poster, reader, ring, sems
<1> QED
  BY <1>1, <1>2, <1>3, <1>4, <1>5, <1>6, <1>7, <1>8, <1>9,
     <1>10, <1>11, <1>12, <1>13, <1>14, <1>15, <1>16, <1>17, <1>18, <1>19
  DEF Next, PosterStep, ReaderStep

\* A poster in a function has a message; only sys_mbox_post waits.
LEMMA CallStep ==
    ASSUME TypeInv, CallInv, [Next]_vars
    PROVE  CallInv'
<1> USE DEF TypeInv, CallInv, Labels, At, Goto, poster, ring, sems, reader
<1>1. ASSUME NEW t \in Posters, NEW o \in {"post", "trypost"}, Call(t, o) PROVE CallInv'
  BY <1>1 DEF Call
<1>2. ASSUME NEW t \in Posters, Lock(t) PROVE CallInv'
  BY <1>2 DEF Lock
<1>3. ASSUME NEW t \in Posters, CheckRoom(t) PROVE CallInv'
  BY <1>3 DEF CheckRoom
<1>4. ASSUME NEW t \in Posters, Store(t) PROVE CallInv'
  BY <1>4 DEF Store
<1>5. ASSUME NEW t \in Posters, Unlock(t) PROVE CallInv'
  BY <1>5 DEF Unlock
<1>6. ASSUME NEW t \in Posters, TryPostFails(t) PROVE CallInv'
  BY <1>6 DEF TryPostFails
<1>7. ASSUME NEW t \in Posters, WaitForRoom(t) PROVE CallInv'
  BY <1>7 DEF WaitForRoom
<1>8. ASSUME NEW t \in Posters, WokenByRoom(t) PROVE CallInv'
  BY <1>8 DEF WokenByRoom
<1>9. ASSUME NEW t \in Posters, Relock(t) PROVE CallInv'
  BY <1>9 DEF Relock
<1>10. ASSUME NEW o \in {"fetch", "tryfetch"}, FetchCall(o) PROVE CallInv'
  BY <1>10 DEF FetchCall
<1>11. ASSUME FetchLock PROVE CallInv'
  BY <1>11 DEF FetchLock
<1>12. ASSUME CheckMsg PROVE CallInv'
  BY <1>12 DEF CheckMsg
<1>13. ASSUME Take PROVE CallInv'
  BY <1>13 DEF Take
<1>14. ASSUME FetchUnlock PROVE CallInv'
  BY <1>14 DEF FetchUnlock
<1>15. ASSUME TryFetchFails PROVE CallInv'
  BY <1>15 DEF TryFetchFails
<1>16. ASSUME WaitForMsg PROVE CallInv'
  BY <1>16 DEF WaitForMsg
<1>17. ASSUME WokenByMsg PROVE CallInv'
  BY <1>17 DEF WokenByMsg
<1>18. ASSUME FetchTimeout PROVE CallInv'
  BY <1>18 DEF FetchTimeout
<1>19. CASE UNCHANGED vars
  BY <1>19 DEF vars, poster, reader, ring, sems
<1> QED
  BY <1>1, <1>2, <1>3, <1>4, <1>5, <1>6, <1>7, <1>8, <1>9,
     <1>10, <1>11, <1>12, <1>13, <1>14, <1>15, <1>16, <1>17, <1>18, <1>19
  DEF Next, PosterStep, ReaderStep

\* The semaphore mutex excludes.
LEMMA ExclusionStep ==
    ASSUME TypeInv, Exclusion, [Next]_vars
    PROVE  Exclusion'
<1> USE DEF TypeInv, Exclusion, CS, Labels, At, Goto, poster, ring, sems, reader
<1>1. ASSUME NEW t \in Posters, NEW o \in {"post", "trypost"}, Call(t, o) PROVE Exclusion'
  BY <1>1 DEF Call
<1>2. ASSUME NEW t \in Posters, Lock(t) PROVE Exclusion'
  BY <1>2 DEF Lock
<1>3. ASSUME NEW t \in Posters, CheckRoom(t) PROVE Exclusion'
  BY <1>3 DEF CheckRoom
<1>4. ASSUME NEW t \in Posters, Store(t) PROVE Exclusion'
  BY <1>4 DEF Store
<1>5. ASSUME NEW t \in Posters, Unlock(t) PROVE Exclusion'
  BY <1>5 DEF Unlock
<1>6. ASSUME NEW t \in Posters, TryPostFails(t) PROVE Exclusion'
  BY <1>6 DEF TryPostFails
<1>7. ASSUME NEW t \in Posters, WaitForRoom(t) PROVE Exclusion'
  BY <1>7 DEF WaitForRoom
<1>8. ASSUME NEW t \in Posters, WokenByRoom(t) PROVE Exclusion'
  BY <1>8 DEF WokenByRoom
<1>9. ASSUME NEW t \in Posters, Relock(t) PROVE Exclusion'
  BY <1>9 DEF Relock
<1>10. ASSUME NEW o \in {"fetch", "tryfetch"}, FetchCall(o) PROVE Exclusion'
  BY <1>10 DEF FetchCall
<1>11. ASSUME FetchLock PROVE Exclusion'
  BY <1>11 DEF FetchLock
<1>12. ASSUME CheckMsg PROVE Exclusion'
  BY <1>12 DEF CheckMsg
<1>13. ASSUME Take PROVE Exclusion'
  BY <1>13 DEF Take
<1>14. ASSUME FetchUnlock PROVE Exclusion'
  BY <1>14 DEF FetchUnlock
<1>15. ASSUME TryFetchFails PROVE Exclusion'
  BY <1>15 DEF TryFetchFails
<1>16. ASSUME WaitForMsg PROVE Exclusion'
  BY <1>16 DEF WaitForMsg
<1>17. ASSUME WokenByMsg PROVE Exclusion'
  BY <1>17 DEF WokenByMsg
<1>18. ASSUME FetchTimeout PROVE Exclusion'
  BY <1>18 DEF FetchTimeout
<1>19. CASE UNCHANGED vars
  BY <1>19 DEF vars, poster, reader, ring, sems
<1> QED
  BY <1>1, <1>2, <1>3, <1>4, <1>5, <1>6, <1>7, <1>8, <1>9,
     <1>10, <1>11, <1>12, <1>13, <1>14, <1>15, <1>16, <1>17, <1>18, <1>19
  DEF Next, PosterStep, ReaderStep

\* What a thread has found out about the ring holds until it leaves the critical section.
LEMMA RingStep ==
    ASSUME TypeInv, Exclusion, RingInv, [Next]_vars
    PROVE  RingInv'
<1> USE DEF TypeInv, RingInv, Exclusion, CS, Full, IsEmpty, Labels, At, Goto, poster, ring, sems, reader
<1> USE SizeFacts DEF N
<1>1. ASSUME NEW t \in Posters, NEW o \in {"post", "trypost"}, Call(t, o) PROVE RingInv'
  BY <1>1 DEF Call
<1>2. ASSUME NEW t \in Posters, Lock(t) PROVE RingInv'
  BY <1>2 DEF Lock
<1>3. ASSUME NEW t \in Posters, CheckRoom(t) PROVE RingInv'
  BY <1>3 DEF CheckRoom
<1>4. ASSUME NEW t \in Posters, Store(t) PROVE RingInv'
  BY <1>4 DEF Store
<1>5. ASSUME NEW t \in Posters, Unlock(t) PROVE RingInv'
  BY <1>5 DEF Unlock
<1>6. ASSUME NEW t \in Posters, TryPostFails(t) PROVE RingInv'
  BY <1>6 DEF TryPostFails
<1>7. ASSUME NEW t \in Posters, WaitForRoom(t) PROVE RingInv'
  BY <1>7 DEF WaitForRoom
<1>8. ASSUME NEW t \in Posters, WokenByRoom(t) PROVE RingInv'
  BY <1>8 DEF WokenByRoom
<1>9. ASSUME NEW t \in Posters, Relock(t) PROVE RingInv'
  BY <1>9 DEF Relock
<1>10. ASSUME NEW o \in {"fetch", "tryfetch"}, FetchCall(o) PROVE RingInv'
  BY <1>10 DEF FetchCall
<1>11. ASSUME FetchLock PROVE RingInv'
  BY <1>11 DEF FetchLock
<1>12. ASSUME CheckMsg PROVE RingInv'
  BY <1>12 DEF CheckMsg
<1>13. ASSUME Take PROVE RingInv'
  BY <1>13 DEF Take
<1>14. ASSUME FetchUnlock PROVE RingInv'
  BY <1>14 DEF FetchUnlock
<1>15. ASSUME TryFetchFails PROVE RingInv'
  BY <1>15 DEF TryFetchFails
<1>16. ASSUME WaitForMsg PROVE RingInv'
  BY <1>16 DEF WaitForMsg
<1>17. ASSUME WokenByMsg PROVE RingInv'
  BY <1>17 DEF WokenByMsg
<1>18. ASSUME FetchTimeout PROVE RingInv'
  BY <1>18 DEF FetchTimeout
<1>19. CASE UNCHANGED vars
  BY <1>19 DEF vars, poster, reader, ring, sems
<1> QED
  BY <1>1, <1>2, <1>3, <1>4, <1>5, <1>6, <1>7, <1>8, <1>9,
     <1>10, <1>11, <1>12, <1>13, <1>14, <1>15, <1>16, <1>17, <1>18, <1>19
  DEF Next, PosterStep, ReaderStep

\* Only a reader that leaves its wait takes the signal.
LEMMA WakeupStep ==
    ASSUME TypeInv, NoLostWakeup, [Next]_vars
    PROVE  NoLostWakeup'
<1> USE DEF TypeInv, NoLostWakeup, IsEmpty, Labels, At, Goto, poster, ring, sems, reader
<1>1. ASSUME NEW t \in Posters, NEW o \in {"post", "trypost"}, Call(t, o) PROVE NoLostWakeup'
  BY <1>1 DEF Call
<1>2. ASSUME NEW t \in Posters, Lock(t) PROVE NoLostWakeup'
  BY <1>2 DEF Lock
<1>3. ASSUME NEW t \in Posters, CheckRoom(t) PROVE NoLostWakeup'
  BY <1>3 DEF CheckRoom
<1>4. ASSUME NEW t \in Posters, Store(t) PROVE NoLostWakeup'
  BY <1>4 DEF Store
<1>5. ASSUME NEW t \in Posters, Unlock(t) PROVE NoLostWakeup'
  BY <1>5 DEF Unlock
<1>6. ASSUME NEW t \in Posters, TryPostFails(t) PROVE NoLostWakeup'
  BY <1>6 DEF TryPostFails
<1>7. ASSUME NEW t \in Posters, WaitForRoom(t) PROVE NoLostWakeup'
  BY <1>7 DEF WaitForRoom
<1>8. ASSUME NEW t \in Posters, WokenByRoom(t) PROVE NoLostWakeup'
  BY <1>8 DEF WokenByRoom
<1>9. ASSUME NEW t \in Posters, Relock(t) PROVE NoLostWakeup'
  BY <1>9 DEF Relock
<1>10. ASSUME NEW o \in {"fetch", "tryfetch"}, FetchCall(o) PROVE NoLostWakeup'
  BY <1>10 DEF FetchCall
<1>11. ASSUME FetchLock PROVE NoLostWakeup'
  BY <1>11 DEF FetchLock
<1>12. ASSUME CheckMsg PROVE NoLostWakeup'
  BY <1>12 DEF CheckMsg
<1>13. ASSUME Take PROVE NoLostWakeup'
  BY <1>13 DEF Take
<1>14. ASSUME FetchUnlock PROVE NoLostWakeup'
  BY <1>14 DEF FetchUnlock
<1>15. ASSUME TryFetchFails PROVE NoLostWakeup'
  BY <1>15 DEF TryFetchFails
<1>16. ASSUME WaitForMsg PROVE NoLostWakeup'
  BY <1>16 DEF WaitForMsg
<1>17. ASSUME WokenByMsg PROVE NoLostWakeup'
  BY <1>17 DEF WokenByMsg
<1>18. ASSUME FetchTimeout PROVE NoLostWakeup'
  BY <1>18 DEF FetchTimeout
<1>19. CASE UNCHANGED vars
  BY <1>19 DEF vars, poster, reader, ring, sems
<1> QED
  BY <1>1, <1>2, <1>3, <1>4, <1>5, <1>6, <1>7, <1>8, <1>9,
     <1>10, <1>11, <1>12, <1>13, <1>14, <1>15, <1>16, <1>17, <1>18, <1>19
  DEF Next, PosterStep, ReaderStep

LEMMA WaitingFinite == IsFiniteSet(Waiting) /\ Cardinality(Waiting) \in Nat
<1>1. Waiting \subseteq Posters
  BY DEF Waiting
<1> QED
  BY <1>1, MboxAssumption, FS_Subset, FS_CardinalityType

\* wait_send goes up with a poster that begins to wait and down with one that is back
\* in the critical section.
LEMMA WaitSendStep ==
    ASSUME TypeInv, WaitSendCounts, [Next]_vars
    PROVE  WaitSendCounts'
<1> USE DEF TypeInv, WaitSendCounts, Labels, At, Goto, poster, ring, sems, reader
<1>1. ASSUME NEW t \in Posters, NEW o \in {"post", "trypost"}, Call(t, o) PROVE WaitSendCounts'
  <2>1. Waiting' = Waiting
    BY <1>1 DEF Call, Waiting
  <2> QED
    BY <1>1, <2>1 DEF Call
<1>2. ASSUME NEW t \in Posters, Lock(t) PROVE WaitSendCounts'
  <2>1. Waiting' = Waiting
    BY <1>2 DEF Lock, Waiting
  <2> QED
    BY <1>2, <2>1 DEF Lock
<1>3. ASSUME NEW t \in Posters, CheckRoom(t) PROVE WaitSendCounts'
  <2>1. Waiting' = Waiting
    BY <1>3 DEF CheckRoom, Waiting
  <2> QED
    BY <1>3, <2>1 DEF CheckRoom
<1>4. ASSUME NEW t \in Posters, Store(t) PROVE WaitSendCounts'
  <2>1. Waiting' = Waiting
    BY <1>4 DEF Store, Waiting
  <2> QED
    BY <1>4, <2>1 DEF Store
<1>5. ASSUME NEW t \in Posters, Unlock(t) PROVE WaitSendCounts'
  <2>1. Waiting' = Waiting
    BY <1>5 DEF Unlock, Waiting
  <2> QED
    BY <1>5, <2>1 DEF Unlock
<1>6. ASSUME NEW t \in Posters, TryPostFails(t) PROVE WaitSendCounts'
  <2>1. Waiting' = Waiting
    BY <1>6 DEF TryPostFails, Waiting
  <2> QED
    BY <1>6, <2>1 DEF TryPostFails
<1>7. ASSUME NEW t \in Posters, WaitForRoom(t) PROVE WaitSendCounts'
  <2>1. t \notin Waiting /\ Waiting' = Waiting \cup {t}
    BY <1>7 DEF WaitForRoom, Waiting
  <2>2. Cardinality(Waiting \cup {t}) = Cardinality(Waiting) + 1
    BY <2>1, WaitingFinite, FS_AddElement, Zenon
  <2> QED
    BY <1>7, <2>1, <2>2 DEF WaitForRoom
<1>8. ASSUME NEW t \in Posters, WokenByRoom(t) PROVE WaitSendCounts'
  <2>1. Waiting' = Waiting
    BY <1>8 DEF WokenByRoom, Waiting
  <2> QED
    BY <1>8, <2>1 DEF WokenByRoom
<1>9. ASSUME NEW t \in Posters, Relock(t) PROVE WaitSendCounts'
  <2>1. t \in Waiting /\ Waiting' = Waiting \ {t}
    BY <1>9 DEF Relock, Waiting
  <2>2. Cardinality(Waiting \ {t}) = Cardinality(Waiting) - 1
    BY <2>1, WaitingFinite, FS_RemoveElement, Zenon
  <2> QED
    BY <1>9, <2>1, <2>2 DEF Relock
<1>10. ASSUME NEW o \in {"fetch", "tryfetch"}, FetchCall(o) PROVE WaitSendCounts'
  <2>1. Waiting' = Waiting
    BY <1>10 DEF FetchCall, Waiting
  <2> QED
    BY <1>10, <2>1 DEF FetchCall
<1>11. ASSUME FetchLock PROVE WaitSendCounts'
  <2>1. Waiting' = Waiting
    BY <1>11 DEF FetchLock, Waiting
  <2> QED
    BY <1>11, <2>1 DEF FetchLock
<1>12. ASSUME CheckMsg PROVE WaitSendCounts'
  <2>1. Waiting' = Waiting
    BY <1>12 DEF CheckMsg, Waiting
  <2> QED
    BY <1>12, <2>1 DEF CheckMsg
<1>13. ASSUME Take PROVE WaitSendCounts'
  <2>1. Waiting' = Waiting
    BY <1>13 DEF Take, Waiting
  <2> QED
    BY <1>13, <2>1 DEF Take
<1>14. ASSUME FetchUnlock PROVE WaitSendCounts'
  <2>1. Waiting' = Waiting
    BY <1>14 DEF FetchUnlock, Waiting
  <2> QED
    BY <1>14, <2>1 DEF FetchUnlock
<1>15. ASSUME TryFetchFails PROVE WaitSendCounts'
  <2>1. Waiting' = Waiting
    BY <1>15 DEF TryFetchFails, Waiting
  <2> QED
    BY <1>15, <2>1 DEF TryFetchFails
<1>16. ASSUME WaitForMsg PROVE WaitSendCounts'
  <2>1. Waiting' = Waiting
    BY <1>16 DEF WaitForMsg, Waiting
  <2> QED
    BY <1>16, <2>1 DEF WaitForMsg
<1>17. ASSUME WokenByMsg PROVE WaitSendCounts'
  <2>1. Waiting' = Waiting
    BY <1>17 DEF WokenByMsg, Waiting
  <2> QED
    BY <1>17, <2>1 DEF WokenByMsg
<1>18. ASSUME FetchTimeout PROVE WaitSendCounts'
  <2>1. Waiting' = Waiting
    BY <1>18 DEF FetchTimeout, Waiting
  <2> QED
    BY <1>18, <2>1 DEF FetchTimeout
<1>19. CASE UNCHANGED vars
  BY <1>19 DEF vars, poster, reader, ring, sems, Waiting
<1> QED
  BY <1>1, <1>2, <1>3, <1>4, <1>5, <1>6, <1>7, <1>8, <1>9,
     <1>10, <1>11, <1>12, <1>13, <1>14, <1>15, <1>16, <1>17, <1>18, <1>19
  DEF Next, PosterStep, ReaderStep

\* A poster that waits is counted.
LEMMA SomeWaiting ==
    ASSUME WaitSendCounts, \E t \in Posters : pc[t] = "wait"
    PROVE  wait_send > 0
<1>1. Waiting # {}
  BY DEF Waiting
<1>2. IsFiniteSet(Waiting)
  BY WaitingFinite, Zenon
<1>3. Cardinality(Waiting) # 0
  BY <1>1, <1>2, FS_EmptySet, Zenon
<1> QED
  BY <1>3, WaitingFinite DEF WaitSendCounts

\* The last fetch before the ring is empty signals if a poster waits.
LEMMA ForgottenStep ==
    ASSUME TypeInv, CallInv, RingInv, WaitSendCounts, PosterNotForgotten, [Next]_vars
    PROVE  PosterNotForgotten'
<1> USE DEF TypeInv, CallInv, RingInv, PosterNotForgotten, Full, IsEmpty, Labels, At, Goto, poster, ring, sems, reader
<1>1. ASSUME NEW t \in Posters, NEW o \in {"post", "trypost"}, Call(t, o) PROVE PosterNotForgotten'
  BY <1>1 DEF Call
<1>2. ASSUME NEW t \in Posters, Lock(t) PROVE PosterNotForgotten'
  BY <1>2 DEF Lock
<1>3. ASSUME NEW t \in Posters, CheckRoom(t) PROVE PosterNotForgotten'
  BY <1>3 DEF CheckRoom
<1>4. ASSUME NEW t \in Posters, Store(t) PROVE PosterNotForgotten'
  BY <1>4 DEF Store
<1>5. ASSUME NEW t \in Posters, Unlock(t) PROVE PosterNotForgotten'
  BY <1>5 DEF Unlock
<1>6. ASSUME NEW t \in Posters, TryPostFails(t) PROVE PosterNotForgotten'
  BY <1>6 DEF TryPostFails
<1>7. ASSUME NEW t \in Posters, WaitForRoom(t) PROVE PosterNotForgotten'
  BY <1>7, SizeFacts DEF WaitForRoom, N
<1>8. ASSUME NEW t \in Posters, WokenByRoom(t) PROVE PosterNotForgotten'
  BY <1>8 DEF WokenByRoom
<1>9. ASSUME NEW t \in Posters, Relock(t) PROVE PosterNotForgotten'
  BY <1>9 DEF Relock
<1>10. ASSUME NEW o \in {"fetch", "tryfetch"}, FetchCall(o) PROVE PosterNotForgotten'
  BY <1>10 DEF FetchCall
<1>11. ASSUME FetchLock PROVE PosterNotForgotten'
  BY <1>11 DEF FetchLock
<1>12. ASSUME CheckMsg PROVE PosterNotForgotten'
  BY <1>12 DEF CheckMsg
<1>13. ASSUME Take PROVE PosterNotForgotten'
  <2>1. CASE \E t \in Posters : pc[t] = "wait"
    <3>1. wait_send > 0
      BY <2>1, SomeWaiting
    <3> QED
      BY <1>13, <3>1 DEF Take
  <2>2. CASE ~\E t \in Posters : pc[t] = "wait"
    BY <1>13, <2>2 DEF Take
  <2> QED
    BY <2>1, <2>2
<1>14. ASSUME FetchUnlock PROVE PosterNotForgotten'
  BY <1>14 DEF FetchUnlock
<1>15. ASSUME TryFetchFails PROVE PosterNotForgotten'
  BY <1>15 DEF TryFetchFails
<1>16. ASSUME WaitForMsg PROVE PosterNotForgotten'
  BY <1>16 DEF WaitForMsg
<1>17. ASSUME WokenByMsg PROVE PosterNotForgotten'
  BY <1>17 DEF WokenByMsg
<1>18. ASSUME FetchTimeout PROVE PosterNotForgotten'
  BY <1>18 DEF FetchTimeout
<1>19. CASE UNCHANGED vars
  BY <1>19 DEF vars, poster, reader, ring, sems
<1> QED
  BY <1>1, <1>2, <1>3, <1>4, <1>5, <1>6, <1>7, <1>8, <1>9,
     <1>10, <1>11, <1>12, <1>13, <1>14, <1>15, <1>16, <1>17, <1>18, <1>19
  DEF Next, PosterStep, ReaderStep

IInv ==
    /\ TypeInv /\ CallInv /\ Exclusion /\ RingInv
    /\ NoLostWakeup /\ WaitSendCounts /\ PosterNotForgotten

LEMMA InitOK == Init => IInv
<1> SUFFICES ASSUME Init PROVE IInv
  OBVIOUS
<1>1. TypeInv /\ CallInv /\ Exclusion /\ RingInv /\ NoLostWakeup
  BY SizeFacts, MboxAssumption
  DEF Init, TypeInv, CallInv, Exclusion, RingInv, NoLostWakeup, Labels, CS, Cell, N, Full, IsEmpty
<1>2. WaitSendCounts
  <2>1. Waiting = {}
    BY DEF Init, Waiting
  <2> QED
    BY <2>1, FS_EmptySet DEF Init, WaitSendCounts
<1>3. PosterNotForgotten
  BY DEF Init, PosterNotForgotten, At
<1> QED
  BY <1>1, <1>2, <1>3 DEF IInv

\* The invariant holds in every reachable state: the mutex excludes, a thread that has
\* found room or a message still finds it in its next step, and no signal is lost.
THEOREM Invariant == Spec => []IInv
<1>1. ASSUME IInv, [Next]_vars PROVE IInv'
  BY <1>1, TypeStep, CallStep, ExclusionStep, RingStep, WakeupStep, WaitSendStep, ForgottenStep
  DEF IInv
<1> QED
  BY <1>1, InitOK, PTL DEF Spec

\* A reader that sleeps in sys_arch_mbox_fetch while a message is in the ring has a
\* signal pending, although only the post into the empty ring signals.
THEOREM ReaderIsWoken == Spec => []NoLostWakeup
BY Invariant, PTL DEF IInv

\* No poster is left asleep in sys_mbox_post with nothing that will wake it, although
\* not_full is binary and several fetches may signal it once.
THEOREM PostersAreWoken == Spec => []PosterNotForgotten
BY Invariant, PTL DEF IInv

\* wait_send is the number of posters between the two changes they make to it.
THEOREM WaitSendIsCount == Spec => []WaitSendCounts
BY Invariant, PTL DEF IInv

(***************************************************************************)
(* Refinement.                                                             *)
(***************************************************************************)

LEMMA QueueIsRing == Queue = Ring(msgs, first, last)
BY DEF Queue, Ring, N

LEMMA QueueLen ==
    ASSUME TypeInv, RingInv
    PROVE  /\ Len(Queue) = last - first
           /\ Queue \in Seq(Cell)
           /\ Full <=> Len(Queue) = SYS_MBOX_SIZE - 1
           /\ IsEmpty <=> Queue = <<>>
<1>1. Queue \in Seq(Cell) /\ Len(Queue) = last - first
  BY QueueIsRing, RingTyped, Zenon DEF TypeInv, RingInv
<1>2. Full <=> Len(Queue) = SYS_MBOX_SIZE - 1
  BY <1>1, SizeFacts DEF TypeInv, RingInv, Full, N
<1>3. IsEmpty <=> Queue = <<>>
  BY <1>1, EmptySeq DEF IsEmpty, TypeInv
<1> QED
  BY <1>1, <1>2, <1>3

\* A post that stores puts its message at the end of the queue.
LEMMA StoreIsPut ==
    ASSUME TypeInv, CallInv, RingInv, NEW t \in Posters, Store(t)
    PROVE  Fifo!Put(t)
<1>1. Msg(t) \in Msgs /\ Msg(t) # NoMsg
  BY MsgTyped, MboxAssumption DEF Store, At
<1>2. Offered[t] = Msg(t)
  BY DEF Offered, Store, At
<1>3. Offered' = [Offered EXCEPT ![t] = NoMsg]
  BY Zenon DEF Offered, Store, At, Goto, Msg, TypeInv
<1>4. ~Full /\ first <= last
  BY DEF RingInv, Store, At
<1>5. Len(Queue) < SYS_MBOX_SIZE - 1
  BY <1>4, QueueLen, SizeFacts DEF TypeInv, RingInv, Full, N
<1>6. Queue' = Append(Queue, Msg(t))
  <2>1. Queue' = Ring(msgs', first', last')
    BY DEF Queue, Ring, N
  <2>2. msgs' = [msgs EXCEPT ![last % N] = Msg(t)] /\ last' = last + 1 /\ first' = first
    BY DEF Store, N
  <2>3. last + 1 < first + N
    BY <1>4, SizeFacts DEF Full, TypeInv, N
  <2>4. Ring([msgs EXCEPT ![last % N] = Msg(t)], first, last + 1) = Append(Queue, Msg(t))
    BY <1>1, <1>4, <2>3, RingStore, QueueIsRing, Zenon DEF TypeInv, Cell
  <2> QED
    BY <2>1, <2>2, <2>4, Zenon
<1>7. got' = got
  BY DEF Store, reader
<1> QED
  BY <1>1, <1>2, <1>3, <1>5, <1>6, <1>7 DEF Fifo!Put

LEMMA TakeIsTake ==
    ASSUME TypeInv, RingInv, Take
    PROVE  Fifo!Take
<1>1. first < last
  BY DEF RingInv, Take, TypeInv, IsEmpty
<1>2. Queue # <<>> /\ Head(Queue) = msgs[first % N] /\ Tail(Queue) = Ring(msgs, first + 1, last)
  BY <1>1, RingFetch, QueueIsRing, Zenon DEF TypeInv
<1>3. Queue' = Ring(msgs, first + 1, last)
  BY DEF Queue, Ring, N, Take
<1>4. Offered' = Offered
  BY DEF Take, poster, Offered, Msg
<1> QED
  BY <1>2, <1>3, <1>4 DEF Fifo!Take, Take, N

LEMMA RefusalIsRefuse ==
    ASSUME TypeInv, CallInv, RingInv, NEW t \in Posters, TryPostFails(t)
    PROVE  Fifo!Refuse(t)
<1>1. Msg(t) # NoMsg
  BY MsgTyped, MboxAssumption DEF TryPostFails, At
<1>2. Offered[t] = Msg(t)
  BY DEF Offered, TryPostFails, At
<1>3. Offered' = [Offered EXCEPT ![t] = NoMsg]
  BY Zenon DEF Offered, TryPostFails, At, Goto, Msg, TypeInv
<1>4. Queue' = Queue /\ got' = got
  BY DEF TryPostFails, Queue, ring, reader
<1> QED
  BY <1>1, <1>2, <1>3, <1>4, QueueLen DEF Fifo!Refuse, TryPostFails

LEMMA CallIsOffer ==
    ASSUME TypeInv, NEW t \in Posters, NEW o \in {"post", "trypost"}, Call(t, o)
    PROVE  \E m \in Msgs : Fifo!Offer(t, m)
<1> DEFINE m == <<t, posts[t] + 1>>
<1>1. m \in Msgs
  BY MboxAssumption DEF Call, TypeInv, Msgs
<1>2. Offered[t] = NoMsg
  BY DEF Offered, Call, At
<1>3. Offered' = [Offered EXCEPT ![t] = m]
  BY Zenon DEF Offered, Call, At, Goto, Msg, TypeInv
<1>4. Queue' = Queue /\ got' = got
  BY DEF Call, Queue, ring, reader
<1>5. Fifo!Offer(t, m)
  BY <1>2, <1>3, <1>4 DEF Fifo!Offer
<1> HIDE DEF m
<1> QED
  BY <1>1, <1>5

\* What the mailbox sees depends on the ring and on the posters only.
LEMMA ViewKept ==
    ASSUME UNCHANGED <<ring, poster>>
    PROVE  Queue' = Queue /\ Offered' = Offered
  BY DEF ring, poster, Queue, Offered, Msg

\* Every step of the mailbox is a step of the abstract one or changes nothing in it.
LEMMA StepSimulates ==
    ASSUME IInv, [Next]_vars
    PROVE  [Fifo!Next]_(Fifo!vars)
<1> USE DEF IInv
<1> DEFINE Same == Queue' = Queue /\ Offered' = Offered /\ got' = got
<1>1. ASSUME NEW t \in Posters, NEW o \in {"post", "trypost"}, Call(t, o) PROVE Fifo!Next
  BY <1>1, CallIsOffer DEF Fifo!Next
<1>2. ASSUME NEW t \in Posters, Store(t) PROVE Fifo!Next
  BY <1>2, StoreIsPut DEF Fifo!Next
<1>3. ASSUME NEW t \in Posters, TryPostFails(t) PROVE Fifo!Next
  BY <1>3, RefusalIsRefuse DEF Fifo!Next
<1>4. ASSUME NEW t \in Posters,
             Lock(t) \/ CheckRoom(t) \/ Unlock(t) \/ WaitForRoom(t) \/ WokenByRoom(t) \/ Relock(t)
      PROVE Same
  <2>1. Queue' = Queue /\ got' = got /\ posts' = posts
    BY <1>4 DEF Lock, CheckRoom, Unlock, WaitForRoom, WokenByRoom, Relock, Queue, ring, reader
  <2>2. Offered' = Offered
    BY <1>4 DEF Lock, CheckRoom, Unlock, WaitForRoom, WokenByRoom, Relock, At, Goto, Offered, Msg,
                TypeInv
  <2> QED
    BY <2>1, <2>2
<1>5. ASSUME Take PROVE Fifo!Next
  BY <1>5, TakeIsTake DEF Fifo!Next
<1>6. ASSUME TryFetchFails PROVE Fifo!Next
  <2>1. Queue' = Queue /\ Offered' = Offered
    BY <1>6, ViewKept, Zenon DEF TryFetchFails
  <2>2. Fifo!Miss
    BY <1>6, <2>1, QueueLen DEF TryFetchFails, Fifo!Miss
  <2> QED
    BY <2>2 DEF Fifo!Next
<1>7. ASSUME FetchTimeout PROVE Fifo!Next
  <2>1. Queue' = Queue /\ Offered' = Offered
    BY <1>7, ViewKept, Zenon DEF FetchTimeout
  <2> QED
    BY <1>7, <2>1 DEF FetchTimeout, Fifo!GiveUp, Fifo!Next
<1>8. ASSUME \/ \E o \in {"fetch", "tryfetch"} : FetchCall(o)
             \/ FetchLock \/ CheckMsg \/ FetchUnlock \/ WaitForMsg \/ WokenByMsg
      PROVE Same
  <2>1. UNCHANGED <<ring, poster>> /\ got' = got
    BY <1>8, Zenon DEF FetchCall, FetchLock, CheckMsg, FetchUnlock, WaitForMsg, WokenByMsg
  <2> QED
    BY <2>1, ViewKept, Zenon
<1>9. CASE UNCHANGED vars
  BY <1>9 DEF vars, ring, poster, reader, Queue, Offered, Msg, Fifo!vars
<1>10. ASSUME Same PROVE UNCHANGED Fifo!vars
  BY <1>10 DEF Fifo!vars
<1> HIDE DEF Same
<1> QED
  BY <1>1, <1>2, <1>3, <1>4, <1>5, <1>6, <1>7, <1>8, <1>9, <1>10 DEF Next, PosterStep, ReaderStep

\* The ring buffer with its three binary semaphores implements the bounded first-in
\* first-out queue that lwIP takes a mailbox for.
THEOREM Refinement == Spec => ImplementsMailbox
<1>1. ASSUME Init PROVE Fifo!Init
  <2>1. Queue = <<>>
    BY <1>1, InitOK, QueueLen DEF IInv, Init, IsEmpty
  <2>2. Offered = [t \in Posters |-> NoMsg]
    BY <1>1 DEF Init, Offered
  <2> QED
    BY <1>1, <2>1, <2>2 DEF Init, Fifo!Init
<1> QED
  BY <1>1, Invariant, StepSimulates, PTL DEF Spec, ImplementsMailbox, Fifo!Spec
=============================================================================
