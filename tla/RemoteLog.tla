----------------------------- MODULE RemoteLog -----------------------------
(***************************************************************************)
(* The ring buffer of util/RemoteLog.java.  log, dump and the /clear       *)
(* request are synchronized on the class, so each is one step.  A line is  *)
(* a member of Line; time stamp, tag and text are not told apart.          *)
(***************************************************************************)
EXTENDS Naturals, Sequences

CONSTANTS
    Line,
    Max,   \* MAX_LINES
    None   \* an array element that was never written

ASSUME MaxAssumption == Max \in Nat \ {0}

VARIABLES lines, head, count

logVars == <<lines, head, count>>

LogInit ==
    /\ lines = [i \in 0..(Max - 1) |-> None]
    /\ head = 0
    /\ count = 0

Log(l) ==
    /\ lines' = [lines EXCEPT ![head] = l]
    /\ head' = (head + 1) % Max
    /\ count' = IF count < Max THEN count + 1 ELSE count

\* Mutant: only the number of lines is reset.
ClearKeepsHead ==
    /\ count' = 0
    /\ UNCHANGED <<lines, head>>

\* The /clear request: the old lines stay in the array.
Clear ==
    /\ count' = 0
    /\ head' = 0
    /\ UNCHANGED lines

\* The lines dump() returns, in the order it returns them.
DumpOf(ls, h, c) ==
    LET start == IF c < Max THEN 0 ELSE h
    IN  [i \in 1..c |-> ls[(start + i - 1) % Max]]

Dump == DumpOf(lines, head, count)

LogNext == Clear \/ \E l \in Line : Log(l)

LogSpec == LogInit /\ [][LogNext]_logVars

-----------------------------------------------------------------------------
(* Properties.                                                             *)

\* head is an index of the array, and while the buffer is not full the next
\* line goes right after the last one, so that dump() may start at 0: log and
\* /clear both keep head and count in step.
RingOK ==
    /\ lines \in [0..(Max - 1) -> Line \cup {None}]
    /\ head \in 0..(Max - 1)
    /\ count \in 0..Max
    /\ count < Max => head = count

Abstract == INSTANCE BoundedLog WITH log <- Dump

\* What dump() returns is the last Max lines logged since the last clear, oldest
\* first: the ring buffer implements BoundedLog.
ImplementsBoundedLog == Abstract!Spec
=============================================================================
