----------------------------- MODULE BoundedLog -----------------------------
(* What RemoteLog promises its reader: the most recent Max lines, oldest    *)
(* first, since the last clear.                                            *)
EXTENDS Naturals, Sequences

CONSTANTS Line, Max

VARIABLE log

Init == log = <<>>

Write(l) == log' = Append(IF Len(log) < Max THEN log ELSE Tail(log), l)

Clear == log' = <<>>

Next == Clear \/ \E l \in Line : Write(l)

Spec == Init /\ [][Next]_log
=============================================================================
