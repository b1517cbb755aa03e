------------------------------- MODULE MCTcp -------------------------------
(***************************************************************************)
(* Instances of Tcp.  A's sequence numbers wrap within its stream.         *)
(***************************************************************************)
EXTENDS Tcp

MCIss == [e \in Ends |-> IF e = "A" THEN 14 ELSE 5]

\* More than the window and the send buffer hold: writes block, the window closes.
MCTransfer == [e \in Ends |-> IF e = "A" THEN 6 ELSE 0]

\* Connections that are opened and closed without data.
MCNoData == [e \in Ends |-> 0]
=============================================================================
