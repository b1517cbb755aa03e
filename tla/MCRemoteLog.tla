---------------------------- MODULE MCRemoteLog ----------------------------
(* Four slots and two lines: the buffer fills, wraps around twice over and  *)
(* is cleared at every fill level.                                         *)
EXTENDS RemoteLog
=============================================================================
