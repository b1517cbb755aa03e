--------------------------- MODULE MCXnetService ---------------------------
(* Four networks and a registry of three taps: a network may find it full, *)
(* be copied over another one and take a slot a copy came from, and copies *)
(* may close lwIP's list into a cycle, while a frame travels in each       *)
(* direction.                                                              *)
(*                                                                         *)
(* Networks are interchangeable, also for CallsReturn: neither it nor the  *)
(* fairness it needs names one, and every step that fairness asks for      *)
(* changes more than the names.                                            *)
EXTENDS XnetFrames, TLC

NetworkSymmetry == Permutations(Network)
=============================================================================
