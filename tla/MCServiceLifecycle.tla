------------------------- MODULE MCServiceLifecycle -------------------------
(***************************************************************************)
(* One thread of each kind besides those that outlive a stop.              *)
(***************************************************************************)
EXTENDS ServiceLifecycle
=============================================================================
