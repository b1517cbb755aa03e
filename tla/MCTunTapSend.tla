---------------------------- MODULE MCTunTapSend ----------------------------
(* Two addresses and two MACs: an address moves from one MAC to the other,  *)
(* two addresses share a MAC, and an ARP packet announces two pairs.  Both   *)
(* destinations are on the link, or one is behind the other and the other    *)
(* unroutable.                                                               *)
EXTENDS TunTapSend

MCIp == {"a", "b"}
MCMac == {"m", "n"}
Pair(i, m) == [ip |-> i, mac |-> m]
MCFrames == {<<Pair("a", "m")>>, <<Pair("b", "m"), Pair("a", "n")>>}
MCRoutes == {[a |-> "a", b |-> "b"], [a |-> "b", b |-> None]}
=============================================================================
