------------------------------ MODULE MCEtharp ------------------------------
(* Two interfaces; the neighbour watched shares its address with a neighbour *)
(* on the other interface and its interface with another address.            *)
EXTENDS Etharp

CONSTANTS n1, n2, a1, a2

MCWatched == [netif |-> n1, ip |-> a1]
MCNeighbour == {MCWatched, [netif |-> n1, ip |-> a2], [netif |-> n2, ip |-> a1]}
=============================================================================
