------------------------- MODULE MCTetherServices -------------------------
(* A small instance of TetherServices: one interface that comes and goes,  *)
(* two upstream networks, and two of the three proxies (the DNS proxy,     *)
(* whose start reads tetherBridge, and one that stands for the SOCKS and   *)
(* HTTP proxies, whose code here is the same).                             *)
EXTENDS TetherServices

MCIface == {[name |-> "usb", addr |-> 1]}
MCKinds == <<"dns", "socks">>
=============================================================================
