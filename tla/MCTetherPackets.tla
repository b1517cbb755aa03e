-------------------------- MODULE MCTetherPackets --------------------------
(* TTLs on both sides of 64 and at the ends of the byte; sums of the other *)
(* words chosen so that the checksum takes values around 0, around the     *)
(* byte boundary and around 0xFFFF.  Both checksums that a receiver        *)
(* accepts, 0 and 0xFFFF, occur where the sum allows both.  A "stale"      *)
(* packet is from a subnet the bridge knows and the detector no longer has. *)
EXTENDS TetherPackets

Ttls == {0, 1, 63, 64, 65, 128, 255}
Rests == {17664, 32767, 49151, 49152, 65279, 65534, 65535, 65536, 82175, 131070, 400000}

MCZtSrc == 2681 + 5493
MCFlow == {"short", "own", "tcp", "icmp", "stale"}

Hdr(k, t, r, c) ==
    [short |-> k = "short", bridged |-> k # "own", tether |-> k \notin {"own", "stale"},
     tracked |-> k = "tcp", flow |-> k, ttl |-> t, ck |-> c, src |-> 49407, rest |-> r]
Full(k, t, r) == Hdr(k, t, r, Checksum(Hdr(k, t, r, 0)))

MCPacket ==
    UNION {{Full(k, t, r)} \cup
           (IF Full(k, t, r).ck = 0 THEN {Hdr(k, t, r, MaxWord)} ELSE {}) :
           k \in MCFlow, t \in Ttls, r \in Rests}
=============================================================================
