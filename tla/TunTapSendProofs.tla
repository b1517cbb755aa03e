-------------------------- MODULE TunTapSendProofs --------------------------
(* TLAPS proofs about TunTapSend, for every set of addresses, MACs, frames  *)
(* and routes, and for both address families.                              *)
EXTENDS TunTapSend, SequenceTheorems, TLAPS

\* The work list of the network thread.
LEMMA Todo ==
    ASSUME TableTypeOK, wpc # "idle"
    PROVE  /\ Head(todo) \in [ip : Ip, mac : Mac]
           /\ Head(todo).ip \in Ip /\ Head(todo).mac \in Mac
           /\ Tail(todo) \in Seq([ip : Ip, mac : Mac])
           /\ Head(todo) = [ip |-> Head(todo).ip, mac |-> Head(todo).mac]
<1>1. todo \in Seq([ip : Ip, mac : Mac]) /\ todo # <<>>
  BY DEF TableTypeOK
<1>2. Head(todo) \in [ip : Ip, mac : Mac] /\ Tail(todo) \in Seq([ip : Ip, mac : Mac])
  BY <1>1, HeadTailProperties, Zenon
<1> QED
  BY <1>2

\* A step that leaves the table alone.
LEMMA TableUnchanged ==
    ASSUME TableTypeOK, CopyOK, UNCHANGED tableVars
    PROVE  TableTypeOK' /\ CopyOK'
BY DEF TableTypeOK, CopyOK, tableVars

\* Packets that leave the table alone.
LEMMA ReadPacketTyped ==
    ASSUME SendTypeOK,
           NEW d, d \in Ip \/ DropNoAddress,
           DropNoAddress \/ SendCached(d) \/ DropNoRoute(d) \/ SendQuery(d) \/ Known(d)
    PROVE  SendTypeOK' /\ UNCHANGED tableVars
<1>1. \E c \in Configs : ReadPacket(c)
  BY DEF DropNoAddress, SendCached, DropNoRoute, SendQuery, Known, Configs
<1>2. cachedConfig' \in Configs /\ UNCHANGED tableVars /\ UNCHANGED <<routes, cache>> /\ rpc = "idle"
  BY <1>1 DEF ReadPacket, Configs
<1>3. CASE Known(d) /\ d \in Ip
  <2>1. rpc' = "known" /\ rdst' = d /\ d # None /\ Hop(d) # None /\ sent' = None
    BY <1>3, NoneAssumption DEF Known
  <2>2. Hop(rdst)' = Hop(d)
    BY <1>2, <2>1 DEF Hop
  <2> QED
    BY <1>2, <1>3, <2>1, <2>2 DEF SendTypeOK
<1>4. CASE DropNoAddress \/ SendCached(d) \/ DropNoRoute(d) \/ SendQuery(d)
  <2>1. rpc' = "idle" /\ rdst' = rdst
    BY <1>2, <1>4 DEF DropNoAddress, SendCached, DropNoRoute, SendQuery
  <2>2. sent' = None \/ (cache # None /\ sent' = [hop |-> cache.hop, mac |-> cache.mac])
    BY <1>4 DEF DropNoAddress, SendCached, DropNoRoute, SendQuery, CacheHit
  <2>3. sent' \in [hop : Ip, mac : Mac \cup {None}] \cup {None}
    BY <2>2 DEF SendTypeOK
  <2> QED
    BY <1>2, <2>1, <2>3 DEF SendTypeOK
<1> QED
  BY <1>3, <1>4

LEMMA TimeoutTyped ==
    ASSUME TableTypeOK, CopyOK, InTable(Timeout)
    PROVE  TableTypeOK' /\ CopyOK'
<1>1. CASE Scan
  <2>1. snap' \subseteq Copied
    <3> SUFFICES ASSUME NEW o \in snap' PROVE o \in Copied
      OBVIOUS
    <3>1. PICK m \in {n \in Mac : entries[n] # None} :
            o = [mac |-> m, ip |-> entries[m].ip, shared |-> TRUE, old |-> FALSE]
      BY <1>1 DEF Scan
    <3>2. m \in Mac /\ entries[m] \in Entry
      BY <3>1 DEF TableTypeOK
    <3> QED
      BY <3>1, <3>2 DEF Copied, Entry
  <2>2. TableTypeOK'
    BY <1>1, <2>1 DEF Scan, TimeoutStep, TableTypeOK
  <2>3. cur' = None /\ entries' = entries
    BY <1>1 DEF Scan, TableTypeOK
  <2>4. \A o \in snap' : o.mac \in Mac /\ entries[o.mac] # None
                        /\ o = [mac |-> o.mac, ip |-> entries[o.mac].ip, shared |-> TRUE, old |-> FALSE]
    BY <1>1 DEF Scan
  <2>5. CopyOK'
    BY <2>3, <2>4, Zenon DEF CopyOK
  <2> QED
    BY <2>2, <2>5
<1>2. CASE ScanFails
  <2>1. TableTypeOK'
    BY <1>2 DEF ScanFails, TimeoutStep, TableTypeOK
  <2> QED
    BY <1>2, <2>1 DEF ScanFails, CopyOK
<1>3. CASE Examine
  <2>0. PICK o \in snap : \E old \in Expired(o) :
          /\ snap' = snap \ {o}
          /\ cur' = IF old THEN [mac |-> o.mac, ip |-> o.ip] ELSE cur
          /\ tpc' = IF old THEN "removeIp" ELSE "examine"
    BY <1>3 DEF Examine
  <2>1. PICK old \in Expired(o) :
          /\ snap' = snap \ {o}
          /\ cur' = IF old THEN [mac |-> o.mac, ip |-> o.ip] ELSE cur
          /\ tpc' = IF old THEN "removeIp" ELSE "examine"
    BY <2>0
  <2>2. tpc = "examine" /\ TimeoutStep /\ UNCHANGED <<ipToMac, entries>>
    BY <1>3 DEF Examine
  <2>3. o.mac \in Mac /\ o.ip \in Ip
    BY DEF TableTypeOK, Copied
  <2>4. old \in BOOLEAN
    BY <2>3, Zenon DEF Expired, TableTypeOK, CopyOK, Copied, Entry
  <2>5. cur = None
    BY <2>2 DEF TableTypeOK
  <2>6. /\ cur' \in [mac : Mac, ip : Ip] \cup {None}
        /\ (tpc' \in {"removeIp", "removeEntry"}) = (cur' # None)
        /\ tpc' \in {"scan", "examine", "removeIp", "removeEntry", "dead"}
    <3>1. CASE old = TRUE
      <4>1. cur' = [mac |-> o.mac, ip |-> o.ip] /\ tpc' = "removeIp"
        BY <2>1, <3>1
      <4> QED
        BY <4>1, <2>3, NoneAssumption
    <3>2. CASE old = FALSE
      BY <2>1, <2>5, <3>2
    <3> QED
      BY <2>4, <3>1, <3>2, Zenon
  <2>7. TableTypeOK'
    BY <2>1, <2>2, <2>6 DEF TimeoutStep, TableTypeOK
  <2>8. CopyOK'
    BY <2>1, <2>2, <2>5 DEF CopyOK
  <2> QED
    BY <2>7, <2>8
<1>4. CASE RemoveIp
  <2>1. TableTypeOK'
    BY <1>4 DEF RemoveIp, TimeoutStep, TableTypeOK
  <2> QED
    BY <1>4, <2>1 DEF RemoveIp, CopyOK
<1>5. CASE RemoveEntry
  <2>1. cur.mac \in Mac /\ cur # None
    BY <1>5 DEF RemoveEntry, TableTypeOK
  <2>2. entries' \in [Mac -> Entry \cup {None}]
    BY <1>5, <2>1 DEF RemoveEntry, TableTypeOK
  <2>3. TableTypeOK'
    BY <1>5, <2>2 DEF RemoveEntry, TimeoutStep, TableTypeOK
  <2>4. CopyOK'
    BY <1>5, <2>1 DEF RemoveEntry, CopyOK, TableTypeOK, Copied
  <2> QED
    BY <2>3, <2>4
<1>6. CASE Sleep \/ SeeInterrupt
  <2>1. TableTypeOK'
    BY <1>6 DEF Sleep, SeeInterrupt, TimeoutStep, TableTypeOK
  <2> QED
    BY <1>6, <2>1 DEF Sleep, SeeInterrupt, CopyOK
<1> QED
  BY <1>1, <1>2, <1>3, <1>4, <1>5, <1>6 DEF InTable, Timeout

\* setAddress and the rest of the table.
LEMMA TableTyped ==
    ASSUME TableTypeOK, CopyOK, Table
    PROVE  TableTypeOK' /\ CopyOK'
<1>1. ASSUME NEW f \in Frames, Receive(f) PROVE TableTypeOK' /\ CopyOK'
  <2>1. TableTypeOK'
    BY <1>1, FramesAssumption, Zenon DEF Receive, TableTypeOK
  <2> QED
    BY <1>1, <2>1 DEF Receive, CopyOK
<1>2. CASE PutIp
  <2>1. TableTypeOK'
    BY <1>2, Todo DEF PutIp, TableTypeOK
  <2> QED
    BY <1>2, <2>1 DEF PutIp, CopyOK
<1>3. CASE PutEntry
  <2> DEFINE m == Head(todo).mac
             e == [ip |-> Head(todo).ip, old |-> FALSE]
             Kept(o) == IF o.mac = m /\ o.shared
                        THEN [o EXCEPT !.shared = FALSE, !.old = entries[m].old] ELSE o
  <2>1. m \in Mac /\ e \in Entry /\ Tail(todo) \in Seq([ip : Ip, mac : Mac])
    BY <1>3, Todo DEF PutEntry, Entry
  <2>2. entries' = [entries EXCEPT ![m] = e] /\ snap' = {Kept(o) : o \in snap}
    BY <1>3, Zenon DEF PutEntry, Detach
  <2>3. entries' \in [Mac -> Entry \cup {None}]
    BY <2>1, <2>2, Zenon DEF TableTypeOK
  <2> HIDE DEF m, e
  <2>4. \A o \in snap : Kept(o) \in Copied /\ Kept(o).mac = o.mac
                        /\ (Kept(o).shared => o.shared /\ o.mac # m)
    <3> SUFFICES ASSUME NEW o \in snap
                 PROVE  Kept(o) \in Copied /\ Kept(o).mac = o.mac
                        /\ (Kept(o).shared => o.shared /\ o.mac # m)
      BY Zenon
    <3>1. o \in Copied
      BY DEF TableTypeOK
    <3>2. CASE o.mac = m /\ o.shared
      <4>1. entries[m].old \in BOOLEAN
        BY <2>1, <3>2 DEF CopyOK, TableTypeOK, Entry
      <4> QED
        BY <3>1, <3>2, <4>1, Zenon DEF Copied
    <3>3. CASE ~(o.mac = m /\ o.shared)
      BY <3>1, <3>3
    <3> QED
      BY <3>2, <3>3
  <2> HIDE DEF Kept
  <2>5. snap' \subseteq Copied
    BY <2>2, <2>4
  <2>6. TableTypeOK'
    BY <1>3, <2>1, <2>3, <2>5, Zenon DEF PutEntry, TableTypeOK
  <2>7. cur' = cur
    BY <1>3 DEF PutEntry
  <2>8. \A o \in snap' : o.shared => entries'[o.mac] # None
    BY <2>1, <2>2, <2>4 DEF CopyOK, TableTypeOK, Copied
  <2>9. CopyOK'
    BY <2>2, <2>4, <2>7, <2>8 DEF CopyOK
  <2> QED
    BY <2>6, <2>9
<1>4. CASE InTable(Timeout)
  BY <1>4, TimeoutTyped
<1>5. CASE Stop
  <2>1. TableTypeOK'
    BY <1>5 DEF Stop, TableTypeOK
  <2> QED
    BY <1>5, <2>1 DEF Stop, CopyOK
<1>6. ASSUME NEW m \in Mac, Age(m) PROVE TableTypeOK' /\ CopyOK'
  <2>1. entries' \in [Mac -> Entry \cup {None}]
        /\ \A n \in Mac : entries[n] # None => entries'[n] # None
    BY <1>6, NoneAssumption, Zenon DEF Age, TableTypeOK, Entry
  <2>2. TableTypeOK'
    BY <1>6, <2>1 DEF Age, TableTypeOK
  <2> QED
    BY <1>6, <2>1, <2>2 DEF Age, CopyOK, TableTypeOK, Copied
<1> QED
  BY <1>1, <1>2, <1>3, <1>4, <1>5, <1>6 DEF Table, InTable

\* The destination being looked up has a next hop.
LEMMA NextHop ==
    ASSUME SendTypeOK, SendKnown
    PROVE  rdst \in Ip /\ Hop(rdst) \in Ip
<1>1. rdst \in Ip /\ Hop(rdst) # None
  BY DEF SendKnown, SendTypeOK
<1>2. routes \in [Ip -> Ip \cup {None}]
  BY RoutesAssumption DEF SendTypeOK
<1>3. routes[rdst] \in Ip \cup {None}
  BY <1>1, <1>2
<1> QED
  BY <1>1, <1>3 DEF Hop

\* A lookup refreshes the entry of the MAC it returns.
LEMMA SendKnownTyped ==
    ASSUME AdapterTypeOK, CopyOK, SendKnown
    PROVE  AdapterTypeOK' /\ CopyOK'
<1> DEFINE h == Hop(rdst)
           m == ipToMac[h]
<1>1. rdst \in Ip /\ h \in Ip
  BY NextHop DEF AdapterTypeOK
<1>2. m \in Mac \cup {None}
  BY <1>1 DEF AdapterTypeOK, TableTypeOK
<1>3. /\ Refresh(m) /\ sent' = [hop |-> h, mac |-> m]
      /\ cache' = IF Ndp THEN None ELSE [dst |-> rdst, hop |-> h, mac |-> m]
      /\ rpc' = "idle" /\ rdst' = None
      /\ UNCHANGED <<ipToMac, tpc, snap, cur, stopped, todo, wpc, announced, routes, cachedConfig>>
  BY DEF SendKnown
<1> HIDE DEF h, m
<1>4. entries' \in [Mac -> Entry \cup {None}]
      /\ \A n \in Mac : entries[n] # None => entries'[n] # None
  BY <1>2, <1>3, NoneAssumption, Zenon DEF Refresh, AdapterTypeOK, TableTypeOK, Entry
<1>5. /\ sent' \in [hop : Ip, mac : Mac \cup {None}] \cup {None}
      /\ cache' \in [dst : Ip, hop : Ip, mac : Mac \cup {None}] \cup {None}
  BY <1>1, <1>2, <1>3
<1>6. TableTypeOK'
  BY <1>3, <1>4 DEF AdapterTypeOK, TableTypeOK
<1>7. SendTypeOK'
  BY <1>3, <1>5 DEF AdapterTypeOK, SendTypeOK
<1>8. CopyOK'
  BY <1>3, <1>4 DEF CopyOK, AdapterTypeOK, TableTypeOK, Copied
<1> QED
  BY <1>6, <1>7, <1>8 DEF AdapterTypeOK

\* Types, and the shape of the timeout thread's copy.
THEOREM TypesAndCopies == AdapterSpec => [](AdapterTypeOK /\ CopyOK)
<1>1. AdapterInit => AdapterTypeOK /\ CopyOK
  <2> SUFFICES ASSUME AdapterInit PROVE AdapterTypeOK /\ CopyOK
    OBVIOUS
  <2>1. todo \in Seq([ip : Ip, mac : Mac])
    BY DEF AdapterInit, TableInit
  <2>2. /\ ipToMac \in [Ip -> Mac \cup {None}]
        /\ entries \in [Mac -> Entry \cup {None}]
        /\ snap \subseteq Copied /\ announced \subseteq [ip : Ip, mac : Mac]
    BY DEF AdapterInit, TableInit
  <2>3. (tpc \in {"removeIp", "removeEntry"}) = (cur # None) /\ (wpc = "idle") = (todo = <<>>)
    BY DEF AdapterInit, TableInit
  <2>4. TableTypeOK /\ CopyOK
    BY <2>1, <2>2, <2>3, Zenon DEF AdapterInit, TableInit, TableTypeOK, CopyOK
  <2>5. SendTypeOK
    BY DEF AdapterInit, SendTypeOK, Configs
  <2> QED
    BY <2>4, <2>5 DEF AdapterTypeOK
<1>2. AdapterTypeOK /\ CopyOK /\ [AdapterNext]_adapterVars => AdapterTypeOK' /\ CopyOK'
  <2> SUFFICES ASSUME AdapterTypeOK, CopyOK, [AdapterNext]_adapterVars PROVE AdapterTypeOK' /\ CopyOK'
    OBVIOUS
  <2> USE DEF AdapterTypeOK
  <2>1. CASE SendKnown
    BY <2>1, SendKnownTyped
  <2>2. CASE DropNoAddress
    BY <2>2, ReadPacketTyped, TableUnchanged
  <2>3. ASSUME NEW d \in Ip, SendCached(d) \/ DropNoRoute(d) \/ SendQuery(d) \/ Known(d)
        PROVE  AdapterTypeOK' /\ CopyOK'
    BY <2>3, ReadPacketTyped, TableUnchanged
  <2>4. CASE Table
    <3>1. UNCHANGED sendVars /\ sent' = None
      BY <2>4 DEF Table, InTable
    <3>2. SendTypeOK'
      BY <3>1 DEF SendTypeOK, sendVars, Hop
    <3> QED
      BY <2>4, <3>2, TableTyped
  <2>5. CASE Reconfigure
    <3>1. SendTypeOK'
      BY <2>5 DEF Reconfigure, SendTypeOK
    <3>2. TableTypeOK' /\ CopyOK'
      BY <2>5 DEF Reconfigure, TableTypeOK, CopyOK
    <3> QED
      BY <3>1, <3>2
  <2>6. CASE UNCHANGED adapterVars
    <3>1. UNCHANGED tableVars /\ SendTypeOK'
      BY <2>6 DEF adapterVars, sendVars, SendTypeOK, Hop
    <3> QED
      BY <3>1, TableUnchanged
  <2> QED
    BY <2>1, <2>2, <2>3, <2>4, <2>5, <2>6 DEF AdapterNext, Tun
<1> QED
  BY <1>1, <1>2, PTL DEF AdapterSpec

\* The table, the destination cache and the frames only hold announced pairs.
THEOREM AnnouncedInductive == AdapterSpec => []OnlyAnnounced
<1>1. AdapterInit => OnlyAnnounced
  BY Zenon DEF AdapterInit, TableInit, OnlyAnnounced, FramesToAnnouncedMac
<1>2. AdapterTypeOK /\ CopyOK /\ OnlyAnnounced /\ [AdapterNext]_adapterVars => OnlyAnnounced'
  <2> SUFFICES ASSUME AdapterTypeOK, CopyOK, OnlyAnnounced, [AdapterNext]_adapterVars PROVE OnlyAnnounced'
    BY Zenon
  <2> USE DEF OnlyAnnounced, FramesToAnnouncedMac
  <2>1. CASE SendKnown
    <3> DEFINE h == Hop(rdst)
               m == ipToMac[h]
    <3>1. h \in Ip
      BY <2>1, NextHop DEF AdapterTypeOK
    <3>2. m # None => [ip |-> h, mac |-> m] \in announced
      BY <3>1, Zenon
    <3>3. /\ sent' = [hop |-> h, mac |-> m]
          /\ cache' = IF Ndp THEN None ELSE [dst |-> rdst, hop |-> h, mac |-> m]
          /\ UNCHANGED <<ipToMac, announced>>
      BY <2>1 DEF SendKnown
    <3> HIDE DEF h, m
    <3> QED
      BY <3>2, <3>3
  <2>2. ASSUME NEW d, DropNoAddress \/ SendCached(d) \/ DropNoRoute(d) \/ SendQuery(d) \/ Known(d)
        PROVE  OnlyAnnounced'
    <3>1. UNCHANGED <<ipToMac, announced, cache>>
      BY <2>2, Zenon DEF DropNoAddress, SendCached, DropNoRoute, SendQuery, Known, ReadPacket,
                         tableVars
    <3>2. sent' = None \/ (cache # None /\ sent' = [hop |-> cache.hop, mac |-> cache.mac])
      BY <2>2 DEF DropNoAddress, SendCached, DropNoRoute, SendQuery, Known, CacheHit
    <3> QED
      BY <3>1, <3>2
  <2>3. CASE Table
    <3>1. sent' = None /\ UNCHANGED cache
      BY <2>3, Zenon DEF Table, InTable, sendVars
    <3>2. CASE PutIp
      BY <3>1, <3>2, Todo, Zenon DEF PutIp, AdapterTypeOK, TableTypeOK
    <3>3. CASE RemoveIp
      BY <3>1, <3>3 DEF RemoveIp, TimeoutStep, AdapterTypeOK, TableTypeOK
    <3>4. CASE UNCHANGED <<ipToMac, announced>>
      BY <3>1, <3>4
    <3> QED
      BY <2>3, <3>2, <3>3, <3>4
         DEF Table, InTable, PutEntry, Stop, Receive, Age, Timeout, Scan, ScanFails, Examine,
             RemoveEntry, Sleep, SeeInterrupt, TimeoutStep
  <2>4. CASE Reconfigure
    BY <2>4 DEF Reconfigure
  <2>5. CASE UNCHANGED adapterVars
    BY <2>5 DEF adapterVars, tableVars, sendVars
  <2> QED
    BY <2>1, <2>2, <2>3, <2>4, <2>5 DEF AdapterNext, Tun
<1> QED
  BY <1>1, <1>2, TypesAndCopies, PTL DEF AdapterSpec

\* No interleaving sends a frame to a MAC its next hop never announced.
THEOREM FramesAnnounced == AdapterSpec => []FramesToAnnouncedMac
<1>1. OnlyAnnounced => FramesToAnnouncedMac
  BY DEF OnlyAnnounced
<1> QED
  BY <1>1, AnnouncedInductive, PTL
=============================================================================
