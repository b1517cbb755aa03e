# TLA+ models of xnet-zt

xnet-zt is an Android VPN client. It runs a ZeroTier node, carries the phone's
packets into the virtual network, and can share that network with devices
tethered to the phone. This directory holds TLA+ modules for its concurrent
parts, TLC configurations that check them on small instances, and TLAPS proofs
for every instance. `PROJECT.json` maps each definition to its source lines.

Paths below are relative to `src/app/src/main/java/ngo/xnet/vpn/` for Java and to
`src/externals/libzt-jni/` for C; `lwip/` stands for `src/externals/lwip/src/` and
`contrib/` for `src/externals/lwip-contrib/`.

## The system

| Part | Source | Threads | Module |
|---|---|---|---|
| VPN service | `service/ZeroTierOneService.java`, `service/UdpCom.java` | main, event bus, UDP thread, service thread | `ServiceLifecycle` |
| TUN adapter | `service/TunTapAdapter.java` | TUN receive thread, network thread | `TunTapSend` |
| ARP and NDP tables | `service/ARPTable.java`, `service/NDPTable.java` | those two, timeout thread | `NeighbourTable` |
| Tether bridge, detector, upstream selector | `tether/TetherBridge.java`, `TetherDetector.java`, `UpstreamSelector.java` | service, poll thread, network callbacks | `TetherBridge` |
| Tether services | `service/ZeroTierOneService.java` (1171-1314) | the bridge's threads | `TetherServices` |
| NAT engine, L3 bridge | `tether/NatEngine.java`, `tether/TetherL3Bridge.java` | TUN receive thread | `TetherPackets` |
| Remote log | `util/RemoteLog.java` | any (one monitor) | `RemoteLog`, `BoundedLog` |
| Native service, taps | `xnet_service.c`, `xnet_tap.c`, `lwip/core/netif.c` | client, `svc_thread`, lwIP | `XnetService`, `XnetFrames` |
| lwIP's TCP | `lwip/core/tcp.c`, `tcp_in.c`, `tcp_out.c` | any, under the core lock | `TcpReceiver`, `TcpSender`, `TcpReceive`, `Tcp` |
| lwIP's sockets | `lwip/api/api_msg.c`, `api_lib.c`, `sockets.c` | application threads | `TcpSocket`, `Tcp` |
| lwIP's mailboxes | `contrib/ports/unix/port/sys_arch.c` | any | `SysMbox`, `Mailbox` |
| lwIP's ARP cache | `lwip/core/ipv4/etharp.c` | any, under the core lock | `Etharp` |

How they interact: a start command makes the node and its threads. The node calls
back with network configurations; a bus thread then runs `updateTunnelConfig`,
which opens the tunnel, restarts the TUN thread and starts the tether services.
The TUN thread passes each IPv4 packet through the L3 bridge and the NAT engine
(`TetherPackets`), then finds a next hop and a MAC (`TunTapSend`). The native
library is a second, independent way to the network, with lwIP instead of a TUN:
frames go between the node and a tap (`XnetFrames`), a tap's packets find their
Ethernet address in the ARP cache (`Etharp`), and the socket calls of the library
are lwIP's sockets, over its TCP (`Tcp`), which hand data to each other through
mailboxes (`SysMbox`).

## Modules

**`TetherBridge`** has one program counter per thread; a step is one read or one
write of a volatile field or copy-on-write list. The interfaces and networks that
exist come and go as the system's own actions.

**`TetherServices`** extends it with the service's state listener, which runs on
whichever bridge thread changed the state. A proxy is its field: null, made, or
bound to an address. A running proxy that no field refers to is kept in `leaked`.

**`RemoteLog`** is the ring buffer with its array, head and count. **`BoundedLog`**
is what it promises: the last `Max` lines, oldest first. The refinement
mapping gives the abstract sequence as what `dump` would return.

**`TetherPackets`** represents an IPv4 header by what its checksum sees: TTL,
checksum field, sum of the source words, sum of all other words. `fixTtl` and
`fixIpChecksum` are the code's arithmetic, signed differences and folds included.

**`NeighbourTable`** is the learning, lookup, expiry and stop of one table, access
by access, with the timeout thread's unlocked copy as a state of its own.
**`TunTapSend`** extends it with the sending side: configuration cache,
destination cache, and the gap between `hasMacForAddress` and `getMacForAddress`.
`Ndp` chooses between the IPv4 and the IPv6 path.

**`XnetService`** models `xnet_start`, `xnet_stop`, `xnet_join`, `xnet_leave`, the
service thread, lwIP's start and the node's configuration callback. Each tap holds
its `struct netif`, so lwIP's interface list runs through the slots of `g_taps`,
and copying a tap into a freed slot copies its link.

**`XnetFrames`** adds the two ways of a frame. On the way in `svc_thread` finds a
tap, looks at its interface and waits for the core lock; on the way out a thread
that holds the core lock tests `g_node` and uses it. Neither takes `g_lock`, so any
step of the service may come between. `Among` is a step of the service with what
the frames ask of it: one that changes the interfaces needs the core lock.

**`ServiceLifecycle`** models which threads of the service exist, who interrupts
and joins whom, and which fields are set. `stopZeroTier` is a sequence of steps
that any of four threads may be in; a step ends where the code has tested a field
it is about to use, and where it waits. An interrupt flag ends a join and is
cleared by it, as `Thread.join` does. The node itself, the system's answer to
`establish`, and Java's threads are modelled from their use.

**`TcpReceiver`**, **`TcpSender`** and **`TcpSocket`** are lwIP's TCP as operators on
a protocol control block whose fields keep their names: `tcp_receive` with the
out-of-sequence queue and the list of selective acknowledgements, `tcp_write`,
`tcp_output`, both kinds of retransmission and the persist timer, `tcp_recved`, and
what goes through `recvmbox` or waits in `refused_data`. Sequence numbers wrap.

**`TcpReceive`** is one receiver against every way to cut, repeat and reorder a
stream. **`Tcp`** is two sockets and the network between them: `tcp_process` in all
its states but simultaneous open, the timers, connect, accept, write, read,
shutdown and close. A step is one segment, one timer or one API call, since each
runs under the core lock.

**`SysMbox`** is the mailbox of the unix port, with a step for each semaphore
operation and for each look at the ring. **`Mailbox`** is what the rest of lwIP
expects: a bounded queue. The refinement mapping reads the queue out of the ring,
and a poster offers its message until the step that stores or refuses it.

**`Etharp`** is the ARP cache: lookup with the remembered index, recycling,
queueing, learning, ageing, and interfaces that go away while a frame for them
waits for the core lock.

## Runs

| Run | Checks | Result |
|---|---|---|
| `tether_services` | no activation is lost; ACTIVE has an upstream, proxies start, a stop leaves no proxy, outside the named races | holds |
| `remote_log` | the ring implements the bounded log | holds |
| `tether_packets` | a valid header stays valid through both engines | holds |
| `tuntap_send` | frames go only to announced MACs; entries expire | holds |
| `xnet_service` | one tap per network; nothing outlives its node; frames meet their tap and a node; calls return | holds |
| `netif_added` | an interface is added to lwIP once (assertion) | violated |
| `service_lifecycle` | safe close, nothing left behind, stops return | holds |
| `tcp_receive` | the stream arrives whole and in order; queue, SACKs and window are consistent | holds |
| `tcp_transfer` | two sockets: order, end of stream, nothing dropped that is needed | holds |
| `tcp_close` | two sockets: connects return, closed connections are freed | holds |
| `sys_mbox` | the ring implements the mailbox; posts return, all messages are fetched | holds |
| `etharp` | frames to the latest address, in order; the timer uses live interfaces; no packet leaks or waits for ever | holds |

The violated run is the finding in `PROJECT.json`: a tap copied into a freed slot
of `g_taps` leaves its interface in lwIP's list at the old slot, and the next
network there adds it again.

What the lifecycle run says in detail. `stopZeroTier` takes no lock. Overlapping
calls of it may use a field the other one cleared, but between them they still
stop everything and return. Three things do spoil a stop, and the properties name
them as exceptions: a start that overlaps it (`startRaced`); a tunnel update that
overlaps it (`updateRaced`), which may leave the tunnel and its TUN thread but no
socket, no service thread and no UDP thread with an open socket; and a shutdown by
the service thread itself (`failed`), which loses its interrupt flag in the join of
itself and goes on looping without a node.

## Where code and text disagree

The passing properties name these as exceptions, or the model takes the steps
without stating a property; no run of their own shows them.

- `src/README.md:42` has tethered packets leave with TTL 64; in TUNNEL mode
  `TetherL3Bridge` sends such a packet itself, before the NAT engine, which would
  reset its TTL, sees it.
- `TetherBridge` may become ACTIVE on an upstream that has just gone
  (`ActiveHasUpstreamUnlessStale`), and a bridge that was active before the service
  registered its listener starts no proxy (`ProxiesEventuallyStart`).
- `getMacForAddress` may return -1 after `hasMacForAddress` said yes; the frame goes
  to -1 and the pair is cached (`FramesToAnnouncedMac`).
- A start whose `node.init` failed leaves no UDP thread to the next start.
- A FIN that finds `recvmbox` full is lost: `recv_tcp` returns `ERR_MEM`, which
  `tcp_input` only heeds for data. The comment at `lwip/api/api_msg.c:332` ("it is
  presented to us later again from tcp_fasttmr!") holds for data alone. The reader
  never sees the end (`StreamArrives`: `eofLost`).
- A FIN one beyond the advertised window moves `rcv_nxt` past it, against the
  assertion at `lwip/core/tcp_in.c:1576` (`WindowAccounted`: `overran`).
- After a shutdown of the sending side alone, TCP may free the control block that
  the socket still refers to (`DanglingOnlyHalfClosed`).
- `cb_vframe` may deliver into a tap another one was copied over by a leave
  (`moved`), and `netif_linkoutput` may use a node deleted by a stop (`stopped`).

## Bounds

- Tether: one interface and two networks. A second interface only repeats the
  first in the properties checked.
- Remote log: two lines in a ring of size 4: it fills, wraps and is cleared.
- Packets: headers whose sums lie on either side of each carry and borrow.
- Neighbours: two addresses, two MACs, two routings, so that an address can be
  its own next hop or another's, and a MAC can move between addresses.
- Native: four networks and three taps: a full registry, a freed slot in the
  middle, a cyclic list; one frame in each direction. Networks are symmetric, for
  `CallsReturn` too: neither it nor the fairness it uses names one, and no step
  that fairness asks for leads to a permutation of its own state. The violation
  needs three networks and two taps.
- Lifecycle: one UDP, one TUN and two service threads alive at once (a service
  thread can outlive a stop), one update, and `MaxCalls` = 2 calls in progress.
  `MayBegin` lets calls that upset each other run to their end and then begins
  nothing new. A thread that has ended stands for a new one, so the number of
  restarts is not bounded.
- TCP: sequence numbers modulo 16 or 32, which wrap within the stream. The receiver
  has a window of six bytes, segments of up to three and a stream of twelve bytes,
  so that its queue holds several pieces and the window closes. Two sockets send
  one write of six bytes through a window and a buffer of four, so that writes
  block and probes are sent, or no data at all when opening and closing is the
  question. `NetCap` = 2 segments in flight each way, `MaxFaults` = 2 losses,
  repetitions, overtakings or early timeouts.
- Mailboxes: a ring of three slots, two posters of three messages: the counters go
  round the ring twice and both posters can wait.
- ARP: a table of two entries for three neighbours, one address on two
  interfaces, queues of two and `MaxPackets` = 3.

## Fairness

Fairness is only assumed of what a running thread does by itself: the poll
loop and the handlers of the bridge, the timeout thread (a timer loop) and the
ageing of entries, the steps of `xnet_start`, `xnet_stop` and `svc_thread`,
lwIP's start-up, each service thread's own steps, and lwIP's timers. Receive calls
have a one-second timeout and the TUN is non-blocking, so their loops come back to
their test. It is weak, except for contended locks: a poster gets the mailbox's
mutex from a reader that polls, `svc_thread` and `xnet_stop` get the core lock from
senders, and `svc_thread` comes back to `g_running` between frames. TCP's liveness
takes for granted that the network does not lose every copy (`TcpReceive`) or
delivers what it has not lost (`Tcp`), and, in `TcpReceive`, that the application
reads. Nothing obliges a user to start or stop, a network to appear, or the node
to call.

## Proofs

| Module | Theorems | Argument |
|---|---|---|
| `TetherProofs` | `TypeCorrect`, `ActivationInductive`, `ActivationNotLost` | `ActivationPending` |
| | `ServicesImplementBridge`, `ServicesInductive`, `AloneNothingLost`, `ActiveWithoutUpstreamIsStale`, `QuietStopLeavesNoProxy` | `SvcInv` |
| | `HeadersTyped`, `HeadersStayValid` | congruence modulo 65535 |
| `TunTapSendProofs` | `TypesAndCopies`, `AnnouncedInductive`, `FramesAnnounced` | `OnlyAnnounced` |
| `XnetServiceProofs` | `OneTapPerNetwork`, `Lifecycle`, `NodeBehindTheFlags` | `LifecycleOK` |
| | `FramesImplementService`, `FramesMeetTheirTap`, `OutputMeetsNode` | `FrameInv` |
| `ServiceLifecycleProofs` | `ServiceInductive`, `NodeClosedAlone`, `FieldsStaySet`, `StoppedLeavesNothing` | `ServiceInv` |
| `RingProofs` | `RingInvariant`, `RingImplementsLog` | head = count until full |
| | `Invariant`, `ReaderIsWoken`, `PostersAreWoken`, `WaitSendIsCount`, `Refinement` | the mailbox's inductive invariant |
| `EtharpProofs` | `Invariant`, `EntriesUnique`, `QueuesAreSane`, `TimerUsesLiveNetif`, `EntriesLatest`, `FramesSentToLatest` | `IInv` |
| | `HeldInvariant`, `ReferencesAreQueued`, `FramesSentInOrder` | `HeldInv` |

- `NoLostActivation` speaks of settled states only and is not inductive.
  `ActivationPending` adds, for each thread, that it is on its way to set ACTIVE:
  whoever publishes its half second sees the other half.
- The bridge under the service implements the bridge alone, since the listener only
  delays `setState`; its invariants carry over. `SvcInv` adds what each property
  needs of other threads: a thread alone among the proxies finds each field as it
  left it (`AloneInv`); an ACTIVE bridge without an upstream has a callback that is
  about to say so, or the state was assigned too late (`UpstreamInv`); `stop()` shuts
  out the poll thread, then the callbacks, and its `setState` does call the listener
  (`StopInv`), which clears the fields one by one (`ClearInv`).
- A ring step either appends or overwrites the oldest line; `DumpSlots` says which
  slots `dump` reads before and after, and the mapping then commutes.
- A one's-complement sum is a number modulo 65535 with two zeros. The fold lemmas
  bound each fold and keep the residue; that the first header word is not zero
  rules out the wrong zero.
- `OnlyAnnounced` collects all the places a MAC can be on its way to a frame:
  table, timeout copy, pending lookup, destination cache.
- `TapsDistinct` is proved with the types, since a copy into a freed slot keeps
  it only if `count` is the number of taps. `LifecycleOK` relates the two threads'
  positions to the flags; the rest follows from it.
- The service with frames implements the service without, so these invariants
  carry over. `FrameInv` adds that a frame on its way in keeps `svc_thread` in its
  loop, which keeps `xnet_stop` in its join, and that a node seen by a sender goes
  with `g_running`.
- `ServiceInv` is layered by what the overlaps so far allow, because the properties
  are. Without a start in a stop, and unless the service thread has stopped the
  service, the fields name the UDP and service threads that run, and a stop that is
  past a thread has seen it end, however many stops overlap (`StopInv`): the only
  join an interrupt can end early is the one in which a UDP thread joins itself.
  Without an update in a stop either, the same holds of the TUN thread and the
  tunnel (`UpdateInv`). If moreover no two stops overlap, what was tested is still so
  when it is used (`FieldInv`). The proof is for any number of threads of each kind
  and of calls at once.
- The mailbox's invariant says who holds the mutex, that the ring lies between the
  counters, and for whom each semaphore's signal is meant: `not_empty` is only
  given to an empty ring, so a sleeping reader's signal must outlast further posts.
- The cache's invariant adds to the four properties that packets wait under their
  own address; a remembered index is harmless because it is compared first.
- `HeldInv` counts the cache's references without counting: each entry's queue is a
  set of packets, the sets are disjoint, their union is `held`, and every queue is
  in the order of handing over. A write gives up the old queue of one entry for
  the new one (`HoldsWrite`); freeing gives up those of several (`HoldsFree`). A frame
  is sent only when its next hop has a stable entry, the only one of that neighbour,
  and nothing waits on a stable entry: hence the order across steps.

What is proved for every instance and mainly serves other proofs (types, and the
inductive invariants `ActivationPending`, `SvcInv`, `RingOK`, `OnlyAnnounced`,
`LifecycleOK`, `ServiceInv` and those of the mailbox and the cache) is not checked
by a run again.

Assumptions on constants: null is not a value, sizes are positive (a mailbox has at
least two slots), the posters are finitely many, packets are IPv4 headers of at
most 60 bytes, routes map addresses to addresses.

Only model-checked:

- All liveness, which the prover cannot do.
- `TcpReceive` and `Tcp`. What arrives, what is sent and what goes up are loops over
  queues (`TakeQueued`, `SendWhatFits`, `Post`), and their properties say what these
  loops compute for every queue.
- What `Walk` computes in `XnetService`, for the same reason, and `NetifNotYetAdded`,
  which is violated.

Every other safety and action property of the runs is a theorem.

## Not modelled

- The HTTP, SOCKS and DNS proxies and the port forwarder copy bytes between
  sockets of the operating system. In `TetherServices` a proxy is its running flag.
- The network store: its behaviour depends on greenDAO's identity map, which is
  not in the repository. The state store and the state files read and write whole
  files for the node.
- Routes and addresses, moons, device discovery, screens, preferences and
  generated entities: conversions and presentation without a protocol.
- The ZeroTier node itself, Android's networks and threads: not in the repository;
  their steps are taken from how the code uses them.
- In TCP: round-trip estimation, keep-alive, simultaneous open, the listener's
  backlog, running out of memory. In the socket layer: datagrams, `select`,
  options, timeouts.
- The rest of lwIP. Nearly all of the repository's C lines are vendored: lwIP, its
  ports and applications, and concurrentqueue. PPP, the HTTP and MQTT applications,
  the ports to other systems and the tests are not reached from this program. The
  modules cover the parts its sockets and taps depend on and that have state worth
  checking, which is a small share of those lines.
