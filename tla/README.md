# Verification of INET's protocols

This directory holds TLA+ models of parts of the simulator under `src/inet`
(a fork of the INET Framework for OMNeT++): TCP, address resolution and the
routing protocols AODV and RIP.  Beside them are the TLC configurations that check them
and the proofs that TLAPS checks.  `PROJECT.json` lists components, runs,
mutants, findings, hazards and theorems in machine readable form, and `map` in
it names the source lines every definition stands for.

Paths below are relative to `src/inet/src` unless they begin with `src/`.

## 1. Inventory

INET is a set of simulation modules.  The kernel is single threaded: it pops
the earliest event (a message at a gate, or a timer the module scheduled for
itself) and runs the module's `handleMessage()` to completion.  Concurrency is
therefore the interleaving of events: segments in flight, timers, commands of
applications and lifecycle operations of nodes, in an order nobody controls.

| Component | State | Operations | Interacts with | Hard behaviour |
|---|---|---|---|---|
| `transport/tcp/TCPConnection*.cc` | state machine, sequence variables, FIN bookkeeping, four timers | OPEN, SEND, CLOSE, ABORT, segment arrival, timeouts | TCP module, flavour, queues, the application | reordering, loss, duplication, simultaneous open and close, deferred CLOSE, retransmission |
| `transport/tcp/flavours/` | congestion window, REXMIT/PERSIST/DELAYED-ACK timers | called back by the connection on ACKs, duplicates, timeouts | the connection | RTO against late ACKs, fast retransmit |
| `transport/tcp/queues/` | send interval, receive regions | enqueue, discard, insert, extract | the connection | wrap-around at 2^32, overlap, ASSERTs |
| `transport/tcp/TCPSACKRexmitQueue.cc`, `TCPConnectionSackUtil.cc` | regions sacked or retransmitted | SACK processing, NextSeg | the connection | overlapping reports |
| `transport/tcp/TCP.cc` | socket pair map, application map, ports, `isOperational` | dispatch, fork, remove, crash, restart | IP, connections, lifecycle | listener forks, stale pairs, port exhaustion, no RST at a crash |
| `transport/contract/TCPSocket.cc` | socket state as the application sees it | listen, connect, send, close, abort, `processMessage` | application, TCP | a second copy of the state, updated by messages |
| `transport/sctp`, `udp`, `rtp` | associations, sockets, media sessions | | IP, applications | as TCP, plus multi-homing |
| `transport/tcp_lwip`, `tcp_nsc` | third-party stacks | | | |
| `networklayer/arp/ARP.cc` | cache of pending and resolved entries, retries | resolve, request, reply, timeout | IPv4, MAC | late replies, retries, node restarts |
| `networklayer/ipv4` | routes, fragment buffers, group states | forward, reassemble, ICMP, IGMPv2 | all protocols | fragments out of order, stale purge, querier election |
| `networklayer/ipv6`, `icmpv6`, `xmipv6` | neighbour cache, bindings | ND, DAD, binding updates | | NUD timers |
| `networklayer/routing/rip`, `ospfv2`, `bgpv4` | route tables, neighbour state machines, LSA database | updates, timers, floods | UDP, IP, TCP | count to infinity, database exchange, retransmission lists |
| `networklayer/routing/aodv`, `dymo`, `gpsr`, `gpcr` | routes with sequence numbers, positions | RREQ/RREP/RERR | IP netfilter hooks | loop freedom, expiry, reboot |
| `networklayer/routing/{Fuzzy,MACARON,CAOD,GRNC}`, `autorouting/GTLQR`, `MPZ_SoR`, `AF_BF`, `icmpv6/MOORA` | link quality metrics | | | floating point |
| `networklayer/manetrouting` | ports of AODV-UU, DSR-UU, OLSR ... | | | |
| `networklayer/mpls`, `rsvp_te`, `ted` | labels, path and reservation state | | | soft state |
| `linklayer/ethernet` | MAC state, address table | transmit, learn, age | | timing of carrier sense |
| `linklayer/ieee80211ac` (STP, RSTP, relay) | port roles and states, best BPDU | BPDU, timers | MAC table | loops while converging |
| `linklayer/ieee80211*`, `ppp`, `wpan` | MAC and management state | | | |
| `applications/dhcp` | leases, client state machine | discover ... release | UDP, ARP, routing table | lost messages, expiry against renewal |
| other `applications/` | traffic generators | | sockets | |
| `base`, `status` (lifecycle) | node and module status | start, shutdown, crash in stages | every module | an operation interrupted by another |
| `mobility`, `world`, `battery`, `util`, `underTest` | | | | geometry, physics, experiments |

What makes each of the central components correct: *TCP* hands over every
octet once, in order and to the same connection, tells the end of the stream
exactly, ends in CLOSED, and never trips over its own ASSERTs; *TCP.cc* keeps
one connection per socket pair and a listener per listening socket; the
*queues* behave like a set of octets; *ARP* answers every resolution or reports
its failure once; *DHCP* leases an address to one client at a time; *RIP* and
*AODV* have no persistent loops; *STP* leaves one loop-free tree; *OSPF*
neighbours that are Full have the same database.

TCP is the protocol most of the other components and all lifecycle tests rest
on, with the longest hand-written state machine of the repository and the most
interleavings.  The project begins there, goes on to the data structures around
it (dispatch, scoreboard, reassembly), and then to protocols of the network layer
whose state is spread over nodes that see each other's messages late: ARP, AODV
and RIP.

## 2. The modules

| Module | Models |
|---|---|
| `TCPConnection.tla` | one connection: `TCPConnection*.cc`, `TCPBaseAlg` with `TCPNoCongestionControl`, the virtual data queues, and the socket record of `TCPSocket` |
| `TCPEndpoints.tla` | two hosts, each with an application, a `TCPSocket` and a connection, over a network that reorders, loses and duplicates, with crashes and restarts (`TCP.cc`) |
| `TCPService.tla` | the abstract specification of the two: a pipe each way |
| `TCPDemux.tla` | the TCP module of one host: socket pairs, ids, ephemeral ports, forked listeners |
| `TCPQueues.tla` | the SACK scoreboard and the reassembly queue, over sequence numbers that wrap |
| `TCPSack.tla` | a Reno sender with SACK, a receiver, the network between them |
| `ARP.tla` | the ARP modules of a LAN with the queues IPv4 keeps for them |
| `ARPQueue.tla` | the abstract specification: what is promised about waiting datagrams |
| `AODVNode.tla` | one AODV router: every handler of `AODVRouting` |
| `AODV.tla` | routers on a wireless medium: messages, timers, links, crashes |
| `RIPRouter.tla` | one RIP router: every handler of `RIPRouting`, with the routing table it works on |
| `RIP.tla` | routers joined by networks: packets, periods, links, crashes |
| `MCTCP`, `MCTCPDemux`, `MCTCPSack`, `MCARP`, `MCAODV`, `MCRIP` | values of constants for TLC |
| `TCPHandlerProofs.tla` | lemmas on the operators of a connection; every command, timer and segment handler keeps the invariant; what it does to the two streams of its connection |
| `TCPEndpointsProofs.tla` | the theorems on the state of each of the two hosts |
| `TCPDeliveryProofs.tla` | the theorems that relate the two hosts and the network |
| `TCPServiceProofs.tla` | the theorems on what the two hosts do together: no failed assertion, the refinement of `TCPService`, the handshake |
| `TCPDemuxProofs.tla` | the theorems on the TCP module |
| `ARPProofs.tla` | the theorems on address resolution and its queues |
| `AODVProofs.tla` | the theorems on AODV |
| `RIPProofs.tla` | the theorems on RIP |

### TCPConnection

A connection is a record `c \in Conn`.  Each C++ handler is an operator from
records to records, composed in the order of the calls in the code:
`ProcessText(ProcessFin(...))` reads the record its predecessor left, and where
the code uses a value saved earlier (`old_snd_una`, `old_snd_nxt`, the state
of the FSM, which changes only at the end) the operator takes it from the
record the handler started with.  Three fields are the handler's results:
`out` (segments passed to `sendToIP`), `event` (the `TCPEventCode` it returns;
a later assignment overwrites an earlier one, as in the code) and `failed` (it
reached a throw or a failed ASSERT).  `PerformStateTransition` and
`StateEntered` follow.

`fsm` to `rcv_fin_seq` are the fields of `TCPStateVariables` of the same names;
`q_begin`, `q_end` are `begin`, `end` of `TCPVirtualDataSendQueue`; `buf` is
what the receive queue holds above `rcv_nxt`; `timers` the scheduled ones;
`app` is the `TCPSocket` and what its application did and was told.

Abstractions, and why they are sound for the properties checked:

* The unit of data is `snd_mss` octets, and applications write whole units.
  Nagle's algorithm and silly windows have nothing to decide then.
* Sequence numbers are naturals.  No run nor window spans 2^31, where
  `seqLess()` stops being the integers' order.
* The receive window never binds: at most `InitialWindow` units are in flight,
  and `Wnd >= 2 * InitialWindow`.  So no zero window, no PERSIST timer.
* Options off by default (SACK, timestamps, window scaling, delayed ACKs,
  limited transmit) are left out.
* SEND in LISTEN is left out: `TCPSocket::send()` refuses it in state
  LISTENING.  The branch of `MAX_SYN_REXMIT_COUNT` is left out: CONN-ESTAB
  (75 s) always strikes first (SYN-REXMIT doubles from 3 s: 3, 9, 21, 45, 93).
* The ISS follows the clock (`selectInitialSeqNum`): an opening after another
  gets an ISS larger by at least `IssStep`.
* A send that would start the REXMIT timer while it runs does not, as in
  `dataSent()`; where the code cancels and schedules, the timer stays in the set.
* After the CLOSED state the connection object is gone; the record keeps only
  what the application and the clock remember (`Removed`).

### TCPEndpoints

| Action | Code |
|---|---|
| `Connect`, `Listen`, `Send`, `Close`, `Abort` | the methods of `TCPSocket`, their guards included, then `TCPConnection::processAppCommand` |
| `SynRexmitTimeout`, `ConnEstabTimeout`, `TwoMSLTimeout`, `RexmitTimeout` | `TCPConnection::processTimer`, `TCPBaseAlg::processTimer` |
| `Deliver` | arrival of a segment, `TCP::handleMessage`, `processTCPSegment` |
| `Duplicate`, `Lose` | the network (outside TCP) |
| `Drop` | arrival while `isOperational` is false |
| `Crash`, `Restart` | `TCP::handleOperationStage`, `TCP::reset` |

Command, handler and indication are one step: application and TCP exchange
messages in zero simulated time.  `net[e]` is the *set* of segments on their
way to `e`, so any order of arrival is possible; equal segments in flight are
merged, which `Duplicate` makes up for.

The guards of `Send` and `Close` are those of `TCPSocket`.  They do not keep an
application from writing or closing after its `close()`, because PEER_CLOSED and
ESTABLISHED overwrite what `close()` noted in the socket.  Applications in
`Careless` do whatever their socket lets them; the others remember their `close()`
(`HeedsClose`).  `TCPSecondClose` has a careless one, and the theorems on one connection
admit them.

A throw or a failed ASSERT ends the simulation: `Running` then disables every
action, so properties other than `NoInternalError` speak of the runs up to there.

`PromptNetwork = TRUE` lets a timer expire only when nothing is in flight (the
usual relation of timeouts and delays in a simulation); `FALSE` lets it expire
whenever it is scheduled.

Two kinds of reset look spurious and are not: a peer that gave up with
TIMED_OUT aborts without a RST, and a listener whose handshake failed is back
in LISTEN and answers with a RST.  `NoSpuriousReset` admits both.

### TCPService

Two applications and a pipe each way: writing, closing, and `Tell`, which
hands over units and announces that the connection is open, that the stream has
ended (after the last unit of a peer that has closed) or that all is over.  One
step may tell several things, as one segment may.  It promises no progress.
The refinement mapping is `Service` at the end of `TCPEndpoints`; a crash starts
another connection and is not part of it (`MaxCrash = 0`, `MaxOpens = 1`).

### TCPDemux

| Action | Code |
|---|---|
| `OpenActive`, `OpenActiveEphemeral`, `OpenPassive` | the first command of a socket: `TCP::handleMessage`, `addSockPair`, `getEphemeralPort`, `process_OPEN_*` |
| `Close`, `Abort` | `process_CLOSE`, `process_ABORT`, `removeConnection` |
| `SynInListen`, `SynForks` | a SYN at a listener that does not fork, or forks (`cloneListeningConnection`, `addForkedConnection`) |
| `SegmentInSynSent`, `SegmentInSynRcvd`, `SegmentEnds` | the segments that change addresses, ids or the set of connections |
| `TimeoutConnEstab`, `Timeout` | the timers that do |
| `Reset`, `Start` | `TCP::reset`, `handleOperationStage` |

`conn` holds the connection objects; `tcpConnMap`, `tcpAppConnMap`,
`usedEphemeralPorts` (a multiset) and `lastEphemeralPort` are the members of
`TCP` of these names.  `FindConnForSegment` tries the four keys in the order of
the code.  `failed` is the error that ends the simulation: an address in use, or
no ephemeral port left.  `sockets` and `servers` are what applications know.

A remote address and its port are one value (they are only ever compared
together).  CONNECTED and CLOSING stand for several states.  Whether a segment's
numbers are acceptable is left open, so that the model allows more than the
code.  A fork takes a free object of `Conns`, and ids are bounded by `MaxId`.  An application
that names a port of the ephemeral range itself is in the instance, since the
code counts it in the same multiset.

### TCPQueues and TCPSack

`TCPQueues` has the two region lists as operators: `EnqueueSentData`,
`DiscardUpTo`, `SetSackedBit`, `ResetBits`, `Forward` and the sums of
`TCPSACKRexmitQueue`; `Merge`, `ExtractUpTo`, `InRange`, `LeftEdge`,
`RightEdge` of `TCPVirtualDataRcvQueue`.  Comparison is that of `TCPSegment.h`
modulo `SeqModulus`.  `SplitAt` stands for the places where the code cuts a
region in two, and one pass over the list for the iterators.

`TCPSack` puts them to use.  `snd` holds the state variables of the sender
under the names of `TCPStateVariables` without their prefixes, `rcv` those of
the receiver, `data` and `acks` what is under way.

| Action | Code |
|---|---|
| `Write` | `process_SEND`, `TCPBaseAlg::sendData` (Nagle), `TCPConnection::sendData` |
| `ReceiveAck` | `processSACKOption`, `processAckInEstabEtc`, `TCPReno::receivedDataAck` and `receivedDuplicateAck`, the recovery of `TCPConnectionSackUtil.cc` |
| `RexmitTimeout` | `processRexmitTimer` of `TCPBaseAlg` and `TCPReno` |
| `ReceiveData` | a data segment in ESTABLISHED: `truncateSegment`, `insertBytesFromSegment`, `extractBytesUpTo`, `addSacks`, `sendAck` |

Segments and acknowledgments under way are sets: any order, loss is what is
never delivered, and equal ones merge.  The window is constant and larger than
the stream, there is no FIN, and whether an idle connection falls back to the
initial window is open at every send.  `InitialWindow` is four segments, what
the formula gives for an MSS up to 1094.  The two loops of the code, over full
segments and over the recovery phase, are folds of as many rounds as there are
octets, which is more than either can take.  `arrived` is a history variable.

### ARP and ARPQueue

`arpCache[h][a]` is the `ARPCacheEntry` of host `h` for address `a`: absent,
pending or resolved, with its retries, whether the retry timer is scheduled,
and whether `cacheTimeout` has passed since `lastUpdate`.  `pendingPackets` is
the member of `IPv4` of this name.  The two modules call each other through
signals in the same event, so one action has both halves.

| Action | Code |
|---|---|
| `SendDatagram` | `IPv4::sendDatagramToOutput`, `ARP::getMACAddressFor`, `startAddressResolution` |
| `RequestTimedOut` | `ARP::requestTimedOut`, `IPv4::arpResolutionTimedOut` |
| `ProcessARPPacket` | `ARP::processARPPacket`, `updateARPCache`, `IPv4::arpResolutionCompleted` |
| `Lose` | the LAN, or arrival while down |
| `Expire` | the passing of `cacheTimeout` |
| `Stop`, `Start` | `ARP::stop`, `IPv4::stop`, `handleOperationStage` |

The MAC address of a host is the host.  `Recognized` gives the addresses it
answers for, more than its own with proxy ARP.  Requests for one address
carry the number of the retry, which no code reads, so that copies on the LAN
at the same time stay apart.

`ARPQueue` promises, for each host and next hop, that datagrams leave in the order
they came and at most once, that one that waits leaves with all before it or is
dropped with all beside it, and nothing about how long that takes.  `Queue` at
the end of `ARP` is the mapping; the three abstract variables are variables of
`ARP`.

### AODVNode and AODV

A node is a record.  Each handler of `AODVRouting` is an operator from records
to records that collects what it sends in `out`, in the manner of
`TCPConnection`: `SendRREQ`, `StartRouteDiscovery`, `HandleWaitForRREP`,
`CompleteRouteDiscovery`, `HandleRREQ`, `HandleRREP`, `HandleRERR`,
`HandleLinkBreak`, `HandleHello`, `HandleRREPACK`, the timers, the hooks
`EnsureRoute` and `ForwardDatagram` with the part of `IPv4` around them, and
`ClearState` and `Restarted`.  `routes` are the entries of the IPv4 routing
table that AODV owns with their `AODVRouteData`; `arrived`, `wait`, `retries`,
`delayed` are `rreqsArrivalTime`, `waitForRREPTimers`, `addressToRreqRetries`
and `targetAddressToDelayedPackets`.  `failed` collects failed ASSERTs.

In `AODV` an action is one event: `Send` (a datagram of an application),
`Receive`, `Miss` (nobody there; the MAC notices if the message was a unicast),
`Lose`, one action per timer, `BreakLink`, `Crash`, `Restart`, and `ForgetRREQ`
and `ExpungeTimeout` for what grows old.

* Lifetimes are left out: what expires may do so at any moment, as often as the
  bounds allow.  `PromptNetwork` makes the timers that wait for an answer
  outlast the travels of messages, as the parameters of the module mean them to;
  `LongLives` makes the lives of routes outlast them.
* Delays at random (the medium's and the jitter of the protocol) are the order
  in which the set `net` is received.
* A broadcast is heard by those in range as it is sent.
* `UseHelloMessages`, `AskGratuitousRREP` are the parameters of `AODVRouting.ned`.
* There is no local repair in the code (`localAddTTL` is never read).

### RIPRouter and RIP

`router[r]` is the `RIPRouting` module of a node with the routing table below
it: `ripRoutes` in the order of the vector, each with the type, route, next hop
(`from`), interface, metric and `changed` flag of `RIPRoute`; `rt`, the routes
of `RoutingTable` (netmask, static and learned).  A route that is not RIP's has
the metric IPv4 gave it (`LinkMetric`, a cost of the data rate, for netmask
routes), and RIP another of its own for it (`Cost`, or 1).  `wire[a]` are the packets on
their way to interface `a`, in order.

| Action | Code |
|---|---|
| `StartUp` | `startupTimer`: `startRIPRouting`, `configureInitialRoutes`, `sendRIPRequest` |
| `Update`, `TriggeredUpdate` | `updateTimer`, `triggeredUpdateTimer`: `processUpdate`, `sendRoutes`, `checkRouteIsExpired` |
| `Receive` | `processRequest`, `processResponse` with `addRoute`, `updateRoute` |
| `InterfaceDown`, `InterfaceUp`, `RefreshRoutes` | the notifications of `receiveChangeNotification`; `RoutingTable::updateNetmaskRoutes` |
| `ShutdownNode`, `Crash`, `NodeStart` | `handleOperationStage`, `stopRIPRouting` |
| `Tick` | time: the next period of `updateInterval` begins |
| `Lose` | the network |

Time is counted in periods.  In each period every router sends its regular update
once, in any order; a route that may expire has an age, the periods since
`lastUpdateTime`.  Packets do not stay on the wire over a period.  A triggered
update comes before the router's next regular one or is not scheduled, as in
`triggerUpdate()`.  A route may so expire up to one period early, which in the
code the order of the timers in a period decides.

`RIP_INFINITE_METRIC` is a constant; destinations stand for networks, a
neighbour's interface is its router and network.  A stray iterator (`astray`) and
a failed ASSERT end the simulation, so what follows a purge of the last route is
not looked at.  A unicast reply needs the route of its network at the sender.

## 3. The runs

| Run | Instance | Checks |
|---|---|---|
| `TCPReboot` | a crash, two openings, one duplicate | `NothingInvented`, `HandshakeAgreement` |
| `TCPEnds` | `FairSpec`; two units and one back, window of two, one loss; B responds | `AckedIsDelivered`, `SegmentsMatchQueue`, `NoSpuriousReset`, `TimeWaitIsComplete`, `BothCloseBothEnd`, `WrittenIsDelivered` |
| `TCPRefines` | two units from A, window of two, timers at any time, one loss, early close and abort; B responds | `TypeOK`, `NoInternalError`, `ImplementsService`, `PeerFinIsAwaited`, `NewAckIsAccepted`, `SocketMatchesState`, `HandshakeIsTimed`, `NothingSentUnqueued`, `NothingIsRetracted` |
| `TCPDemux` | three connection objects, two ephemeral ports, a server port inside the range and one outside, two peers, four ids | `TypeOK`, `MapsAgree`, `PortsAreCounted`, `SocketsAreServed` |
| `TCPSack` | seven octets written as 1 and 7 in segments of 2, one timeout, the wrap after four octets | `TypeOK`, `StreamIsExact`, `ScoreboardIsTrue`, `ScoreboardIsWhole` |
| `ARPResolve` | `FairSpec`; two hosts, one also a proxy, three flows, an unused address, two tries, one fault | `TypeOK`, `QueuesAreAwaited`, `CacheIsTrue`, `ImplementsQueue`, `QueuesDrain` |
| `AODVFaults` | `FairSpec`; a line of three, one flow along it, gratuitous replies, hello messages, rate limits of two; up to four of: a broken link, a loss, an expiry, a forgotten request, a crash, a counter reset, a hello | `TypeOK`, `NotCopied`, `LoopFree`, `DatagramsArrive` |
| `RIPFaults` | `FairSpec`; three routers on a LAN, one with a stub network that speaks no RIP, one without poison; up to two of: a loss, an interface down, up, a crash, a shutdown, a start, netmask routes made anew | `TypeOK`, `TablesAgree`, `NoCountingToInfinity`, `Converges` |
| `TCPSecondClose`, `TCPSackAssert`, `AODVLoop`, `RIPWholeTable` | see Findings | one property each, violated |

Most of the safety properties here, and `ImplementsQueue`, are also proved for every instance;
section 4 says which, and under which hypotheses.  The runs found them first, and keep showing
that the states they speak of occur.

In the TCP instances "closers" close at any time, "responders" only on
PEER_CLOSED, as `TCPAppBase` does.

Why these bounds.

*TCP endpoints.*  The hazards need one disturbance at the right moment, and a
second only to meet its repair.  Two units in flight (`TCPEnds`,
`TCPRefines`) are the least that can be reordered against each other and the
FIN; the sequence variables then take all their relative positions.
In `TCPRefines` timers expire at any time, so that a segment
is retransmitted while its first copy is still on its way, which is both a
duplicate and a delay, and one segment is lost besides.  `MaxRexmitCount = 1` reaches giving up after one
retransmission.  Two that close at the same time (CLOSING) would need one run more; the theorems of section 4 include
them.  Two openings and one crash bring old and new incarnations
together; `IssStep = 8` exceeds the units any connection sends.

*Demux.*  A forking listener, the connection it forked and a third one that
competes for a pair or a port need three objects.  Two ephemeral ports make the search
wrap and run dry.  Connections and peers are symmetric.

*SACK.*  Octets smaller than a segment, and a first write of one, put the
boundaries of segments and blocks at different places.  `DupThresh` is 3 in the
code; here it is 2, so that four segments are enough to enter recovery and have one
more loss inside it.  All branches of recovery are reached.
`TCPSackAssert` uses 3.  `SeqModulus = 32` leaves
room for the window on both sides of every comparison, as 2^32 does.

*ARP.*  Two datagrams of one flow show order, a second flow an answer by what is
picked up from requests, the unused address a resolution that fails, and one
fault a stale entry or a restart in the middle of it.

*AODV.*  Three nodes in a line have an intermediate node that forwards,
replies from its table and forwards errors.  The loop of `AODVLoop` needs a fourth.
A crash resets sequence numbers while older ones are under way; one is enough,
since a second starts from the same state.  Four events out of seven let
every fault meet every other, in any order.

*RIP.*  Infinity is 4 instead of 16: the longest way is 2 and counting needs one
step more before it ends.  A route expires after 2 periods and is purged after 1
more (6 and 4 in the code), so that a loss, a restart or a returning link
meets it fresh, expired and purged.  On the LAN every router hears the others, and what
one forgets another may still offer.  Two events give every fault with its repair (down and up,
crash and start) and every pair of faults.  `RIPWholeTable` has a second stub network and a
static route, so that a purge has a route behind it.

Some passing properties hold only in the instance they are checked in:

* `AckedIsDelivered` and `TimeWaitIsComplete` are about hosts that open once (`First` in
  section 4).  TLC finds the former violated in the instance of `TCPReboot`, by a crash and a duplicate,
  and without a crash when an end may abort and open again: an old SYN opens a connection that
  the other end takes for its own.
* `NoInternalError` is checked where a listener does not close before the connection is up, `WrittenIsDelivered` with
  an opening from one side, `NewAckIsAccepted` with data one way,
  `PeerFinIsAwaited` where the peer closes only in response.  Outside, the code breaks each of them: see
  `TCPEarlyClose`, `TCPCrossedSyns`, `TCPLateAck` and `TCPDeferredClose` under Outside the runs.
* `SocketRefusesFirst` has no passing run: where applications rely on the socket, `TCPSecondClose` violates it.  What is
  true of them is `CommandsAreLegal`, that a throw comes only after the application's own `close()`; it is proved.
* `NoFailedAssert` of AODV is in no run.  On the line of `AODVFaults`, with one flow, the ASSERTs have
  no way to fail; which of them can on any network, and after what, is proved in section 4, and `AODVAssert` (Outside the
  runs) shows it happen.
* `NoSpuriousReset` is about a network that delivers before a timer strikes (`PromptNetwork`).
  With timers at any time TLC refutes it, with one connection each: A's SYN is
  retransmitted, CONN-ESTAB sends B back from SYN_RCVD to LISTEN, and the second SYN opens a second
  handshake with another ISS; A, up by the first SYN+ACK, sends data that B answers with a RST.
* `TCPSack` does not check `NoFailedAssert`, which `TCPSackAssert` violates;
  `ScoreboardIsWhole` is about the runs up to there.
* `LoopFree` passes with one flow on the line of `AODVFaults`; `AODVLoop` violates it on a
  triangle with a tail, without any fault, and with two flows to one end of the line a
  crash, after which a node counts from 0 again, and an expired route are enough.
* `NoCountingToInfinity` is about networks with one way to each destination, as the
  two instances are; with a cycle RIP counts, and `RIPRouting.ned` says so.
* `Converges` stops at a stray iterator, but after a single fault that is no loss
  (`OneFault`) the routers have converged before that.

### Fairness

In the `FairSpec`s what is fair is what the kernel or the medium does by
itself: the kernel pops every event it has scheduled.  Applications, faults,
crashes and restarts owe nothing.  All fairness is weak.

* TCP: a segment in flight keeps being delivered and a scheduled timer expires.
  Beside each fair action stands the step `Never` under the same guard
  (`Expiring`, `Arriving`), which no step of the system is: the formula means
  the same, and TLC finds ENABLED from the guard instead of running the handler.
  The number of losses is bounded, as any retransmitting protocol needs.
* ARP: a retry timer that stays scheduled expires.  The LAN is not asked to
  deliver anything.
* AODV: the medium gets rid of what is under way, and the timers of route
  discovery expire.  `DatagramsArrive` excuses a datagram once anything was lost,
  broke, expired or crashed.

* RIP: while any router is not off, the kernel goes on to some next event; which one, and so
  the order of timers and packets in a period, is left open.  `Busy` is the guard under
  which there is one, and the steps that are not faults are those that leave `used` alone.

### Findings

Four runs end in a violation.  Each shows that the code does something else
than a comment, a message or an assertion of the repository says.

| Run | What happens | What is said |
|---|---|---|
| `TCPSackAssert` | after a timeout `sendSegment()` moves `snd_nxt` over sacked octets, the loop of `sendData()` (`TCPConnectionUtil.cc:755`) does not notice and asks for an empty segment | `TCPSACKRexmitQueue.cc:97` |
| `TCPSecondClose` | A closes with data still to send, B closes, and PEER_CLOSED overwrites LOCALLY_CLOSED in the socket of A (`TCPSocket.cc:291`); once the data is out (LAST_ACK), a second `close()` of A passes the guard of the socket and the connection throws (`TCPConnectionEventProc.cc:222`) | `TCPSocket.cc:189`, "close() already called" |
| `AODVLoop` | requests of two originators with one id are taken for duplicates; a late reply then makes two neighbours route to each other | `AODVRouting.h:111` |
| `RIPWholeTable` | the update in which a route is purged (`purgeRoute()` erases the element under the iterator) skips the next route; if it was the last, the iterator runs past the end | `RIPRouting.cc:652` |

### Outside the runs

Some configurations stand beside the runs of `PROJECT.json`: they reproduce what the bounds of the passing runs leave out.
`tlc -config TCPLateAck.cfg MCTCP`, and so on, finds a violation within seconds (`AODVAssert`, of `MCAODV`, in a minute).

| Configuration | Violates | What happens | What is said |
|---|---|---|---|
| `TCPDeferredClose` | `PeerFinIsAwaited` | both close, A with data to send: B's FIN and the ACK that lets A's own FIN go come in one segment, and the deferred CLOSE overwrites RCV_FIN (`TCPConnectionRcvSegment.cc:754`): A is in FIN_WAIT_1, and will be in FIN_WAIT_2, waiting for a FIN it has taken | `TCPConnection.h:47` |
| `TCPEarlyClose` | `NoInternalError` | a listening socket is closed in SYN_RCVD: the FIN goes behind a SYN that is not acknowledged, and its retransmission asks for data before the beginning of the queue | `TCPVirtualDataSendQueue.cc:68` |
| `TCPLateAck` | `NewAckIsAccepted` | after a timeout an ACK of everything is refused, being below the window and above the `snd_nxt` that was moved back; `afterRto`, which is there for this, is not set by `TCPNoCongestionControl` | `TCPConnectionUtil.cc:458` |
| `TCPCrossedSyns` | `WrittenIsDelivered` | two SYNs cross, B writes in SYN_RCVD, a pure ACK completes the handshake: nothing sends what B has queued | `TCPConnectionEventProc.cc:136`, "Queueing up data for sending later" |
| `AODVAssert` | `NoFailedAssert` | B's route to E by C expires, and `expungeRoutes()` deletes the entry of C first; each datagram of A that B cannot forward makes B count E's number up; a reply of E with this number comes by D, is no better than what B has, and is forwarded all the same: the next hop of the route has no entry | `AODVRouting.cc:669` (the ASSERT), `:623` |

`TCPCareless.cfg` passes: three units from A and one from B, both close, early too, and both write and close as long as their
socket lets them, so that a command comes in every state; `CommandsAreLegal` holds, as `CommandsAccepted` proves, although
commands are refused with a throw.

### Met while modelling

TCP connection:

* `send()` after `close()` and PEER_CLOSED passes the socket as the second `close()` of
  `TCPSecondClose` does; in CLOSE_WAIT the data is queued behind the FIN that waits, and what follows the FIN
  is sent one number further up;
* two ends in TIME_WAIT acknowledge each other's ACKs for ever
  (`TCPConnectionRcvSegment.cc:429`);
* the FIN-WAIT-2 timer is created and cancelled but never scheduled
  (`TCPConnectionBase.cc:216`), though `TCP.ned:134` lists it: an end whose peer
  never closes stays in FIN_WAIT_2;
* `TCPBaseAlg::established()` (`TCPBaseAlg.cc:193`) sets the congestion window
  that `TCPNoCongestionControl.cc:32` calls "practically infinite" to the
  initial window;
* when two SYNs cross, the SYN+ACK that arrives in SYN_RCVD counts as an
  unexpected SYN (`TCPConnectionRcvSegment.cc:283`) and ends in
  CONNECTION_RESET, where `src/inet/tests/module/tcp_syn_2.test.off:3` expects
  ESTABLISHED.

TCP module (`TCPDemux` has all of these states):

* a forked connection that is refused goes back to LISTEN with its full socket
  pair and an id no application knows (`TCPConnectionRcvSegment.cc:1168`, a FIXME); a
  SYN of that peer makes it fork again, which ends in "address already in use"
  or in a second listener;
* a listener that does not fork and is refused answers only that peer afterwards;
* once `updateSockPair()` has changed a key, a second open of the same port is
  not refused by the check of `addSockPair()` (`TCP.cc:387`);
* a command for an unknown id creates a connection before it throws.

Scoreboard: `init()` does not clear the list; 0 means "none" for
`recoveryPoint`, which is also a sequence number; a test for `t == 1` in
`addSacks()` never holds, since `t` goes up in steps of two; `cloneListeningConnection()` gives
the rexmit queue to the wrong connection; recovery sends above `snd_max` and
leaves it to the next call to raise it.

AODV:

* `sendRREP()` asks for an acknowledgment when the originator is one hop away,
  and the originator, which is not forwarding, never sends one: every
  neighbour that asks for a route is blacklisted after the reply;
* at its retry limit `handleWaitForRREP()` leaves the entry of
  `waitForRREPTimers`, and no later datagram starts a discovery; the same
  holds for a retry that the rate limit suppresses;
* the TTL that `startRouteDiscovery()` computes for an inactive route has no effect;
* datagrams are forwarded along inactive routes, after a RERR about them;
* nodes count other nodes' sequence numbers up after an expiry, and keep them when their
  owner has restarted from 0;
* `clearState()` cancels the timer that empties the blacklist and keeps the
  blacklist;
* `handleMessage()` of a node that is down deletes the message and then goes on
  to handle it (`AODVRouting.cc:107`, no return); IPv4 below is down as well and
  hands it nothing, so that the models have no such step.

RIP:

* an expired route is never sent with metric 16: `checkRouteIsExpired()` returns NULL for it
  until it is purged (`RIPRouting.cc:1019`), and meanwhile each look triggers another update
  without it, against "so the neighbors are notified" (`RIPRouting.cc:1027`);
* when an interface goes down `invalidateRoute()` deletes the netmask route, which is
  not RIP's, and nothing restores it when the interface is back: the network stays
  unreachable until netmask routes are made anew;
* `updateRoute()` may replace a route of type INTERFACE (an interface metric of 3 or more
  and a better neighbour) without changing the type, so that the learned
  route never expires, against "only for RTE routes" (`RIPRouting.h:52`);
* a shutdown sends responses on all interfaces, those of mode NoRIP included
  (`RIPRouting.cc:423`, against `RIPRouting.ned:57`);
* after an interface route has become a learned one, `importRoute()` of the netmask route
  made anew gives a destination two entries, of which `findRoute()` sees the first;
* `handleMessage()` of a node that is down goes on as in AODV.

ARP: when a host changes its address only the table of the globalARP mode is told;
the caches of the others stay wrong up to `cacheTimeout`.

## 4. The proofs

Every theorem holds for *all* values of the constants that the assumptions named in the
modules allow: any number of hosts on a LAN, routers, connections or addresses (TCP's two ends are two), any bound on losses, duplicates,
crashes and timeouts, any quota and window.  The further hypotheses of a theorem are named below.

### One connection (`TCPHandlerProofs`, `TCPEndpointsProofs`)

| Theorem | States | Depends on |
|---|---|---|
| `Inductive` | `Spec => []IInv` | nothing further |
| `TypeCorrect` | `Spec => []TypeOK` | |
| `CommandsAccepted` | `Spec => CommandsAreLegal` | nothing further: whoever is careless |
| `SocketAgrees` | `Spec => []SocketMatchesState` | |
| `HandshakeTimedAlways` | `Spec => []HandshakeIsTimed` | |
| `SendQueueRespected` | `Spec => []NothingSentUnqueued` | |
| `NothingRetracted` | `Spec => NothingIsRetracted` | |

The inductive invariant is `IInv == TypeOK /\ \A e \in Ends : ConnInv(conn[e])`.
`ConnInv` joins what the four state properties say of one connection with what
they need of each other.  None is inductive alone.  That a command is accepted, before `close()`,
needs the socket to match the state; that needs to know
which states the pending event leads to and that a FIN is queued only behind a
`close()`; the SYN-REXMIT handler is harmless because the timer runs only in
embryonic states; and the order of the sequence variables needs all of these to
exclude, for instance, a retransmission in LISTEN.

The argument is independent of the network: it holds whatever segments arrive,
since a handler is only known to get some `s \in Segment`.  Its steps:

1. sending (`SendSegments`, `SendData`, `RetransmitOneSegment`, ...) changes
   nothing the invariant relates except `snd_nxt`, `snd_max` within the queue;
2. a record between handler and state machine is `Ready`: it satisfies the
   invariant up to the transition its event stands for;
3. `TransitionInv`: from `Ready`, `PerformStateTransition` gives `ConnInv`;
4. one lemma per handler, from `ConnInv` to `Ready`; `SegmentHandled` joins
   those for segments;
5. `HandleStep` and `NextInv` lift this to actions; every disjunct of `Next` is
   a case.

`NothingRetracted` follows in the same way, with `Keeps` in
the place of `ConnInv`.

### Two hosts and the network (`TCPHandlerProofs`, `TCPDeliveryProofs`)

| Theorem | States | Hypotheses |
|---|---|---|
| `StreamsFlow` | `Spec => []DInv` | `ClockOutruns`, `AllHeed` |
| `WireMatchesQueue` | `Spec => []SegmentsMatchQueue` | `ClockOutruns`, `AllHeed` |
| `NothingMadeUp` | `Spec => []NothingInvented` | `ClockOutruns`, `AllHeed` |
| `AckedIsReceived` | `Spec => []AckedIsDelivered` | `ClockOutruns`, `AllHeed`, `First` |
| `TimeWaitAfterAll` | `Spec => []TimeWaitIsComplete` | `ClockOutruns`, `AllHeed`, `First` |

* `ClockOutruns == \A e \in Ends : Quota[e] + 3 <= IssStep`: between two openings of a host the
  clock behind the ISS advances by more than a stream, its SYN and its FIN take up.  This is
  RFC 793's assumption on the ISS, which `selectInitialSeqNum()` relies on (2^32 numbers every 4.77 hours, or 250,000 per
  second); without it old segments are indistinguishable from new ones.  Every configuration satisfies it.
* `AllHeed == Careless = {}`: applications do not write or close after their `close()`.  It is needed: what is written then lies
  behind a FIN that has its number already, and the stream the peer gets is not the one that was written.
* `First == MaxOpens <= 1 /\ MaxCrash = 0`.  It is needed: TLC refutes `AckedIsDelivered` without it
  (section 3).  What holds in spite of crashes and reopenings is that nothing is invented and nothing on
  the wire contradicts the queue.

The inductive invariant is `DInv == IInv /\ Flow /\ (First => Acks)`.  For each end, `Flow` says of
its sending half (`Speaks`) that the queue ends where the application stopped writing, that a FIN
stands behind it, and that what it is about to send is `Own`; of its receiving half (`Listens`) how the numbers
it expects stand to the stream of the peer that is present, or that they belong to one that is past; and of every
segment on the way that it belongs to the present stream or ends below it.  `Acks` adds that an
acknowledgment on the way is for no more than its sender has received, which old connections break.

A stream is described by where it begins, where it ends and whether it may still
grow (`h`), so that a handler can be studied with the peer out of sight: `Passes` says that from
a connection that fits its own stream and `h`, and a segment that belongs to `h`, each handler leaves one that
fits.  Streams of the past lie below the ISS of the present one by `ClockOutruns`, so that an
old segment fails the window test or is accepted by a connection of its own time.

### The service (`TCPServiceProofs`)

| Theorem | States | Hypotheses |
|---|---|---|
| `ServiceHolds` | `Spec => []SInv` | `ClockOutruns`, `AllHeed`, `LateClose` |
| `HandlersDoNotThrow` | `Spec => []NoInternalError` | `ClockOutruns`, `AllHeed`, `LateClose`, `First` |
| `HandlersImplementPipe` | `Spec => ImplementsService` | `ClockOutruns`, `AllHeed`, `LateClose`, `First` |
| `SameHandshake` | `Spec => []HandshakeAgreement` | `ClockOutruns`, `AllHeed`, `LateClose`, `OneSided(a)` for an end `a` |

* `LateClose` says that nobody closes in SYN_RCVD: applications wait for the connection to be up, or an
  end that closes early does not listen and the ends do not both connect.  Without it the ASSERT of the send queue
  fails (`TCPEarlyClose`).
* `First` is needed for `NoInternalError` because an old FIN or acknowledgment, taken for one of the present
  connection, breaks the relations that the ASSERTs state, and for the pipe because a service that is opened twice
  is two pipes.
* `OneSided(a) == Active \subseteq {a} /\ Passive \subseteq {Peer(a)}`: one end connects and the other
  listens.  Two that both connect, one of them twice, need not agree.

Each passing run that checks one of these properties satisfies its hypotheses.

The inductive invariant is `SInv == DInv /\ (\A e \in Ends : Steady(conn[e]) /\ Roles(e)) /\
(First => \A e \in Ends : Sound(conn[e]) /\ Clean(e))`.  `Steady` says what a state tells of the
application and the ISS (told of the connection once, nothing but the SYN acknowledged before).  `Roles` says
who can have opened how, and so which SYNs can meet which state, and that no segment under way acknowledges a bare ISS.
`Sound` is what the ASSERTs of the code rest on: none has failed; once synchronized the SYN is acknowledged, the queue begins
at or below `snd_una`, the FIN is the one number that `snd_max` may have beyond the queue (`Orderly`), REXMIT runs only
while something is unacknowledged (`Timed`) and 2MSL only in TIME_WAIT.  `Clean` says that data and FINs come from a
connection that is past its handshake, and that an application which was told of the end of the peer's stream has all of it.

A handler that runs on `c` with a segment `s` leaves a record in the relation `Serves` (`Ran` after the
transition): the application is told what it was told before, that the connection is up exactly when the
handshake ends, and data only from then on (`Tidings`); the ISS and IRS change as a handshake allows (`Hands`); text is sent
when the connection is up (`Speech`); `Sound` is kept.  From there the refinement goes step by step: `send()` is
`Write`, `close()` is `Shut`, `abort()`, a timer or a segment is `Tell` or nothing (`Reacts`), the rest is nothing.

The handshake needs more than `SInv`: `Agree(a)` (`Shaken` of the two ends) says that a SYN+ACK which carries the present ISS of
the listener names the SYN that the listener has taken, that an end which has taken it has taken the one that
answers its own, and that whatever tells the listener of an acknowledgment comes from an end that has taken
it.  It is inductive because a new ISS lies above everything under way (`ClockOutruns`), so that what an old handshake
left behind names nothing of the present one.

### TCP module (`TCPDemuxProofs`)

`TypeCorrect`, `MapsAlwaysAgree` (`MapsAgree`), `PortsAlwaysCounted` (`PortsAreCounted`),
`SocketsAlwaysServed` (`SocketsAreServed`), with the inductive invariant
`Inv == TypeOK /\ MapsAgree /\ Fresh /\ IsFiniteSet(Live) /\ PortsAreCounted /\ SocketsAreServed`.
`Fresh` makes a new id new.  The heart is `FindsMostSpecific`: `updateSockPair()` and
`addForkedConnection()` write to the map without looking, and overwrite nothing because the connection
found for a segment has the full pair as its key or else nobody has it: the search
tries that pair first.  Every action is one of five changes of the set of connections (`Added`, `Changed`,
`Forked`, `Removed`, `Kept`), each of which keeps `Inv`.  That a port is counted as often
as connections have it is an argument about cardinalities, for which the set of live connections
must be finite though `Conns` need not be.

### ARP (`ARPProofs`)

`TypeCorrect`, `WaitingIsAwaited` (`QueuesAreAwaited`), `CachesAreTrue` (`CacheIsTrue`) and
`ResolutionImplementsQueue` (`ImplementsQueue`).  `TypeOK /\ QueuesAreAwaited` is inductive: a
datagram can only be queued behind a pending entry, and what ends the entry ends the queue.  `TypeOK /\ CacheIsTrue`
is inductive because it speaks of packets too.  The refinement goes step by step: sending is
`Pass` or `Hold`, a timeout `Drop` or nothing, a packet `Release` or nothing, a stop
`DropAll`.  `Pass` needs the first invariant: where an address is resolved nothing waits,
so that what is sent at once overtakes nothing.

### AODV (`AODVProofs`)

`TypeCorrect` (`TypeOK`), `NeverCopied` (`NotCopied`), `OneAssertCanFail` (`OneAssertOpen`) and
`OnlyExpiryOpensIt`.  The inductive invariant of the first two is
`AInv == TypeOK /\ Ready /\ Placed`.  `Ready` says of each node what its handlers need for the types: an entry of
the routing table leads over a node, a discovery under way has had a ring, somebody is expected
to acknowledge while the RREP-ACK timer runs.  `Placed` says that the places a datagram can be in
(held back at a node, under way, delivered) are apart and that each such datagram was sent:
without the second a datagram could be there before it is sent.

Each operator of `AODVNode` is gone through once: most have nothing to do with
datagrams (`Kept`); the others hold back or send on, once, what they had or were given
(`Carries`).  The delicate one is `CompleteRouteDiscovery`, which reinjects what was held back and must
remove it from the multimap, while sending may hold it back again.

Of the ASSERTs one can fail in general.  `OneAssertCanFail` says that it is the only one:
every state has `OneAssertOpen`, with `Sane == AInv /\ Rightly /\ OneAssertOpen`.  `Rightly` relates what nodes know to what
they say: an entry of one hop is a neighbour's (`Direct`), a request or reply that has made no hop comes
from its originator or destination, an acknowledgment is asked of the originator alone, and so nobody
ever sends one (`Honest`).  Each operator is gone through for the relation `Upright`.

The remaining one, on the entry of the next hop, holds while every route has such an entry (`HopsAreKnown`).
`OnlyExpiryOpensIt` says what can end that, without assuming anything about lifetimes:
`Spec => HopsAreKnown /\ [][HopsAreKnown /\ Running => Running' /\ (HopsAreKnown' \/ \E n, dest : Deletes(n, dest))]_vars`.
It is true at first; while it is true no step fails an ASSERT; and of all steps only one
can end it, that in which `expungeRoutes()` deletes an expired entry (`Deletes`).  That this step does, and that the ASSERT
then fails, is `AODVAssert`: every use of a route extends the lifetime of its next hop with it
(`AODVRouting.cc:181`), but a reply gives the route its own lifetime and the next hop `activeRouteTimeout`.

### RIP (`RIPProofs`)

| Theorem | States | Hypotheses |
|---|---|---|
| `TypeCorrect` | `Spec => []TypeOK` | |
| `TablesAlwaysAgree` | `Spec => []TablesAgree` | `LevelCosts` |
| `UpdateAssertsHold` | `Spec => [](\A r \in Router : ~router[r].failed)` | `LevelCosts` |
| `NoCounting` | `Spec => []NoCountingToInfinity` | `OneWay(W)` for a set `W` of ways |

They hold for every net, cyclic ones included as far as the hypotheses do, every mixture of modes, metric
of infinity, set of static routes and number of faults.

* `LevelCosts`: the metrics of the interfaces of a router differ by one at most, as they do by default, where all
  are 1.  It is sufficient, and something of the kind is needed: a router with an interface of metric 3 that
  hears of its network over another of metric 1 from a neighbour of metric 1 takes the word of the neighbour
  (section 3, "Met while modelling"), the entry keeps its type INTERFACE, and when
  netmask routes are made anew the two tables part.  TLC finds this with two routers on two networks in five steps.
  `TablesAgree` speaks of the metric only of routes that RIP made: for netmask and static routes IPv4 has its own.
* `OneWay(W)`: `W` holds whatever routers can come to believe (`Learnable`: what each is configured with, and what
  each may be told by a neighbour that does not hide it, below infinity), and every way in it has the length of the
  shortest.  That is a property of the net and its configuration alone, in which nothing happens over time: trees of networks
  and LANs with split horizon have it.  With NoSplitHorizon on one LAN of three routers, or round a
  cycle, the ways offered back are in `W` and longer, and there RIP does count.  `MCRIP` computes the least such set, and TLC
  evaluates `OneWay` of it in both runs of RIP as the assumption `OneWayInInstance`.

The inductive invariant is `IInv(W) == Idles(W) /\ Carries(W, wire, Ons) /\ Counts`.  `Idles` says of a router
between two events that nothing is left to send, that no ASSERT has failed, that a router that is off has nothing, and that the tables of one
that is on are `Right`: with level costs they agree (`Agreed`), where there is one way every entry is invalid or a way in `W`
(`Known`).  `Carries` says of packets that each entry is infinite or a way of its sender that is not
hidden on that interface: without this a late packet could say anything.  `Agreed` is stronger than `TablesAgree`: it needs
that an entry of type INTERFACE is that of its own network at its own metric, since `findRoute(ie)` trusts this
when netmask routes come back, and that no two entries have one destination, interface and source.

The loops over the vector are `Through`, a fold whose round is an operator.  Its value is a chosen recursive function; `LoopRuns`
and `LoopUnrolls` show, from the well-founded order of the natural numbers, that there is such a function and that its values follow
from one another, so that what one round keeps (`InvalidateRouteWell`, `SendRouteWell`, `ProcessEntryWell`, ...) the loop keeps.
This is done once for each loop, as a lemma cannot take the round as a parameter.  Every
handler then keeps `Well`, what is true of a running router with packets still to send; `RunKeeps` and `TransmittedIs` put
them on the wire.  What the loops compute (`InvalidateRoutesIs`) is needed in one place, when
a route is deleted: all entries that lead over it, and no others, are invalid afterwards.

### Assumptions on constants

`ConnectionAssumption`, `EndpointsAssumption`, `DemuxAssumption`, `LanAssumption`,
`NodeAssumption` with `NetworkAssumption`, and `RouterAssumption` state the kinds of the constants, that values which mean "none" are none of the
things they are told from, and what the code's parameters guarantee (an ephemeral range that is not empty, a host
that answers for its own address).  TLC evaluates them in every run.

### Only model-checked

* `NoSpuriousReset`, `PeerFinIsAwaited`, `NewAckIsAccepted`: all three are false in general
  (section 3).
* `TCPSack`: the regions are sequences and the handlers folds over them; what a fold computes for every
  input takes induction over data, whose theorems have an operator as a parameter that none of the provers
  can instantiate.  The way round this in `RIPProofs`, one unrolling per loop, was not taken here: the scoreboard
  has a dozen loops and its octets wrap.
* RIP beyond `LevelCosts` and `OneWay`, where `TablesAgree` and `NoCountingToInfinity` are false in general; `WholeTableIsSent`,
  which the code does not have (`RIPWholeTable`).
* AODV's `LoopFree` and `NoFailedAssert`: they are false in general (`AODVLoop`, `AODVAssert`).
* `SocketRefusesFirst`, which the code does not have (`TCPSecondClose`).
* Everything about progress (`BothCloseBothEnd`, `WrittenIsDelivered`, `QueuesDrain`, `DatagramsArrive`,
  `Converges`): TLAPS has no rule for ENABLED and fairness here.

## 5. Plan

Done: `TCPDemux`; the queues, the scoreboard and Reno with SACK; `ARP` with
its abstract queue; `AODV` with crashes, link breaks and errors; `RIP` with
expiry, purge, flaps and restarts.  Proved: section 4.

Models next: `STP` with the address
table of the switch, IGMPv2 hosts and routers, the database exchange of two OSPF
neighbours, the lifecycle controller, IPv4 fragments; Tahoe and NewReno
in place of Reno in `TCPSack`; the zero window and PERSIST (whose bounds
`TCPBaseAlg.cc:325` writes to `rexmit_timeout`).

## 6. Not modelled

The notes in `PROJECT.json` name what is left out of each component.  In short:

* The repository is a simulator of some hundred protocols, 340,000 lines.  The models
  take the ones with the most state shared over time and events and
  leave whole protocols aside (SCTP, OSPF, BGP, IPv6 and its mobility, RSVP-TE,
  802.11, 802.15.4): not out of reach in principle, only not reached.
* Third-party code (lwIP, NSC, the MANET ports), traffic generators, and
  packet formats have no protocol state of their own or are maintained elsewhere.
* Physics, mobility and the routing metrics of this fork (Fuzzy, MACARON, CAOD, GRNC,
  GTLQR, MPZ_SoR, AF_BF, MOORA) are decisions on floating point numbers.
* Automata on exact delays (half duplex Ethernet, 802.11 DCF) are beyond what TLC
  does well.
* DHCP: in this fork the client sends a message without a type and the server
  answers DISCOVER alone, so that no lease is ever given and there is no protocol left to
  check.
* Within the modelled components: header options other than SACK, the zero
  window, Nagle's algorithm in `TCPConnection`, the commands STATUS and QUEUE_BYTES_LIMIT;
  globalARP and changes of address; lifetimes as numbers in AODV; RIPng (its check of
  responses refuses them all), interfaces created or deleted while RIP runs, and cycles of networks,
  whose state space is too large.

## Running

    tlc -workers 2 -config TCPEnds.cfg MCTCP
    tlc -workers 2 -config AODVFaults.cfg MCAODV
    tlc -workers 2 -config RIPFaults.cfg MCRIP
    tlapm TCPEndpointsProofs.tla
    tlapm TCPDeliveryProofs.tla
    tlapm TCPServiceProofs.tla
    tlapm AODVProofs.tla
    tlapm RIPProofs.tla
