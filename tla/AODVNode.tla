------------------------------ MODULE AODVNode ------------------------------
(***************************************************************************)
(* One AODV router of src/inet/src/networklayer/routing/aodv, as operators *)
(* on a node record: every handler of AODVRouting is an operator from node *)
(* records to node records that collects what it sends in the field "out", *)
(* empty between handlers.  AODV.tla joins the nodes by a wireless medium. *)
(*                                                                         *)
(* Data.  An address is a node.  A route is the entry of the IPv4 routing  *)
(* table whose source is this module, with its AODVRouteData; a node has   *)
(* no other routes, and one per destination, so the longest prefix match   *)
(* is the entry itself.  Lifetimes are left out: a timer that is running   *)
(* may expire, AODV.tla says when.  The IP datagrams a node holds back are *)
(* numbered.                                                               *)
(***************************************************************************)
EXTENDS Integers, FiniteSets

CONSTANTS
  Node,
  NET_DIAMETER, TTL_START, TTL_INCREMENT, TTL_THRESHOLD,
  RREQ_RETRIES, RREQ_RATELIMIT, RERR_RATELIMIT,
  AskGratuitousRREP,      \* askGratuitousRREP
  Nobody, Everybody       \* the unspecified address and the broadcast address

ASSUME NodeAssumption ==
  /\ Nobody \notin Node /\ Everybody \notin Node /\ Nobody # Everybody
  /\ NET_DIAMETER \in Nat \ {0} /\ TTL_START \in Nat \ {0}
  /\ TTL_INCREMENT \in Nat /\ TTL_THRESHOLD \in Nat
  /\ RREQ_RETRIES \in Nat /\ RREQ_RATELIMIT \in Nat /\ RERR_RATELIMIT \in Nat
  /\ AskGratuitousRREP \in BOOLEAN

-----------------------------------------------------------------------------
(* Messages, routes and the node record *)

Higher(i, j) == IF i >= j THEN i ELSE j

Datagram == [src : Node, dst : Node, num : Nat, ttl : Nat]
RREQ == [type : {"RREQ"}, ttl : Nat, id : Nat, orig : Node, origSeq : Nat,
         dest : Node, destSeq : Nat, unknown : BOOLEAN, hops : Nat]
RREP == [type : {"RREP"}, dest : Node, destSeq : Nat, orig : Node, origSeq : Nat,
         hops : Nat, ack : BOOLEAN]
HELLO == [type : {"HELLO"}, dest : Node, destSeq : Nat]
\* An address listed twice in a RERR has the later of its two numbers; 0 where it is not listed
RERR == [type : {"RERR"}, lost : SUBSET Node, seqs : [Node -> Nat]]
RREPACK == [type : {"RREPACK"}]
DATA == [type : {"DATA"}, data : Datagram]
Message == RREQ \cup RREP \cup HELLO \cup RERR \cup RREPACK \cup DATA

\* destSeqNum keeps its number when hasValidDestNum is FALSE
Route == [state : {"none", "active", "inactive"}, nextHop : Node \cup {Nobody}, hopCount : Nat,
          validDestNum : BOOLEAN, destSeqNum : Nat, precursors : SUBSET Node]
NoRoute == [state |-> "none", nextHop |-> Nobody, hopCount |-> 0,
            validDestNum |-> FALSE, destSeqNum |-> 0, precursors |-> {}]

\* An entry of waitForRREPTimers: absent, with its timer running, or with its timer not scheduled
Wait == [state : {"none", "armed", "stopped"}, lastTTL : Nat]
NoWait == [state |-> "none", lastTTL |-> 0]

\* A failed ASSERT ends the simulation
Failures == {"rrepAck", "nextHop", "discovery", "timer"}

NodeState ==
  [isOperational : BOOLEAN,
   rebooted : BOOLEAN,             \* less than deletePeriod since rebootTime
   sequenceNum : Nat, rreqId : Nat, rreqCount : Nat, rerrCount : Nat,
   routes : [Node -> Route],
   arrived : SUBSET Nat,           \* the keys of rreqsArrivalTime
   wait : [Node -> Wait], retries : [Node -> Nat],
   delayed : SUBSET Datagram,      \* targetAddressToDelayedPackets
   failedNextHop : Node \cup {Nobody}, rrepAckTimer : BOOLEAN, blacklist : SUBSET Node,
   blacklistTimer : BOOLEAN,
   failed : SUBSET Failures,
   out : SUBSET [to : Node \cup {Nobody, Everybody}, msg : Message]]

FreshNode ==
  [isOperational |-> TRUE, rebooted |-> FALSE,
   sequenceNum |-> 0, rreqId |-> 0, rreqCount |-> 0, rerrCount |-> 0,
   routes |-> [d \in Node |-> NoRoute], arrived |-> {},
   wait |-> [d \in Node |-> NoWait], retries |-> [d \in Node |-> 0], delayed |-> {},
   failedNextHop |-> Nobody, rrepAckTimer |-> FALSE, blacklist |-> {}, blacklistTimer |-> FALSE,
   failed |-> {}, out |-> {}]

Unicast(s, to, msg) == [s EXCEPT !.out = @ \cup {[to |-> to, msg |-> msg]}]
Broadcast(s, msg) == [s EXCEPT !.out = @ \cup {[to |-> Everybody, msg |-> msg]}]
Check(s, assertion, name) == IF assertion THEN s ELSE [s EXCEPT !.failed = @ \cup {name}]

-----------------------------------------------------------------------------
(* The routing table *)

\* createRoute() and updateRoutingTable(): a new entry has no precursors yet
SetRoute(s, dest, nextHop, hopCount, valid, seq) ==
  [s EXCEPT !.routes[dest] =
     [state |-> "active", nextHop |-> nextHop, hopCount |-> hopCount,
      validDestNum |-> valid, destSeqNum |-> seq, precursors |-> @.precursors]]

AddPrecursor(s, dest, node) == [s EXCEPT !.routes[dest].precursors = @ \cup {node}]

\* The route to the node a message came from: "without a valid sequence number", but with a number
SetPreviousHop(s, from, seq) == SetRoute(s, from, from, 1, FALSE, seq)

Invalidated(r, seq) == [r EXCEPT !.state = "inactive", !.destSeqNum = seq]

\* expungeRoutes() when the time of the route to dest is over; a route that is being looked for
\* again is kept
ExpungeRoute(s, dest) ==
  CASE s.routes[dest].state = "active" -> [s EXCEPT !.routes[dest].state = "inactive"]
    [] s.routes[dest].state = "inactive" /\ s.wait[dest].state = "none" ->
         [s EXCEPT !.routes[dest] = NoRoute]
    [] OTHER -> s

-----------------------------------------------------------------------------
(* Route discovery, at the node that wants a route *)

\* IPv4 takes one off the TTL of what it sends, and drops what has none left
SendDatagrams(s, to, D) ==
  [s EXCEPT !.out = @ \cup {[to |-> to, msg |-> [type |-> "DATA", data |-> [d EXCEPT !.ttl = @ - 1]]]
                            : d \in {e \in D : e.ttl > 0}}]

\* createRREQ(): the numbers move, whether or not sendRREQ() sends the message
NumberRREQ(s) ==
  [s EXCEPT !.sequenceNum = @ + 1, !.rreqId = @ + 1, !.arrived = @ \cup {s.rreqId + 1}]

NewRREQ(n, s, dest, ttl) ==
  LET r == s.routes[dest]
      known == r.state # "none" /\ r.validDestNum
  IN [type |-> "RREQ", ttl |-> ttl - 1, id |-> s.rreqId, orig |-> n, origSeq |-> s.sequenceNum,
      dest |-> dest, destSeq |-> IF known THEN r.destSeqNum ELSE 0, unknown |-> ~known, hops |-> 0]

\* Mutant: the ring does not grow
NextTTLFixed(w) == IF w.state = "none" THEN TTL_START ELSE w.lastTTL
\* The expanding ring.  The TTL startRouteDiscovery() passes for an inactive route has no effect:
\* it is only looked at when the entry of waitForRREPTimers exists, and it never does then.
NextTTL(w) ==
  IF w.state = "none" THEN TTL_START
  ELSE IF w.lastTTL + TTL_INCREMENT < TTL_THRESHOLD THEN w.lastTTL + TTL_INCREMENT
  ELSE NET_DIAMETER

\* sendRREQ(), after createRREQ(); at the rate limit it leaves the timer as it is
SendRREQ(n, s, dest) ==
  LET ttl == NextTTL(s.wait[dest])
  IN IF s.rreqCount >= RREQ_RATELIMIT THEN s
     ELSE Broadcast([Check(s, s.wait[dest].state # "armed", "timer") EXCEPT
                       !.wait[dest] = [state |-> "armed", lastTTL |-> ttl],
                       !.rreqCount = @ + 1],
                    NewRREQ(n, s, dest, ttl))

StartRouteDiscovery(n, s, dest) ==
  LET t == Check(NumberRREQ(s), s.wait[dest].state = "none", "discovery")
  IN SendRREQ(n, [t EXCEPT !.retries[dest] = 0], dest)

\* handleWaitForRREP(): the timer has just expired
HandleWaitForRREP(n, s, dest) ==
  LET t == [s EXCEPT !.wait[dest].state = "stopped"]
      atMost == s.wait[dest].lastTTL = NET_DIAMETER
  IN IF s.retries[dest] = RREQ_RETRIES THEN t
     ELSE SendRREQ(n, [NumberRREQ(t) EXCEPT !.retries[dest] = IF atMost THEN @ + 1 ELSE @], dest)

\* Mutant: the datagrams stay in the multimap
CompleteRouteDiscoveryKept(s, dest) ==
  SendDatagrams([s EXCEPT !.wait[dest] = NoWait],
                s.routes[dest].nextHop, {d \in s.delayed : d.dst = dest})
\* completeRouteDiscovery(): reinjectQueuedDatagram() sends along the route just entered
CompleteRouteDiscovery(s, dest) ==
  LET ready == {d \in s.delayed : d.dst = dest}
  IN SendDatagrams([s EXCEPT !.delayed = @ \ ready, !.wait[dest] = NoWait],
                   s.routes[dest].nextHop, ready)

-----------------------------------------------------------------------------
(* handleRREQ() *)

\* sendRREP(): a neighbour has to acknowledge, and is blacklisted if it does not in time
SendRREP(s, rrep) ==
  LET r == s.routes[rrep.orig]
      t == AddPrecursor(s, rrep.orig, r.nextHop)
  IN IF r.hopCount # 1 THEN Unicast(t, r.nextHop, rrep)
     ELSE Unicast([t EXCEPT !.failedNextHop = r.nextHop, !.rrepAckTimer = TRUE],
                  r.nextHop, [rrep EXCEPT !.ack = TRUE])

\* The reverse route to the originator.  A number under which the originator is not known to be
\* current survives the maximum
SetReverseRoute(s, from, p) ==
  LET r == s.routes[p.orig]
      better == \/ p.origSeq > r.destSeqNum
                \/ p.origSeq = r.destSeqNum /\ p.hops + 1 < r.hopCount
                \/ p.unknown
  IN IF r.state = "none" THEN SetRoute(s, p.orig, from, p.hops + 1, TRUE, p.origSeq)
     ELSE IF better
     THEN SetRoute(s, p.orig, from, p.hops + 1, TRUE, Higher(r.destSeqNum, p.origSeq))
     ELSE s

\* createRREP(), first case: this node is the destination
ReplyAsDestination(s, p) ==
  LET q == IF ~p.unknown /\ s.sequenceNum + 1 = p.destSeq THEN s.sequenceNum + 1
           ELSE s.sequenceNum
  IN SendRREP([s EXCEPT !.sequenceNum = q],
              [type |-> "RREP", dest |-> p.dest, destSeq |-> q, orig |-> p.orig,
               origSeq |-> p.origSeq, hops |-> 0, ack |-> FALSE])

\* createRREP(), second case, createGratuitousRREP() and sendGRREP()
SendReplies(s, from, p) ==
  LET r == s.routes[p.dest]
      t == AddPrecursor(AddPrecursor(s, p.dest, from), p.orig, r.nextHop)
      u == SendRREP(t, [type |-> "RREP", dest |-> p.dest, destSeq |-> r.destSeqNum,
                        orig |-> p.orig, origSeq |-> p.origSeq, hops |-> r.hopCount,
                        ack |-> FALSE])
  IN IF ~AskGratuitousRREP THEN u
     ELSE Unicast(u, r.nextHop, [type |-> "RREP", dest |-> p.orig, destSeq |-> p.origSeq,
                                 orig |-> p.dest, origSeq |-> 0,
                                 hops |-> s.routes[p.orig].hopCount, ack |-> FALSE])

\* A reply to the next hop itself would lead it back to this node
ReplyForDestination(s, from, p) ==
  IF s.routes[p.dest].nextHop = from THEN s ELSE SendReplies(s, from, p)

\* forwardRREQ(): the TTL is the one that arrived, IPv4 takes one off
ForwardRREQ(s, p) ==
  IF p.ttl = 0 \/ s.rebooted THEN s
  ELSE Broadcast(s, [p EXCEPT !.ttl = @ - 1, !.hops = @ + 1, !.unknown = FALSE,
                              !.destSeq = Higher(@, s.routes[p.dest].destSeqNum)])

HandleRREQ(n, s, from, p) ==
  LET a == SetPreviousHop(s, from, p.origSeq)
      b == SetReverseRoute([a EXCEPT !.arrived = @ \cup {p.id}], from, p)
      r == b.routes[p.dest]
      knows == r.state = "active" /\ r.validDestNum /\ r.destSeqNum >= p.destSeq
  IN IF from \in s.blacklist THEN s
     \* RREQIdentifierCompare looks at the RREQ ID alone
     ELSE IF p.id \in s.arrived THEN a
     ELSE IF p.dest = n THEN ReplyAsDestination(b, p)
     ELSE IF ~knows THEN ForwardRREQ(b, p)
     ELSE ReplyForDestination(b, from, p)

-----------------------------------------------------------------------------
(* handleRREP(), handleHelloMessage(), handleRREPACK() *)

\* Mutant: the reverse route is not looked for
ForwardRREPBlind(s, from, p) ==
  Unicast(s, s.routes[p.orig].nextHop, [p EXCEPT !.hops = @ + 1, !.ack = FALSE])
\* A node on the way back to the originator
ForwardRREP(s, from, p) ==
  LET back == s.routes[p.orig]
      ahead == s.routes[p.dest].nextHop
      acked == IF p.ack THEN Unicast(s, from, [type |-> "RREPACK"]) ELSE s
      t == AddPrecursor(Check(acked, s.routes[ahead].state # "none", "nextHop"),
                        p.dest, back.nextHop)
  IN IF back.state = "none" \/ s.rebooted THEN s
     ELSE Unicast(AddPrecursor(t, ahead, back.nextHop), back.nextHop,
                  [p EXCEPT !.hops = @ + 1, !.ack = FALSE])

\* The reply has a better route than the entry r of the routing table
IsBetter(r, p) ==
  \/ r.state = "none"
  \/ ~r.validDestNum
  \/ p.destSeq > r.destSeqNum
  \/ p.destSeq = r.destSeqNum /\ (r.state = "inactive" \/ p.hops + 1 < r.hopCount)

HandleRREP(n, s, from, p) ==
  LET a == SetPreviousHop(s, from, p.origSeq)
      taken(t) == SetRoute(t, p.dest, from, p.hops + 1, TRUE, p.destSeq)
      b == IF IsBetter(a.routes[p.dest], p) THEN taken(a) ELSE a
  IN IF n # p.orig THEN ForwardRREP(b, from, p)
     ELSE IF s.wait[p.dest].state = "none" THEN b
     ELSE CompleteRouteDiscovery(taken(b), p.dest)

\* sendHelloMessagesIfNeeded(), when nothing was broadcast for a hello interval
SendHello(n, s) ==
  IF \A d \in Node : s.routes[d].state # "active" THEN s
  ELSE Broadcast(s, [type |-> "HELLO", dest |-> n, destSeq |-> s.sequenceNum])

HandleHello(s, p) == SetRoute(s, p.dest, p.dest, 1, TRUE, p.destSeq)

HandleRREPACK(s, from) ==
  LET t == Check(s, s.rrepAckTimer, "rrepAck")
  IN IF s.routes[from].state = "none" THEN t
     ELSE [t EXCEPT !.routes[from].state = "active", !.rrepAckTimer = FALSE]

HandleRREPACKTimer(s) ==
  [s EXCEPT !.rrepAckTimer = FALSE, !.blacklist = @ \cup {s.failedNextHop}, !.blacklistTimer = TRUE]

\* The entries of over have had their time
HandleBlackListTimer(s, over) ==
  [s EXCEPT !.blacklist = @ \ over, !.blacklistTimer = s.blacklist \ over # {}]

-----------------------------------------------------------------------------
(* Route errors *)

SendRERR(s, lost, seqs) ==
  IF s.rerrCount >= RERR_RATELIMIT THEN s
  ELSE Broadcast([s EXCEPT !.rerrCount = @ + 1],
                 [type |-> "RERR", lost |-> lost,
                  seqs |-> [d \in Node |-> IF d \in lost THEN seqs[d] ELSE 0]])

\* receiveChangeNotification() and handleLinkBreakSendRERR() for a frame with a packet for dest
HandleLinkBreak(s, dest) ==
  LET gone == s.routes[dest].nextHop
      via == {d \in Node : s.routes[d].state # "none" /\ s.routes[d].nextHop = gone}
      seqs == [d \in Node |-> s.routes[d].destSeqNum
                                + IF d \in via /\ s.routes[d].validDestNum THEN 1 ELSE 0]
      routes == [d \in Node |-> IF d \in via THEN Invalidated(s.routes[d], seqs[d])
                                ELSE s.routes[d]]
  IN IF s.routes[dest].state = "none" \/ s.routes[gone].state = "none" THEN s
     ELSE SendRERR([s EXCEPT !.routes = routes], via \cup {gone}, seqs)

HandleRERR(s, from, p) ==
  LET via == {d \in p.lost : s.routes[d].state # "none" /\ s.routes[d].nextHop = from}
      used == {d \in via : s.routes[d].precursors # {}}
      t == [s EXCEPT !.routes = [d \in Node |-> IF d \in via THEN Invalidated(@[d], p.seqs[d])
                                                ELSE @[d]]]
  IN IF used = {} \/ s.rebooted THEN t ELSE SendRERR(t, used, p.seqs)

-----------------------------------------------------------------------------
(* Datagrams: the hooks IPv4 calls *)

\* ensureRouteForDatagram() for a datagram of this node: LOCALOUT, or PREROUTING when it came back
EnsureRoute(n, s, d) ==
  LET r == s.routes[d.dst]
      t == [s EXCEPT !.delayed = @ \cup {d}]
  IN IF r.state = "active" THEN SendDatagrams(s, r.nextHop, {d})
     ELSE IF s.wait[d.dst].state # "none" THEN t
     ELSE StartRouteDiscovery(n, t, d.dst)

\* datagramForwardHook() of a datagram IPv4 has found a route for, active or not: it goes that way
\* even when the hook reports that there is no active route.  Without a route IPv4 drops it.
ForwardDatagram(s, d) ==
  LET r == s.routes[d.dst]
      seq == IF r.validDestNum THEN r.destSeqNum + 1 ELSE r.destSeqNum
      t == SendRERR([s EXCEPT !.routes[d.dst].destSeqNum = seq], {d.dst},
                    [e \in Node |-> IF r.validDestNum THEN seq ELSE 0])
  IN IF r.state = "none" THEN s
     ELSE SendDatagrams(IF r.state = "active" THEN s ELSE t, r.nextHop, {d})

HandleDatagram(n, s, d) ==
  IF d.dst = n THEN s
  ELSE IF d.src = n /\ s.routes[d.dst].state # "active" THEN EnsureRoute(n, s, d)
  ELSE ForwardDatagram(s, d)

Handle(n, s, from, p) ==
  CASE p.type = "RREQ"    -> HandleRREQ(n, s, from, p)
    [] p.type = "RREP"    -> HandleRREP(n, s, from, p)
    [] p.type = "HELLO"   -> HandleHello(s, p)
    [] p.type = "RERR"    -> HandleRERR(s, from, p)
    [] p.type = "RREPACK" -> HandleRREPACK(s, from)
    [] p.type = "DATA"    -> HandleDatagram(n, s, p.data)

-----------------------------------------------------------------------------
(* Lifecycle: the routing table drops all routes on the way down, AODVRouting keeps the blacklist
   but stops the timer that empties it *)

ClearState(s) ==
  [FreshNode EXCEPT !.isOperational = FALSE, !.rebooted = s.rebooted,
                    !.blacklist = s.blacklist, !.failedNextHop = s.failedNextHop]
Restarted(s) == [s EXCEPT !.isOperational = TRUE, !.rebooted = TRUE]

=============================================================================
