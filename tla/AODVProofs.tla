------------------------------ MODULE AODVProofs ------------------------------
(***************************************************************************)
(* Proofs about AODV.tla, for every network, every set of flows and every  *)
(* number of faults.  The operators of AODVNode.tla are gone through one   *)
(* by one: what a handler leaves of a node is well typed, and most have    *)
(* nothing to do with datagrams (Kept); the others hold back or send on,   *)
(* once, what they had or were given (Carries).  The inductive invariant   *)
(* AInv adds that the places of datagrams in the whole network are apart   *)
(* and that each of these datagrams was sent: without the second a new one *)
(* might be there already.  Upright is what a handler does to what a node  *)
(* knows of its neighbours and what messages say of their senders, on      *)
(* which the ASSERTs depend; Sane is the invariant of the network.         *)
(***************************************************************************)
EXTENDS AODV, FiniteSetTheorems, TLAPS

\* What is true of a node between two events and at every call in between: what it knows a route
\* by is a node, a discovery has had a ring, somebody is to acknowledge while the timer runs, and
\* nothing is sent to nobody.
NodeInv(s) ==
  /\ s \in NodeState
  /\ \A d \in Node : s.routes[d].state # "none" => s.routes[d].nextHop # Nobody
  /\ \A d \in Node : s.wait[d].state # "none" => s.wait[d].lastTTL > 0
  /\ s.rrepAckTimer => s.failedNextHop # Nobody
  /\ \A o \in s.out : o.to # Nobody /\ (o.msg.type = "DATA" => o.to # Everybody)

\* The datagrams a node is about to send
DataOut(s) == {o \in s.out : o.msg.type = "DATA"}

\* A step of a handler that loses no route and has nothing to do with datagrams
Kept(s, t) ==
  /\ NodeInv(t)
  /\ t.delayed = s.delayed /\ DataOut(t) = DataOut(s)
  /\ \A d \in Node : s.routes[d].state # "none" => t.routes[d].state # "none"

-----------------------------------------------------------------------------
(* Messages and the routing table *)

\* A node is neither of the two special addresses.
LEMMA NodesAreNodes == \A n \in Node : n # Nobody /\ n # Everybody
BY NodeAssumption

\* The type of a message says what it is.
LEMMA MessageKinds ==
  ASSUME NEW p \in Message
  PROVE  /\ p.type = "RREQ" => p \in RREQ
         /\ p.type = "RREP" => p \in RREP
         /\ p.type = "HELLO" => p \in HELLO
         /\ p.type = "RERR" => p \in RERR
         /\ p.type = "RREPACK" => p \in RREPACK
         /\ p.type = "DATA" => p \in DATA
         /\ p.type \in {"RREQ", "RREP", "HELLO", "RERR", "RREPACK", "DATA"}
BY DEF Message, RREQ, RREP, HELLO, RERR, RREPACK, DATA

\* Steps of a handler follow each other.
LEMMA KeptTwice ==
  ASSUME NEW a, NEW b, NEW c, Kept(a, b), Kept(b, c)
  PROVE  Kept(a, c)
BY DEF Kept

\* A step leaves the node well,
LEMMA KeptInv ==
  ASSUME NEW s, NEW t, Kept(s, t)
  PROVE  NodeInv(t)
BY DEF Kept

\* and so does none.
LEMMA KeptItself ==
  ASSUME NEW s, NodeInv(s)
  PROVE  Kept(s, s)
BY DEF Kept

\* A control message is added to what a handler sends.
LEMMA SendKept ==
  ASSUME NEW s, NodeInv(s), NEW to \in Node \cup {Everybody}, NEW msg \in Message,
         msg.type # "DATA"
  PROVE  Kept(s, [s EXCEPT !.out = @ \cup {[to |-> to, msg |-> msg]}])
<1> DEFINE o == [to |-> to, msg |-> msg]
           t == [s EXCEPT !.out = @ \cup {o}]
<1>1. o \in [to : Node \cup {Nobody, Everybody}, msg : Message] /\ o.to = to /\ o.msg = msg
  OBVIOUS
<1>2. to # Nobody
  BY NodeAssumption
<1> HIDE DEF o
<1>3. t \in NodeState /\ t.out = s.out \cup {o} /\ t.routes = s.routes /\ t.wait = s.wait
      /\ t.delayed = s.delayed /\ t.rrepAckTimer = s.rrepAckTimer
      /\ t.failedNextHop = s.failedNextHop
  BY <1>1 DEF NodeInv, NodeState
<1> HIDE DEF t
<1>4. NodeInv(t)
  BY <1>1, <1>2, <1>3 DEF NodeInv
<1>5. DataOut(t) = DataOut(s)
  BY <1>1, <1>3 DEF DataOut
<1> QED
  BY <1>3, <1>4, <1>5 DEF Kept, t, o

\* So are the two ways of sending one.
LEMMA UnicastKept ==
  ASSUME NEW s, NodeInv(s), NEW to \in Node, NEW msg \in Message, msg.type # "DATA"
  PROVE  Kept(s, Unicast(s, to, msg))
BY SendKept DEF Unicast

\* A broadcast keeps the node as it is, too.
LEMMA BroadcastKept ==
  ASSUME NEW s, NodeInv(s), NEW msg \in Message, msg.type # "DATA"
  PROVE  Kept(s, Broadcast(s, msg))
BY SendKept DEF Broadcast

\* A failed ASSERT is noted.
LEMMA CheckKept ==
  ASSUME NEW s, NodeInv(s), NEW b \in BOOLEAN, NEW name \in Failures
  PROVE  Kept(s, Check(s, b, name)) /\ Check(s, b, name).routes = s.routes
         /\ Check(s, b, name).wait = s.wait
<1> DEFINE t == [s EXCEPT !.failed = @ \cup {name}]
<1>1. t \in NodeState /\ t.out = s.out /\ t.routes = s.routes /\ t.wait = s.wait
      /\ t.delayed = s.delayed /\ t.rrepAckTimer = s.rrepAckTimer
      /\ t.failedNextHop = s.failedNextHop
  BY DEF NodeInv, NodeState
<1> HIDE DEF t
<1>2. Kept(s, t)
  BY <1>1 DEF Kept, NodeInv, DataOut
<1> QED
  BY <1>1, <1>2, KeptItself DEF Check, t

\* The routing table changes in entries only, and none becomes empty.
LEMMA RoutesKept ==
  ASSUME NEW s, NodeInv(s), NEW f \in [Node -> Route],
         \A d \in Node : s.routes[d].state # "none" => f[d].state # "none",
         \A d \in Node : f[d].state # "none" => f[d].nextHop # Nobody
  PROVE  Kept(s, [s EXCEPT !.routes = f])
<1> DEFINE t == [s EXCEPT !.routes = f]
<1>1. t \in NodeState /\ t.out = s.out /\ t.routes = f /\ t.wait = s.wait
      /\ t.delayed = s.delayed /\ t.rrepAckTimer = s.rrepAckTimer
      /\ t.failedNextHop = s.failedNextHop
  BY DEF NodeInv, NodeState
<1> HIDE DEF t
<1> QED
  BY <1>1 DEF Kept, NodeInv, DataOut, t

\* One entry changes.
WithRoute(s, dest, r) == [s EXCEPT !.routes[dest] = r]

\* A route remains one.
LEMMA RouteKept ==
  ASSUME NEW s, NodeInv(s), NEW dest \in Node, NEW r \in Route,
         r.state # "none" => r.nextHop # Nobody,
         s.routes[dest].state # "none" => r.state # "none"
  PROVE  LET t == WithRoute(s, dest, r)
         IN /\ Kept(s, t) /\ t.routes = [s.routes EXCEPT ![dest] = r]
            /\ t.routes[dest] = r /\ t.wait = s.wait
<1> DEFINE f == [s.routes EXCEPT ![dest] = r]
           t == WithRoute(s, dest, r)
<1>1. s.routes \in [Node -> Route]
  BY DEF NodeInv, NodeState
<1>2. /\ f \in [Node -> Route] /\ f[dest] = r
      /\ \A d \in Node : s.routes[d].state # "none" => f[d].state # "none"
      /\ \A d \in Node : f[d].state # "none" => f[d].nextHop # Nobody
  BY <1>1 DEF NodeInv
<1>3. t = [s EXCEPT !.routes = f] /\ t.routes = f /\ t.wait = s.wait
  BY DEF NodeInv, NodeState, WithRoute
<1> HIDE DEF f, t
<1>4. Kept(s, t)
  BY <1>2, <1>3, RoutesKept
<1> QED
  BY <1>2, <1>3, <1>4 DEF f, t

\* A route is created or updated.
LEMMA SetRouteKept ==
  ASSUME NEW s, NodeInv(s), NEW dest \in Node, NEW nextHop \in Node, NEW hopCount \in Nat,
         NEW valid \in BOOLEAN, NEW seq \in Nat
  PROVE  LET t == SetRoute(s, dest, nextHop, hopCount, valid, seq)
         IN /\ Kept(s, t) /\ t.routes[dest].state = "active"
            /\ t.routes[dest].nextHop = nextHop /\ t.wait = s.wait
<1> DEFINE r == [state |-> "active", nextHop |-> nextHop, hopCount |-> hopCount,
                 validDestNum |-> valid, destSeqNum |-> seq,
                 precursors |-> s.routes[dest].precursors]
           t == SetRoute(s, dest, nextHop, hopCount, valid, seq)
<1>1. s.routes \in [Node -> Route]
  BY DEF NodeInv, NodeState
<1>2. r \in Route /\ r.state = "active" /\ r.nextHop = nextHop /\ nextHop # Nobody
  BY <1>1, NodesAreNodes DEF Route
<1>3. t = WithRoute(s, dest, r)
  BY <1>1 DEF SetRoute, WithRoute, NodeInv, NodeState
<1>4. /\ r.state # "none" => r.nextHop # Nobody
      /\ s.routes[dest].state # "none" => r.state # "none"
  BY <1>2
<1> HIDE DEF r, t
<1>5. r \in Route
  BY <1>2
<1>6. Kept(s, t) /\ t.routes = [s.routes EXCEPT ![dest] = r] /\ t.wait = s.wait
  BY <1>3, <1>4, <1>5, RouteKept
<1> QED
  BY <1>1, <1>2, <1>6 DEF t

\* A node is entered among the precursors of a route.
LEMMA AddPrecursorKept ==
  ASSUME NEW s, NodeInv(s), NEW dest \in Node, NEW n \in Node
  PROVE  LET t == AddPrecursor(s, dest, n)
         IN /\ Kept(s, t) /\ t.wait = s.wait
            /\ \A d \in Node : /\ t.routes[d].state = s.routes[d].state
                               /\ t.routes[d].nextHop = s.routes[d].nextHop
                               /\ t.routes[d].hopCount = s.routes[d].hopCount
<1> DEFINE r == [s.routes[dest] EXCEPT !.precursors = @ \cup {n}]
           t == AddPrecursor(s, dest, n)
<1>1. s.routes \in [Node -> Route]
  BY DEF NodeInv, NodeState
<1>2. /\ r \in Route /\ r.state = s.routes[dest].state /\ r.nextHop = s.routes[dest].nextHop
      /\ r.hopCount = s.routes[dest].hopCount
  BY <1>1 DEF Route
<1>3. t = WithRoute(s, dest, r)
  BY <1>1 DEF AddPrecursor, WithRoute, NodeInv, NodeState
<1>4. /\ r.state # "none" => r.nextHop # Nobody
      /\ s.routes[dest].state # "none" => r.state # "none"
  BY <1>2 DEF NodeInv
<1> HIDE DEF r, t
<1>5. /\ Kept(s, t) /\ t.routes = [s.routes EXCEPT ![dest] = r] /\ t.wait = s.wait
  BY <1>2, <1>3, <1>4, RouteKept
<1> QED
  BY <1>1, <1>2, <1>5 DEF t

\* The route to the node a message came from.
LEMMA SetPreviousHopKept ==
  ASSUME NEW s, NodeInv(s), NEW from \in Node, NEW seq \in Nat
  PROVE  LET t == SetPreviousHop(s, from, seq)
         IN Kept(s, t) /\ t.routes[from].state = "active" /\ t.wait = s.wait
<1> DEFINE no == FALSE
           t == SetRoute(s, from, from, 1, no, seq)
<1>1. no \in BOOLEAN
  OBVIOUS
<1>2. SetPreviousHop(s, from, seq) = t
  BY DEF SetPreviousHop
<1> HIDE DEF no
<1>3. /\ Kept(s, t) /\ t.routes[from].state = "active" /\ t.wait = s.wait
  BY <1>1, SetRouteKept
<1> QED
  BY <1>2, <1>3

-----------------------------------------------------------------------------
(* Route discovery *)

\* The other fields of a node are of no account.
LEMMA OthersKept ==
  ASSUME NEW s, NodeInv(s), NEW t \in NodeState,
         t.routes = s.routes, t.wait = s.wait, t.delayed = s.delayed, t.out = s.out,
         t.rrepAckTimer => t.failedNextHop # Nobody
  PROVE  Kept(s, t)
BY DEF Kept, NodeInv, DataOut

\* An entry of waitForRREPTimers changes.
LEMMA WaitKept ==
  ASSUME NEW s, NodeInv(s), NEW dest \in Node, NEW w \in Wait, w.state # "none" => w.lastTTL > 0,
         NEW t, t = [s EXCEPT !.wait[dest] = w]
  PROVE  Kept(s, t) /\ t.wait = [s.wait EXCEPT ![dest] = w] /\ t.routes = s.routes
<1> DEFINE f == [s.wait EXCEPT ![dest] = w]
<1>1. s.wait \in [Node -> Wait]
  BY DEF NodeInv, NodeState
<1>2. f \in [Node -> Wait] /\ \A d \in Node : f[d].state # "none" => f[d].lastTTL > 0
  BY <1>1 DEF NodeInv
<1>3. t = [s EXCEPT !.wait = f]
  OBVIOUS
<1>4. t \in NodeState /\ t.out = s.out /\ t.routes = s.routes /\ t.wait = f
      /\ t.delayed = s.delayed /\ t.rrepAckTimer = s.rrepAckTimer
      /\ t.failedNextHop = s.failedNextHop
  BY <1>2, <1>3 DEF NodeInv, NodeState
<1> HIDE DEF f
<1>5. Kept(s, t)
  BY <1>2, <1>4 DEF Kept, NodeInv, DataOut
<1> QED
  BY <1>4, <1>5 DEF f

\* The ring has a radius.
LEMMA NextTTLType ==
  ASSUME NEW s, NodeInv(s), NEW dest \in Node
  PROVE  NextTTL(s.wait[dest]) \in Nat /\ NextTTL(s.wait[dest]) > 0
<1>1. s.wait[dest] \in Wait /\ (s.wait[dest].state # "none" => s.wait[dest].lastTTL > 0)
  BY DEF NodeInv, NodeState
<1>2. s.wait[dest].lastTTL \in Nat
  BY <1>1 DEF Wait
<1> QED
  BY <1>1, <1>2, NodeAssumption DEF NextTTL

\* What is sent is a request.
LEMMA NewRREQType ==
  ASSUME NEW s, NodeInv(s), NEW n \in Node, NEW dest \in Node, NEW ttl \in Nat, ttl > 0
  PROVE  NewRREQ(n, s, dest, ttl) \in Message /\ NewRREQ(n, s, dest, ttl).type # "DATA"
<1>1. s.routes[dest] \in Route /\ s.rreqId \in Nat /\ s.sequenceNum \in Nat
  BY DEF NodeInv, NodeState
<1>2. s.routes[dest].destSeqNum \in Nat /\ s.routes[dest].validDestNum \in BOOLEAN
  BY <1>1 DEF Route
<1>3. ttl - 1 \in Nat
  OBVIOUS
<1>4. NewRREQ(n, s, dest, ttl) \in RREQ
  BY <1>1, <1>2, <1>3 DEF NewRREQ, RREQ
<1> QED
  BY <1>4 DEF Message, RREQ

\* Numbers are taken for a request,
LEMMA NumberRREQKept ==
  ASSUME NEW s, NodeInv(s)
  PROVE  /\ Kept(s, NumberRREQ(s)) /\ NumberRREQ(s).wait = s.wait
         /\ NumberRREQ(s).routes = s.routes
<1> DEFINE t == NumberRREQ(s)
<1>1. s \in NodeState /\ s.rreqId \in Nat /\ s.sequenceNum \in Nat /\ s.arrived \in SUBSET Nat
  BY DEF NodeInv, NodeState
<1>2. s.rreqId + 1 \in Nat /\ s.sequenceNum + 1 \in Nat /\ s.arrived \cup {s.rreqId + 1} \in SUBSET Nat
  BY <1>1
<1>3. t \in NodeState /\ t.out = s.out /\ t.routes = s.routes /\ t.wait = s.wait
      /\ t.delayed = s.delayed /\ t.rrepAckTimer = s.rrepAckTimer
      /\ t.failedNextHop = s.failedNextHop
  BY <1>1, <1>2 DEF NumberRREQ, NodeState
<1> HIDE DEF t
<1>4. Kept(s, t)
  BY <1>3, OthersKept DEF NodeInv
<1> QED
  BY <1>3, <1>4 DEF t

\* which is sent if the rate allows it.
LEMMA SendRREQKept ==
  ASSUME NEW s, NodeInv(s), NEW n \in Node, NEW dest \in Node
  PROVE  Kept(s, SendRREQ(n, s, dest))
<1> DEFINE ttl == NextTTL(s.wait[dest])
           a == Check(s, s.wait[dest].state # "armed", "timer")
           w == [state |-> "armed", lastTTL |-> ttl]
           b == [a EXCEPT !.wait[dest] = w]
           c == [a EXCEPT !.wait[dest] = w, !.rreqCount = @ + 1]
           m == NewRREQ(n, s, dest, ttl)
<1>1. ttl \in Nat /\ ttl > 0
  BY NextTTLType
<1>2. Kept(s, a)
  BY CheckKept DEF Failures
<1>3. w \in Wait /\ w.lastTTL > 0
  BY <1>1 DEF Wait
<1>4. m \in Message /\ m.type # "DATA"
  BY <1>1, NewRREQType
<1>5. Kept(a, b)
  <2>1. NodeInv(a)
    BY <1>2 DEF Kept
  <2> HIDE DEF a, w
  <2> QED
    BY <2>1, <1>3, WaitKept
<1>6. Kept(b, c)
  <2>1. NodeInv(b)
    BY <1>5 DEF Kept
  <2>2. c = [b EXCEPT !.rreqCount = @ + 1]
    <3> HIDE DEF w
    <3>1. NodeInv(a)
      BY <1>2 DEF Kept
    <3> HIDE DEF a
    <3> QED
      BY <3>1 DEF NodeInv, NodeState
  <2> HIDE DEF b, c
  <2>3. c \in NodeState /\ c.out = b.out /\ c.routes = b.routes /\ c.wait = b.wait
        /\ c.delayed = b.delayed /\ c.rrepAckTimer = b.rrepAckTimer
        /\ c.failedNextHop = b.failedNextHop
    BY <2>1, <2>2 DEF NodeInv, NodeState
  <2> QED
    BY <2>1, <2>3, OthersKept DEF NodeInv
<1> HIDE DEF a, b, w, m
<1>7. Kept(c, Broadcast(c, m))
  BY <1>4, <1>6, BroadcastKept, KeptInv
<1>8. Kept(s, Broadcast(c, m))
  BY <1>2, <1>5, <1>6, <1>7, KeptTwice
<1>9. SendRREQ(n, s, dest) = s \/ SendRREQ(n, s, dest) = Broadcast(c, m)
  BY DEF SendRREQ, a, w, m
<1> QED
  BY <1>8, <1>9, KeptItself

\* The counter of retries of an entry.
LEMMA RetriesKept ==
  ASSUME NEW s, NodeInv(s), NEW dest \in Node, NEW k \in Nat
  PROVE  LET t == [s EXCEPT !.retries[dest] = k]
         IN Kept(s, t) /\ t.wait = s.wait /\ t.routes = s.routes
<1> DEFINE t == [s EXCEPT !.retries[dest] = k]
<1>1. t \in NodeState /\ t.out = s.out /\ t.routes = s.routes /\ t.wait = s.wait
      /\ t.delayed = s.delayed /\ t.rrepAckTimer = s.rrepAckTimer
      /\ t.failedNextHop = s.failedNextHop
  BY DEF NodeInv, NodeState
<1> HIDE DEF t
<1>2. Kept(s, t)
  BY <1>1, OthersKept DEF NodeInv
<1> QED
  BY <1>1, <1>2 DEF t

\* A discovery starts.
LEMMA StartRouteDiscoveryKept ==
  ASSUME NEW s, NodeInv(s), NEW n \in Node, NEW dest \in Node
  PROVE  Kept(s, StartRouteDiscovery(n, s, dest))
<1> DEFINE a == NumberRREQ(s)
           b == Check(a, s.wait[dest].state = "none", "discovery")
           c == [b EXCEPT !.retries[dest] = 0]
<1>1. Kept(s, a)
  BY NumberRREQKept
<1>2. Kept(a, b)
  <2>1. NodeInv(a)
    BY <1>1 DEF Kept
  <2> HIDE DEF a
  <2> QED
    BY <2>1, CheckKept DEF Failures
<1> HIDE DEF b
<1>3. Kept(b, c)
  BY <1>2, RetriesKept, KeptInv
<1> HIDE DEF a, c
<1>4. Kept(c, SendRREQ(n, c, dest))
  BY <1>3, SendRREQKept, KeptInv
<1>5. StartRouteDiscovery(n, s, dest) = SendRREQ(n, c, dest)
  BY DEF StartRouteDiscovery, a, b, c
<1> QED
  BY <1>1, <1>2, <1>3, <1>4, <1>5, KeptTwice

\* A reply has not come in time: the ring grows, or the discovery is given up.
LEMMA HandleWaitForRREPKept ==
  ASSUME NEW s, NodeInv(s), NEW n \in Node, NEW dest \in Node, s.wait[dest].state = "armed"
  PROVE  Kept(s, HandleWaitForRREP(n, s, dest))
<1> DEFINE w == [s.wait[dest] EXCEPT !.state = "stopped"]
           t == [s EXCEPT !.wait[dest] = w]
           atMost == s.wait[dest].lastTTL = NET_DIAMETER
           a == NumberRREQ(t)
           k == IF atMost THEN a.retries[dest] + 1 ELSE a.retries[dest]
           b == [a EXCEPT !.retries[dest] = k]
<1>1. w \in Wait /\ w.lastTTL > 0
  BY DEF NodeInv, NodeState, Wait
<1>2. Kept(s, t)
  <2> HIDE DEF w
  <2> QED
    BY <1>1, WaitKept
<1>3. Kept(t, a)
  <2> HIDE DEF t
  <2> QED
    BY <1>2, NumberRREQKept, KeptInv
<1>4. k \in Nat
  <2> HIDE DEF a
  <2> QED
    BY <1>3 DEF Kept, NodeInv, NodeState
<1>5. Kept(a, b)
  <2> HIDE DEF a, k
  <2> QED
    BY <1>3, <1>4, RetriesKept, KeptInv
<1>6. Kept(b, SendRREQ(n, b, dest))
  <2> HIDE DEF b
  <2> QED
    BY <1>5, SendRREQKept, KeptInv
<1>7. \/ HandleWaitForRREP(n, s, dest) = t
      \/ HandleWaitForRREP(n, s, dest) = SendRREQ(n, b, dest)
  <2>1. t = [s EXCEPT !.wait[dest].state = "stopped"]
    OBVIOUS
  <2>2. b = [a EXCEPT !.retries[dest] = IF atMost THEN @ + 1 ELSE @]
    OBVIOUS
  <2> HIDE DEF b, t, w
  <2> QED
    BY <2>1, <2>2 DEF HandleWaitForRREP, a
<1> HIDE DEF a, b, t
<1> QED
  BY <1>2, <1>3, <1>5, <1>6, <1>7, KeptTwice

-----------------------------------------------------------------------------
(* Datagrams at a node *)

\* Two datagrams are one, whatever is left of their TTL.
Same(x, y) == x.src = y.src /\ x.dst = y.dst /\ x.num = y.num
\* No two of D are the same datagram.
Distinct(D) == \A x, y \in D : Same(x, y) => x = y

\* A handler that gets the datagrams I holds back or sends on, once, what it had.
Carries(s, t, I) ==
  /\ NodeInv(t)
  /\ t.delayed \subseteq s.delayed \cup I
  /\ \A o \in DataOut(t) : \E x \in s.delayed \cup I : x \notin t.delayed /\ Same(x, o.msg.data)
  /\ \A o, q \in DataOut(t) : Same(o.msg.data, q.msg.data) => o = q

\* A step that has nothing to do with datagrams carries them all,
LEMMA KeptCarries ==
  ASSUME NEW s, NEW t, Kept(s, t), s.out = {}, NEW I
  PROVE  Carries(s, t, I)
<1>1. DataOut(s) = {}
  BY DEF DataOut
<1> QED
  BY <1>1 DEF Carries, Kept

\* and may come before
LEMMA KeptThenCarries ==
  ASSUME NEW a, NEW s, NEW t, NEW I, Kept(a, s), Carries(s, t, I)
  PROVE  Carries(a, t, I)
BY DEF Carries, Kept

\* or after one that has.
LEMMA CarriesThenKept ==
  ASSUME NEW s, NEW t, NEW b, NEW I, Carries(s, t, I), Kept(t, b)
  PROVE  Carries(s, b, I)
BY DEF Carries, Kept

\* IPv4 takes one off the TTL.
Sent(to, x) == [to |-> to, msg |-> [type |-> "DATA", data |-> [x EXCEPT !.ttl = @ - 1]]]

\* It is the same datagram in a message.
LEMMA SentType ==
  ASSUME NEW to \in Node, NEW x \in Datagram, x.ttl > 0
  PROVE  LET o == Sent(to, x)
         IN /\ o \in [to : Node \cup {Nobody, Everybody}, msg : Message]
            /\ o.to = to /\ o.msg.type = "DATA" /\ Same(x, o.msg.data)
<1> DEFINE y == [x EXCEPT !.ttl = @ - 1]
           m == [type |-> "DATA", data |-> y]
<1>1. x.ttl - 1 \in Nat
  BY DEF Datagram
<1>2. y \in Datagram /\ Same(x, y)
  BY <1>1 DEF Datagram, Same
<1> HIDE DEF y
<1>3. m \in DATA /\ m.type = "DATA" /\ m.data = y
  BY <1>2 DEF DATA
<1>4. m \in Message
  BY <1>3 DEF Message
<1>5. Sent(to, x) = [to |-> to, msg |-> m]
  BY DEF Sent, y
<1> HIDE DEF m
<1> QED
  BY <1>2, <1>3, <1>4, <1>5

\* What sending some datagrams makes of a node.
LEMMA SendDatagramsFacts ==
  ASSUME NEW s, NodeInv(s), DataOut(s) = {}, NEW to \in Node, NEW D \in SUBSET Datagram
  PROVE  LET t == SendDatagrams(s, to, D)
         IN /\ NodeInv(t) /\ t.delayed = s.delayed
            /\ \A o \in DataOut(t) : \E x \in D : x.ttl > 0 /\ o = Sent(to, x)
<1> DEFINE F == {Sent(to, x) : x \in {e \in D : e.ttl > 0}}
           t == SendDatagrams(s, to, D)
<1>1. t = [s EXCEPT !.out = @ \cup F]
  BY DEF SendDatagrams, Sent
<1>2. \A o \in F : /\ o \in [to : Node \cup {Nobody, Everybody}, msg : Message]
                   /\ o.to = to /\ o.msg.type = "DATA"
  BY SentType
<1>3. \A o \in F : \E x \in D : x.ttl > 0 /\ o = Sent(to, x)
  OBVIOUS
<1> HIDE DEF F, t
<1>4. F \in SUBSET [to : Node \cup {Nobody, Everybody}, msg : Message]
  BY <1>2
<1>5. t \in NodeState /\ t.out = s.out \cup F /\ t.routes = s.routes /\ t.wait = s.wait
      /\ t.delayed = s.delayed /\ t.rrepAckTimer = s.rrepAckTimer
      /\ t.failedNextHop = s.failedNextHop
  BY <1>1, <1>4 DEF NodeInv, NodeState
<1>6. NodeInv(t)
  BY <1>2, <1>5, NodesAreNodes DEF NodeInv
<1>7. \A o \in DataOut(t) : \E x \in D : x.ttl > 0 /\ o = Sent(to, x)
  BY <1>3, <1>5 DEF DataOut
<1> QED
  BY <1>5, <1>6, <1>7 DEF t

\* So that the datagrams D, which it has got or held, are carried.
LEMMA SendDatagramsCarries ==
  ASSUME NEW s, NodeInv(s), DataOut(s) = {}, NEW to \in Node, NEW D \in SUBSET Datagram, Distinct(D),
         NEW a, NEW I, D \subseteq a.delayed \cup I, s.delayed \subseteq a.delayed \cup I,
         D \cap s.delayed = {}
  PROVE  Carries(a, SendDatagrams(s, to, D), I)
<1> DEFINE t == SendDatagrams(s, to, D)
<1>1. /\ NodeInv(t) /\ t.delayed = s.delayed
      /\ \A o \in DataOut(t) : \E x \in D : x.ttl > 0 /\ o = Sent(to, x)
  BY SendDatagramsFacts
<1> HIDE DEF t
<1>2. ASSUME NEW o \in DataOut(t)
      PROVE  \E x \in a.delayed \cup I : x \notin t.delayed /\ Same(x, o.msg.data)
  <2>1. PICK x \in D : x.ttl > 0 /\ o = Sent(to, x)
    BY <1>1
  <2>2. Same(x, o.msg.data)
    BY <2>1, SentType
  <2>3. x \in a.delayed \cup I /\ x \notin t.delayed
    BY <1>1
  <2> QED
    BY <2>2, <2>3
<1>3. ASSUME NEW o \in DataOut(t), NEW q \in DataOut(t), Same(o.msg.data, q.msg.data)
      PROVE  o = q
  <2>1. PICK x \in D : x.ttl > 0 /\ o = Sent(to, x)
    BY <1>1
  <2>2. PICK y \in D : y.ttl > 0 /\ q = Sent(to, y)
    BY <1>1
  <2>3. Same(x, o.msg.data) /\ Same(y, q.msg.data)
    BY <2>1, <2>2, SentType
  <2>4. Same(x, y)
    BY <1>3, <2>3 DEF Same
  <2>5. x = y
    BY <2>4 DEF Distinct
  <2> QED
    BY <2>1, <2>2, <2>5
<1> QED
  BY <1>1, <1>2, <1>3 DEF Carries, t

\* A discovery that is complete sends what waited for it.
LEMMA CompleteRouteDiscoveryCarries ==
  ASSUME NEW s, NodeInv(s), s.out = {}, Distinct(s.delayed), NEW dest \in Node,
         s.routes[dest].state # "none"
  PROVE  Carries(s, CompleteRouteDiscovery(s, dest), {})
<1> DEFINE ready == {d \in s.delayed : d.dst = dest}
           rest == s.delayed \ ready
           a == [s EXCEPT !.wait[dest] = NoWait]
           b == [s EXCEPT !.delayed = rest, !.wait[dest] = NoWait]
           to == s.routes[dest].nextHop
<1>1. s.delayed \in SUBSET Datagram
  BY DEF NodeInv, NodeState
<1>2. to \in Node
  BY DEF NodeInv, NodeState, Route
<1>3. Kept(s, a)
  BY WaitKept DEF NoWait, Wait
<1>4. /\ b \in NodeState /\ b.out = a.out /\ b.routes = a.routes /\ b.wait = a.wait
      /\ b.delayed = rest /\ b.rrepAckTimer = a.rrepAckTimer /\ b.failedNextHop = a.failedNextHop
  <2>1. NodeInv(a) /\ a.delayed = s.delayed /\ rest \in SUBSET Datagram
    BY <1>1, <1>3 DEF Kept
  <2>2. b = [a EXCEPT !.delayed = rest]
    <3> HIDE DEF rest
    <3> QED
      BY DEF NodeInv, NodeState
  <2> HIDE DEF a, b, rest
  <2> QED
    BY <2>1, <2>2 DEF NodeInv, NodeState
<1>5. NodeInv(b) /\ b.out = {}
  <2>1. NodeInv(a)
    BY <1>3 DEF Kept
  <2>2. a.out = {}
    OBVIOUS
  <2> HIDE DEF a, b
  <2> QED
    BY <1>4, <2>1, <2>2 DEF NodeInv
<1>6. ready \in SUBSET Datagram /\ ready \cap rest = {} /\ Distinct(ready)
      /\ ready \subseteq s.delayed \cup {} /\ rest \subseteq s.delayed \cup {}
  BY <1>1 DEF Distinct
<1>7. CompleteRouteDiscovery(s, dest) = SendDatagrams(b, to, ready)
  BY DEF CompleteRouteDiscovery
<1> HIDE DEF a, b, ready, rest, to
<1>8. DataOut(b) = {}
  BY <1>5 DEF DataOut
<1> QED
  BY <1>2, <1>4, <1>5, <1>6, <1>7, <1>8, SendDatagramsCarries

\* A datagram is held back.
LEMMA DelayedFacts ==
  ASSUME NEW s, NodeInv(s), NEW d \in Datagram
  PROVE  LET t == [s EXCEPT !.delayed = @ \cup {d}]
         IN NodeInv(t) /\ t.out = s.out /\ t.delayed = s.delayed \cup {d} /\ t.wait = s.wait
<1> DEFINE t == [s EXCEPT !.delayed = @ \cup {d}]
<1>1. /\ t \in NodeState /\ t.out = s.out /\ t.routes = s.routes /\ t.wait = s.wait
      /\ t.delayed = s.delayed \cup {d} /\ t.rrepAckTimer = s.rrepAckTimer
      /\ t.failedNextHop = s.failedNextHop
  BY DEF NodeInv, NodeState
<1> HIDE DEF t
<1>2. NodeInv(t)
  BY <1>1 DEF NodeInv
<1> QED
  BY <1>1, <1>2 DEF t

\* A datagram of this node goes on its way, or waits for a route.
LEMMA EnsureRouteCarries ==
  ASSUME NEW s, NodeInv(s), s.out = {}, NEW n \in Node, NEW d \in Datagram, d \notin s.delayed
  PROVE  Carries(s, EnsureRoute(n, s, d), {d})
<1> DEFINE t == [s EXCEPT !.delayed = @ \cup {d}]
           r == s.routes[d.dst]
<1>1. d.dst \in Node
  BY DEF Datagram
<1>2. NodeInv(t) /\ t.out = {} /\ t.delayed = s.delayed \cup {d}
  BY DelayedFacts
<1> HIDE DEF t
<1>3. Carries(s, t, {d})
  BY <1>2 DEF Carries, DataOut
<1>4. CASE r.state = "active"
  <2>1. r.nextHop \in Node
    BY <1>1, <1>4 DEF NodeInv, NodeState, Route
  <2>2. /\ {d} \in SUBSET Datagram /\ Distinct({d}) /\ {d} \subseteq s.delayed \cup {d}
        /\ s.delayed \subseteq s.delayed \cup {d} /\ {d} \cap s.delayed = {}
    BY DEF Distinct
  <2>3. DataOut(s) = {}
    BY DEF DataOut
  <2>4. EnsureRoute(n, s, d) = SendDatagrams(s, r.nextHop, {d})
    BY <1>4 DEF EnsureRoute
  <2> HIDE DEF r
  <2> QED
    BY <2>1, <2>2, <2>3, <2>4, SendDatagramsCarries
<1>5. CASE r.state # "active" /\ s.wait[d.dst].state # "none"
  BY <1>3, <1>5 DEF EnsureRoute, t
<1>6. CASE r.state # "active" /\ s.wait[d.dst].state = "none"
  <2>1. EnsureRoute(n, s, d) = StartRouteDiscovery(n, t, d.dst)
    BY <1>6 DEF EnsureRoute, t
  <2>2. Kept(t, StartRouteDiscovery(n, t, d.dst))
    BY <1>1, <1>2, StartRouteDiscoveryKept
  <2> QED
    BY <1>3, <2>1, <2>2, CarriesThenKept
<1> QED
  BY <1>4, <1>5, <1>6

-----------------------------------------------------------------------------
(* handleRREQ() *)

\* What is known of a route that is there.
LEMMA RouteFacts ==
  ASSUME NEW s, NodeInv(s), NEW d \in Node
  PROVE  /\ s.routes[d] \in Route
         /\ s.routes[d].destSeqNum \in Nat /\ s.routes[d].hopCount \in Nat
         /\ s.routes[d].validDestNum \in BOOLEAN
         /\ s.routes[d].state \in {"none", "active", "inactive"}
         /\ s.routes[d].state # "none" => s.routes[d].nextHop \in Node
BY DEF NodeInv, NodeState, Route

\* The timer of an acknowledgment is set for a node.
LEMMA AckTimerKept ==
  ASSUME NEW s, NodeInv(s), NEW h \in Node
  PROVE  Kept(s, [s EXCEPT !.failedNextHop = h, !.rrepAckTimer = TRUE])
<1> DEFINE t == [s EXCEPT !.failedNextHop = h, !.rrepAckTimer = TRUE]
<1>1. /\ t \in NodeState /\ t.out = s.out /\ t.routes = s.routes /\ t.wait = s.wait
      /\ t.delayed = s.delayed /\ t.failedNextHop # Nobody
  BY NodesAreNodes DEF NodeInv, NodeState
<1> HIDE DEF t
<1> QED
  BY <1>1, OthersKept DEF t

\* A reply goes back along the route to the originator.
LEMMA SendRREPKept ==
  ASSUME NEW s, NodeInv(s), NEW rrep \in RREP, s.routes[rrep.orig].state # "none"
  PROVE  Kept(s, SendRREP(s, rrep))
<1> DEFINE r == s.routes[rrep.orig]
           t == AddPrecursor(s, rrep.orig, r.nextHop)
           u == [t EXCEPT !.failedNextHop = r.nextHop, !.rrepAckTimer = TRUE]
           m == [rrep EXCEPT !.ack = TRUE]
<1>1. rrep.orig \in Node
  BY DEF RREP
<1>2. r.nextHop \in Node
  BY <1>1, RouteFacts
<1>3. rrep \in Message /\ rrep.type # "DATA" /\ m \in Message /\ m.type # "DATA"
  BY DEF RREP, Message
<1>4. Kept(s, t)
  BY <1>1, <1>2, AddPrecursorKept
<1>5. SendRREP(s, rrep) \in {Unicast(t, r.nextHop, rrep), Unicast(u, r.nextHop, m)}
  BY DEF SendRREP
<1> HIDE DEF r, t, m
<1>6. Kept(t, u)
  BY <1>2, <1>4, AckTimerKept, KeptInv
<1> HIDE DEF u
<1>7. Kept(t, Unicast(t, r.nextHop, rrep))
  BY <1>2, <1>3, <1>4, UnicastKept, KeptInv
<1>8. Kept(u, Unicast(u, r.nextHop, m))
  BY <1>2, <1>3, <1>6, UnicastKept, KeptInv
<1> QED
  BY <1>4, <1>5, <1>6, <1>7, <1>8, KeptTwice

\* The reverse route is there afterwards.
LEMMA SetReverseRouteKept ==
  ASSUME NEW s, NodeInv(s), NEW from \in Node, NEW p \in RREQ
  PROVE  LET t == SetReverseRoute(s, from, p)
         IN Kept(s, t) /\ t.routes[p.orig].state # "none"
<1> DEFINE r == s.routes[p.orig]
           t == SetReverseRoute(s, from, p)
           k == Higher(r.destSeqNum, p.origSeq)
           a == SetRoute(s, p.orig, from, p.hops + 1, TRUE, p.origSeq)
           b == SetRoute(s, p.orig, from, p.hops + 1, TRUE, k)
<1>1. p.orig \in Node /\ p.origSeq \in Nat /\ p.hops + 1 \in Nat
  BY DEF RREQ
<1>2. k \in Nat
  BY <1>1, RouteFacts DEF Higher
<1>3. Kept(s, a) /\ a.routes[p.orig].state # "none"
  BY <1>1, SetRouteKept
<1>4. Kept(s, b) /\ b.routes[p.orig].state # "none"
  <2> HIDE DEF k
  <2> QED
    BY <1>1, <1>2, SetRouteKept
<1>5. r.state = "none" => t = a
  BY DEF SetReverseRoute
<1>6. r.state # "none" => t = b \/ t = s
  BY DEF SetReverseRoute
<1> HIDE DEF r, t, a, b
<1>7. Kept(s, s) /\ (r.state # "none" => s.routes[p.orig].state # "none")
  BY KeptItself DEF r
<1> QED
  BY <1>3, <1>4, <1>5, <1>6, <1>7 DEF t

\* The destination answers,
LEMMA ReplyAsDestinationKept ==
  ASSUME NEW s, NodeInv(s), NEW p \in RREQ, s.routes[p.orig].state # "none"
  PROVE  Kept(s, ReplyAsDestination(s, p))
<1> DEFINE q == IF ~p.unknown /\ s.sequenceNum + 1 = p.destSeq THEN s.sequenceNum + 1
                ELSE s.sequenceNum
           t == [s EXCEPT !.sequenceNum = q]
           m == [type |-> "RREP", dest |-> p.dest, destSeq |-> q, orig |-> p.orig,
                 origSeq |-> p.origSeq, hops |-> 0, ack |-> FALSE]
<1>1. q \in Nat
  BY DEF NodeInv, NodeState
<1>2. ReplyAsDestination(s, p) = SendRREP(t, m)
  BY DEF ReplyAsDestination
<1> HIDE DEF q
<1>3. /\ t \in NodeState /\ t.out = s.out /\ t.routes = s.routes /\ t.wait = s.wait
      /\ t.delayed = s.delayed /\ t.rrepAckTimer = s.rrepAckTimer
      /\ t.failedNextHop = s.failedNextHop
  BY <1>1 DEF NodeInv, NodeState
<1>4. m \in RREP /\ m.orig = p.orig
  BY <1>1 DEF RREP, RREQ
<1> HIDE DEF t, m
<1>5. Kept(s, t)
  BY <1>3, OthersKept DEF NodeInv
<1>6. Kept(t, SendRREP(t, m))
  BY <1>3, <1>4, <1>5, SendRREPKept, KeptInv
<1> QED
  BY <1>2, <1>5, <1>6, KeptTwice

\* and so does a node on the way that knows a route, to both ends if asked to.
LEMMA SendRepliesKept ==
  ASSUME NEW s, NodeInv(s), NEW from \in Node, NEW p \in RREQ,
         s.routes[p.orig].state # "none", s.routes[p.dest].state # "none"
  PROVE  Kept(s, SendReplies(s, from, p))
<1> DEFINE r == s.routes[p.dest]
           h == s.routes[p.orig].hopCount
           a == AddPrecursor(s, p.dest, from)
           t == AddPrecursor(a, p.orig, r.nextHop)
           m == [type |-> "RREP", dest |-> p.dest, destSeq |-> r.destSeqNum,
                 orig |-> p.orig, origSeq |-> p.origSeq, hops |-> r.hopCount, ack |-> FALSE]
           u == SendRREP(t, m)
           g == [type |-> "RREP", dest |-> p.orig, destSeq |-> p.origSeq, orig |-> p.dest,
                 origSeq |-> 0, hops |-> h, ack |-> FALSE]
<1>1. p.orig \in Node /\ p.origSeq \in Nat /\ p.dest \in Node
  BY DEF RREQ
<1>2. r.nextHop \in Node /\ r.destSeqNum \in Nat /\ r.hopCount \in Nat /\ h \in Nat
  BY <1>1, RouteFacts
<1>3. SendReplies(s, from, p) \in {u, Unicast(u, r.nextHop, g)}
  BY DEF SendReplies
<1> HIDE DEF r, h
<1>4. m \in RREP /\ m.orig = p.orig
  BY <1>1, <1>2 DEF RREP
<1>5. g \in Message /\ g.type # "DATA"
  BY <1>1, <1>2 DEF RREP, Message
<1>6. Kept(s, a)
  BY <1>1, AddPrecursorKept
<1> HIDE DEF a, m, g
<1>7. Kept(a, t)
  BY <1>1, <1>2, <1>6, AddPrecursorKept, KeptInv
<1> HIDE DEF t
<1>8. Kept(t, u)
  <2>1. Kept(s, t)
    BY <1>6, <1>7, KeptTwice
  <2>2. t.routes[m.orig].state # "none"
    BY <1>1, <1>4, <2>1 DEF Kept
  <2> QED
    BY <1>4, <2>1, <2>2, SendRREPKept, KeptInv
<1> HIDE DEF u
<1>9. Kept(u, Unicast(u, r.nextHop, g))
  BY <1>2, <1>5, <1>8, UnicastKept, KeptInv
<1> QED
  BY <1>3, <1>6, <1>7, <1>8, <1>9, KeptTwice

\* A request is passed on.
LEMMA ForwardRREQKept ==
  ASSUME NEW s, NodeInv(s), NEW p \in RREQ
  PROVE  Kept(s, ForwardRREQ(s, p))
<1> DEFINE k == Higher(p.destSeq, s.routes[p.dest].destSeqNum)
           m == [p EXCEPT !.ttl = @ - 1, !.hops = @ + 1, !.unknown = FALSE, !.destSeq = k]
<1>1. p.dest \in Node /\ p.destSeq \in Nat /\ p.ttl \in Nat /\ p.hops \in Nat
  BY DEF RREQ
<1>2. k \in Nat
  BY <1>1, RouteFacts DEF Higher
<1>3. p.ttl = 0 \/ s.rebooted => ForwardRREQ(s, p) = s
  BY DEF ForwardRREQ
<1>4. ~(p.ttl = 0 \/ s.rebooted) => ForwardRREQ(s, p) = Broadcast(s, m)
  BY DEF ForwardRREQ
<1> HIDE DEF k
<1>5. p.ttl # 0 => m \in RREQ
  <2> SUFFICES ASSUME p.ttl # 0
               PROVE  m \in RREQ
    OBVIOUS
  <2> DEFINE i == p.ttl - 1
             j == p.hops + 1
             x == [p EXCEPT !.ttl = i, !.hops = j, !.destSeq = k]
  <2>1. i \in Nat /\ j \in Nat
    BY <1>1
  <2>2. m = [x EXCEPT !.unknown = FALSE]
    BY DEF RREQ
  <2> HIDE DEF i, j
  <2>3. x \in RREQ
    BY <1>2, <2>1 DEF RREQ
  <2> HIDE DEF x, m
  <2> QED
    BY <2>2, <2>3 DEF RREQ
<1> HIDE DEF m
<1>6. p.ttl # 0 => Kept(s, Broadcast(s, m))
  <2>1. RREQ \subseteq Message /\ \A x \in RREQ : x.type # "DATA"
    BY DEF Message, RREQ
  <2> QED
    BY <1>5, <2>1, BroadcastKept
<1> QED
  BY <1>3, <1>4, <1>6, KeptItself

\* A request arrives.
LEMMA HandleRREQKept ==
  ASSUME NEW s, NodeInv(s), NEW n \in Node, NEW from \in Node, NEW p \in RREQ
  PROVE  Kept(s, HandleRREQ(n, s, from, p))
<1> DEFINE a == SetPreviousHop(s, from, p.origSeq)
           c == [a EXCEPT !.arrived = @ \cup {p.id}]
           b == SetReverseRoute(c, from, p)
           r == b.routes[p.dest]
<1>1. p.origSeq \in Nat /\ p.id \in Nat /\ p.dest \in Node
  BY DEF RREQ
<1>2. Kept(s, a)
  BY <1>1, SetPreviousHopKept
<1>3. HandleRREQ(n, s, from, p) \in {s, a, ReplyAsDestination(b, p), ForwardRREQ(b, p)}
      \/ (r.state = "active" /\ HandleRREQ(n, s, from, p) = ReplyForDestination(b, from, p))
  BY DEF HandleRREQ
<1> HIDE DEF a
<1>4. Kept(a, c)
  <2>1. NodeInv(a)
    BY <1>2 DEF Kept
  <2>2. /\ c \in NodeState /\ c.out = a.out /\ c.routes = a.routes /\ c.wait = a.wait
        /\ c.delayed = a.delayed /\ c.rrepAckTimer = a.rrepAckTimer
        /\ c.failedNextHop = a.failedNextHop
    BY <1>1, <2>1 DEF NodeInv, NodeState
  <2> HIDE DEF c
  <2> QED
    BY <2>1, <2>2, OthersKept DEF NodeInv
<1> HIDE DEF c
<1>5. Kept(c, b) /\ b.routes[p.orig].state # "none"
  BY <1>4, SetReverseRouteKept, KeptInv
<1> HIDE DEF b
<1>6. NodeInv(b) /\ Kept(s, b)
  BY <1>2, <1>4, <1>5, KeptTwice, KeptInv
<1>7. Kept(b, ReplyAsDestination(b, p)) /\ Kept(b, ForwardRREQ(b, p))
  BY <1>5, <1>6, ReplyAsDestinationKept, ForwardRREQKept
<1>8. r.state = "active" => Kept(b, ReplyForDestination(b, from, p))
  BY <1>5, <1>6, SendRepliesKept, KeptItself DEF ReplyForDestination
<1> QED
  BY <1>2, <1>3, <1>6, <1>7, <1>8, KeptTwice, KeptItself

-----------------------------------------------------------------------------
(* handleRREP() and the other control messages *)

\* A reply is passed on to the originator.
LEMMA ForwardRREPKept ==
  ASSUME NEW s, NodeInv(s), NEW from \in Node, NEW p \in RREP, s.routes[p.dest].state # "none"
  PROVE  Kept(s, ForwardRREP(s, from, p))
<1> DEFINE back == s.routes[p.orig]
           ahead == s.routes[p.dest].nextHop
           k == [type |-> "RREPACK"]
           acked == IF p.ack THEN Unicast(s, from, k) ELSE s
           c == Check(acked, s.routes[ahead].state # "none", "nextHop")
           t == AddPrecursor(c, p.dest, back.nextHop)
           u == AddPrecursor(t, ahead, back.nextHop)
           m == [p EXCEPT !.hops = @ + 1, !.ack = FALSE]
<1>1. p.orig \in Node /\ p.dest \in Node /\ p.hops \in Nat
  BY DEF RREP
<1>2. ahead \in Node /\ (back.state # "none" => back.nextHop \in Node)
  BY <1>1, RouteFacts
<1>3. k \in Message /\ k.type # "DATA" /\ m \in Message /\ m.type # "DATA"
  <2> DEFINE x == [p EXCEPT !.hops = @ + 1]
  <2>1. x \in RREP
    BY <1>1 DEF RREP
  <2>2. m = [x EXCEPT !.ack = FALSE]
    BY DEF RREP
  <2> HIDE DEF x, m
  <2>3. m \in RREP
    BY <2>1, <2>2 DEF RREP
  <2> QED
    BY <2>3 DEF RREPACK, RREP, Message
<1>4. \/ ForwardRREP(s, from, p) = s
      \/ back.state # "none" /\ ForwardRREP(s, from, p) = Unicast(u, back.nextHop, m)
  BY DEF ForwardRREP
<1>5. Kept(s, acked)
  <2> HIDE DEF k
  <2> QED
    BY <1>3, UnicastKept, KeptItself
<1> HIDE DEF acked, back, ahead, m
<1>6. Kept(acked, c)
  BY <1>5, CheckKept, KeptInv DEF Failures
<1> HIDE DEF c
<1>7. ASSUME back.state # "none"
      PROVE  Kept(c, Unicast(u, back.nextHop, m))
  <2>1. back.nextHop \in Node
    BY <1>2, <1>7
  <2>2. Kept(c, t)
    BY <1>1, <1>6, <2>1, AddPrecursorKept, KeptInv
  <2> HIDE DEF t
  <2>3. Kept(t, u)
    BY <1>2, <2>1, <2>2, AddPrecursorKept, KeptInv
  <2> HIDE DEF u
  <2>4. Kept(u, Unicast(u, back.nextHop, m))
    BY <1>3, <2>1, <2>3, UnicastKept, KeptInv
  <2> QED
    BY <2>2, <2>3, <2>4, KeptTwice
<1> QED
  BY <1>4, <1>5, <1>6, <1>7, KeptItself, KeptTwice

\* The route of a reply is entered.
LEMMA TakenKept ==
  ASSUME NEW s, NodeInv(s), NEW from \in Node, NEW p \in RREP
  PROVE  LET t == SetRoute(s, p.dest, from, p.hops + 1, TRUE, p.destSeq)
         IN Kept(s, t) /\ t.routes[p.dest].state = "active" /\ t.out = s.out
<1> DEFINE yes == TRUE
           far == p.hops + 1
           dest == p.dest
           seq == p.destSeq
           t == SetRoute(s, dest, from, far, yes, seq)
<1>1. yes \in BOOLEAN
  OBVIOUS
<1>2. far \in Nat
  BY DEF RREP
<1>3. dest \in Node
  BY DEF RREP
<1>4. seq \in Nat
  BY DEF RREP
<1> HIDE DEF yes, far, dest, seq
<1>5. Kept(s, t) /\ t.routes[dest].state = "active"
  BY <1>1, <1>2, <1>3, <1>4, SetRouteKept
<1>6. t.out = s.out
  BY DEF SetRoute, NodeInv, NodeState
<1> QED
  BY <1>5, <1>6 DEF yes, far, dest, seq

\* A reply arrives.  At the originator it ends the discovery.
LEMMA HandleRREPCarries ==
  ASSUME NEW s, NodeInv(s), s.out = {}, Distinct(s.delayed),
         NEW n \in Node, NEW from \in Node, NEW p \in RREP
  PROVE  Carries(s, HandleRREP(n, s, from, p), {})
<1> DEFINE a == SetPreviousHop(s, from, p.origSeq)
           taken(t) == SetRoute(t, p.dest, from, p.hops + 1, TRUE, p.destSeq)
           b == IF IsBetter(a.routes[p.dest], p) THEN taken(a) ELSE a
<1>1. /\ p.origSeq \in Nat /\ p.dest \in Node /\ p.destSeq \in Nat /\ p.hops + 1 \in Nat
  BY DEF RREP
<1>2. HandleRREP(n, s, from, p) \in {ForwardRREP(b, from, p), b, CompleteRouteDiscovery(taken(b), p.dest)}
  BY DEF HandleRREP
<1>3. Kept(s, a)
  BY <1>1, SetPreviousHopKept
<1>4. a.out = {}
  BY DEF SetPreviousHop, SetRoute
<1> HIDE DEF a
<1>5. NodeInv(a)
  BY <1>3 DEF Kept
<1>6. ASSUME NEW x, NodeInv(x)
      PROVE  Kept(x, taken(x)) /\ taken(x).routes[p.dest].state = "active" /\ taken(x).out = x.out
  BY <1>6, TakenKept
<1>7. Kept(a, b) /\ b.routes[p.dest].state # "none" /\ b.out = {}
  BY <1>4, <1>5, <1>6, KeptItself DEF IsBetter
<1> HIDE DEF b
<1>8. NodeInv(b) /\ Kept(s, b)
  BY <1>3, <1>7, KeptTwice, KeptInv
<1>9. Kept(b, taken(b)) /\ taken(b).routes[p.dest].state = "active" /\ taken(b).out = {}
  BY <1>6, <1>7, <1>8
<1>10. Kept(s, ForwardRREP(b, from, p))
  BY <1>7, <1>8, ForwardRREPKept, KeptTwice
<1>11. Carries(s, b, {}) /\ Carries(s, ForwardRREP(b, from, p), {})
  BY <1>8, <1>10, KeptCarries
<1> DEFINE d == taken(b)
<1> HIDE DEF d
<1>12. Kept(s, d) /\ NodeInv(d) /\ d.out = {} /\ d.routes[p.dest].state # "none"
  BY <1>8, <1>9, KeptTwice DEF d, Kept
<1>13. Distinct(d.delayed)
  BY <1>12 DEF Kept
<1>14. Carries(d, CompleteRouteDiscovery(d, p.dest), {})
  BY <1>1, <1>12, <1>13, CompleteRouteDiscoveryCarries
<1>15. Carries(s, CompleteRouteDiscovery(d, p.dest), {})
  BY <1>12, <1>14, KeptThenCarries
<1> QED
  BY <1>2, <1>11, <1>15 DEF d

\* A hello is sent,
LEMMA SendHelloKept ==
  ASSUME NEW s, NodeInv(s), NEW n \in Node
  PROVE  Kept(s, SendHello(n, s))
<1> DEFINE m == [type |-> "HELLO", dest |-> n, destSeq |-> s.sequenceNum]
<1>1. m \in Message /\ m.type # "DATA"
  BY DEF NodeInv, NodeState, HELLO, Message
<1>2. SendHello(n, s) \in {s, Broadcast(s, m)}
  BY DEF SendHello
<1> HIDE DEF m
<1> QED
  BY <1>1, <1>2, BroadcastKept, KeptItself

\* or heard.
LEMMA HandleHelloKept ==
  ASSUME NEW s, NodeInv(s), NEW p \in HELLO
  PROVE  Kept(s, HandleHello(s, p))
<1>1. p.dest \in Node /\ p.destSeq \in Nat
  BY DEF HELLO
<1> QED
  BY <1>1, SetRouteKept DEF HandleHello

\* An acknowledgment makes the route active again.
LEMMA HandleRREPACKKept ==
  ASSUME NEW s, NodeInv(s), NEW from \in Node
  PROVE  Kept(s, HandleRREPACK(s, from))
<1> DEFINE t == Check(s, s.rrepAckTimer, "rrepAck")
           r == [t.routes[from] EXCEPT !.state = "active"]
           u == WithRoute(t, from, r)
           v == [u EXCEPT !.rrepAckTimer = FALSE]
<1>1. Kept(s, t) /\ t.routes = s.routes
  <2>1. s.rrepAckTimer \in BOOLEAN
    BY DEF NodeInv, NodeState
  <2> QED
    BY <2>1, CheckKept DEF Failures
<1>2. /\ s.routes[from].state = "none" => HandleRREPACK(s, from) = t
      /\ s.routes[from].state # "none" => HandleRREPACK(s, from) = v
  <2>1. v = [t EXCEPT !.routes[from].state = "active", !.rrepAckTimer = FALSE]
    BY DEF WithRoute
  <2> HIDE DEF v
  <2> QED
    BY <2>1 DEF HandleRREPACK
<1> HIDE DEF t
<1>3. NodeInv(t)
  BY <1>1 DEF Kept
<1>4. CASE s.routes[from].state # "none"
  <2>1. r \in Route /\ r.state = "active" /\ r.nextHop # Nobody
    BY <1>1, <1>3, <1>4, NodesAreNodes, RouteFacts DEF Route
  <2> HIDE DEF r
  <2>2. Kept(t, u)
    BY <1>3, <1>4, <2>1, RouteKept
  <2> HIDE DEF u
  <2>3. NodeInv(u)
    BY <2>2 DEF Kept
  <2>4. /\ v \in NodeState /\ v.out = u.out /\ v.routes = u.routes /\ v.wait = u.wait
        /\ v.delayed = u.delayed /\ ~v.rrepAckTimer
    BY <2>3 DEF NodeInv, NodeState
  <2> HIDE DEF v
  <2>5. Kept(u, v)
    BY <2>3, <2>4, OthersKept
  <2> QED
    BY <1>1, <1>2, <1>4, <2>2, <2>5, KeptTwice
<1> QED
  BY <1>1, <1>2, <1>4

\* The timer of an acknowledgment expires, and that of the blacklist.
LEMMA HandleRREPACKTimerKept ==
  ASSUME NEW s, NodeInv(s), s.rrepAckTimer
  PROVE  Kept(s, HandleRREPACKTimer(s))
<1> DEFINE t == HandleRREPACKTimer(s)
<1>1. s.failedNextHop \in Node
  BY DEF NodeInv, NodeState
<1>2. /\ t \in NodeState /\ t.out = s.out /\ t.routes = s.routes /\ t.wait = s.wait
      /\ t.delayed = s.delayed /\ ~t.rrepAckTimer
  BY <1>1 DEF HandleRREPACKTimer, NodeInv, NodeState
<1> HIDE DEF t
<1> QED
  BY <1>2, OthersKept DEF t

\* Nodes leave the blacklist.
LEMMA HandleBlackListTimerKept ==
  ASSUME NEW s, NodeInv(s), NEW over
  PROVE  Kept(s, HandleBlackListTimer(s, over))
<1> DEFINE left == s.blacklist \ over
           t == [s EXCEPT !.blacklist = left, !.blacklistTimer = left # {}]
<1>1. left \in SUBSET Node /\ (left # {}) \in BOOLEAN
  BY DEF NodeInv, NodeState
<1>2. HandleBlackListTimer(s, over) = t
  BY DEF HandleBlackListTimer, NodeInv, NodeState
<1> HIDE DEF left
<1>3. /\ t \in NodeState /\ t.out = s.out /\ t.routes = s.routes /\ t.wait = s.wait
      /\ t.delayed = s.delayed /\ t.rrepAckTimer = s.rrepAckTimer
      /\ t.failedNextHop = s.failedNextHop
  BY <1>1 DEF NodeInv, NodeState
<1> HIDE DEF t
<1> QED
  BY <1>2, <1>3, OthersKept DEF NodeInv

\* Routes are told to be lost,
LEMMA SendRERRKept ==
  ASSUME NEW s, NodeInv(s), NEW lost \in SUBSET Node, NEW seqs, \A d \in lost : seqs[d] \in Nat
  PROVE  Kept(s, SendRERR(s, lost, seqs))
<1> DEFINE f == [d \in Node |-> IF d \in lost THEN seqs[d] ELSE 0]
           m == [type |-> "RERR", lost |-> lost, seqs |-> f]
           t == [s EXCEPT !.rerrCount = @ + 1]
<1>1. f \in [Node -> Nat]
  OBVIOUS
<1>2. SendRERR(s, lost, seqs) \in {s, Broadcast(t, m)}
  BY DEF SendRERR
<1> HIDE DEF f
<1>3. m \in Message /\ m.type # "DATA"
  BY <1>1 DEF RERR, Message
<1> HIDE DEF m
<1>4. /\ t \in NodeState /\ t.out = s.out /\ t.routes = s.routes /\ t.wait = s.wait
      /\ t.delayed = s.delayed /\ t.rrepAckTimer = s.rrepAckTimer
      /\ t.failedNextHop = s.failedNextHop
  BY DEF NodeInv, NodeState
<1> HIDE DEF t
<1>5. Kept(s, t)
  BY <1>4, OthersKept DEF NodeInv
<1>6. Kept(t, Broadcast(t, m))
  BY <1>3, <1>5, BroadcastKept, KeptInv
<1> QED
  BY <1>2, <1>5, <1>6, KeptTwice, KeptItself

\* by the node that sees a neighbour go,
LEMMA HandleLinkBreakKept ==
  ASSUME NEW s, NodeInv(s), NEW dest \in Node
  PROVE  Kept(s, HandleLinkBreak(s, dest))
<1> DEFINE gone == s.routes[dest].nextHop
           via == {d \in Node : s.routes[d].state # "none" /\ s.routes[d].nextHop = gone}
           seqs == [d \in Node |-> s.routes[d].destSeqNum
                                     + IF d \in via /\ s.routes[d].validDestNum THEN 1 ELSE 0]
           f == [d \in Node |-> IF d \in via THEN Invalidated(s.routes[d], seqs[d])
                                ELSE s.routes[d]]
           t == [s EXCEPT !.routes = f]
<1>1. /\ HandleLinkBreak(s, dest) \in {s, SendRERR(t, via \cup {gone}, seqs)}
      /\ s.routes[dest].state = "none" => HandleLinkBreak(s, dest) = s
  BY DEF HandleLinkBreak
<1>2. s.routes[dest].state # "none" => gone \in Node
  BY RouteFacts
<1>3. via \in SUBSET Node
  OBVIOUS
<1>4. \A d \in Node : seqs[d] \in Nat
  <2> HIDE DEF via
  <2> QED
    BY RouteFacts
<1> HIDE DEF seqs, via, gone
<1>5. \A d \in Node : /\ f[d] \in Route
                      /\ s.routes[d].state # "none" => f[d].state # "none"
                      /\ f[d].state # "none" => f[d].nextHop # Nobody
  <2> SUFFICES ASSUME NEW d \in Node
               PROVE  /\ f[d] \in Route
                      /\ s.routes[d].state # "none" => f[d].state # "none"
                      /\ f[d].state # "none" => f[d].nextHop # Nobody
    OBVIOUS
  <2>1. d \in via => s.routes[d].state # "none"
    BY DEF via
  <2>2. s.routes[d] \in Route /\ (s.routes[d].state # "none" => s.routes[d].nextHop # Nobody)
    BY RouteFacts, NodesAreNodes
  <2> QED
    BY <1>4, <2>1, <2>2 DEF Invalidated, Route
<1>6. f \in [Node -> Route]
  BY <1>5
<1> HIDE DEF f
<1>7. Kept(s, t)
  BY <1>5, <1>6, RoutesKept
<1> HIDE DEF t
<1>8. gone \in Node => Kept(t, SendRERR(t, via \cup {gone}, seqs))
  BY <1>3, <1>4, <1>7, SendRERRKept, KeptInv
<1> QED
  BY <1>1, <1>2, <1>7, <1>8, KeptTwice, KeptItself

\* and on to those who use them.
LEMMA HandleRERRKept ==
  ASSUME NEW s, NodeInv(s), NEW from \in Node, NEW p \in RERR
  PROVE  Kept(s, HandleRERR(s, from, p))
<1> DEFINE via == {d \in p.lost : s.routes[d].state # "none" /\ s.routes[d].nextHop = from}
           told == {d \in via : s.routes[d].precursors # {}}
           f == [d \in Node |-> IF d \in via THEN Invalidated(s.routes[d], p.seqs[d])
                                ELSE s.routes[d]]
           t == [s EXCEPT !.routes = f]
<1>1. p.lost \in SUBSET Node /\ p.seqs \in [Node -> Nat]
  BY DEF RERR
<1>2. HandleRERR(s, from, p) \in {t, SendRERR(t, told, p.seqs)}
  <2>1. t = [s EXCEPT !.routes = [d \in Node |-> IF d \in via THEN Invalidated(@[d], p.seqs[d])
                                                 ELSE @[d]]]
    OBVIOUS
  <2> HIDE DEF t
  <2> QED
    BY <2>1 DEF HandleRERR
<1>3. via \in SUBSET Node /\ told \in SUBSET Node /\ \A d \in told : p.seqs[d] \in Nat
  BY <1>1
<1>4. \A d \in via : s.routes[d].state # "none"
  OBVIOUS
<1> HIDE DEF via, told
<1>5. \A d \in Node : /\ f[d] \in Route
                      /\ s.routes[d].state # "none" => f[d].state # "none"
                      /\ f[d].state # "none" => f[d].nextHop # Nobody
  <2> SUFFICES ASSUME NEW d \in Node
               PROVE  /\ f[d] \in Route
                      /\ s.routes[d].state # "none" => f[d].state # "none"
                      /\ f[d].state # "none" => f[d].nextHop # Nobody
    OBVIOUS
  <2>1. d \in via => s.routes[d].state # "none"
    BY <1>4
  <2>2. s.routes[d] \in Route /\ (s.routes[d].state # "none" => s.routes[d].nextHop # Nobody)
    BY RouteFacts, NodesAreNodes
  <2>3. p.seqs[d] \in Nat
    BY <1>1
  <2> QED
    BY <2>1, <2>2, <2>3 DEF Invalidated, Route
<1>6. f \in [Node -> Route]
  BY <1>5
<1> HIDE DEF f
<1>7. Kept(s, t)
  BY <1>5, <1>6, RoutesKept
<1> HIDE DEF t
<1>8. Kept(t, SendRERR(t, told, p.seqs))
  BY <1>3, <1>7, SendRERRKept, KeptInv
<1> QED
  BY <1>2, <1>7, <1>8, KeptTwice

-----------------------------------------------------------------------------
(* The hooks of IPv4, and what happens to a node *)

\* A datagram is forwarded, or dropped.
LEMMA ForwardDatagramCarries ==
  ASSUME NEW s, NodeInv(s), s.out = {}, NEW d \in Datagram, d \notin s.delayed
  PROVE  Carries(s, ForwardDatagram(s, d), {d})
<1> DEFINE r == s.routes[d.dst]
           seq == IF r.validDestNum THEN r.destSeqNum + 1 ELSE r.destSeqNum
           f == [e \in Node |-> IF r.validDestNum THEN seq ELSE 0]
           q == [r EXCEPT !.destSeqNum = seq]
           a == WithRoute(s, d.dst, q)
           t == SendRERR(a, {d.dst}, f)
           u == IF r.state = "active" THEN s ELSE t
<1>1. d.dst \in Node
  BY DEF Datagram
<1>2. r \in Route /\ r.destSeqNum \in Nat /\ (r.state # "none" => r.nextHop \in Node)
  BY <1>1, RouteFacts
<1>3. seq \in Nat
  BY <1>2
<1>4. r.state = "none" => ForwardDatagram(s, d) = s
  BY DEF ForwardDatagram
<1>5. r.state # "none" => ForwardDatagram(s, d) = SendDatagrams(u, r.nextHop, {d})
  <2>1. a = [s EXCEPT !.routes[d.dst].destSeqNum = seq]
    BY DEF WithRoute
  <2> HIDE DEF a
  <2> QED
    BY <2>1 DEF ForwardDatagram
<1> HIDE DEF seq
<1>6. q \in Route /\ q.state = r.state /\ q.nextHop = r.nextHop
  BY <1>2, <1>3 DEF Route
<1>7. q.state # "none" => q.nextHop # Nobody
  BY <1>2, <1>6, NodesAreNodes
<1>8. {d.dst} \in SUBSET Node /\ \A e \in {d.dst} : f[e] \in Nat
  BY <1>1, <1>3
<1> HIDE DEF q, f
<1>9. s.routes[d.dst].state # "none" => q.state # "none"
  BY <1>6
<1>10. Kept(s, a)
  BY <1>1, <1>6, <1>7, <1>9, RouteKept
<1> HIDE DEF a
<1>11. Kept(a, t)
  BY <1>8, <1>10, SendRERRKept, KeptInv
<1> HIDE DEF t, r
<1>12. Kept(s, u)
  BY <1>10, <1>11, KeptItself, KeptTwice
<1> HIDE DEF u
<1>13. NodeInv(u) /\ u.delayed = s.delayed /\ DataOut(u) = {}
  BY <1>12 DEF Kept, DataOut
<1>14. /\ {d} \in SUBSET Datagram /\ Distinct({d}) /\ {d} \subseteq s.delayed \cup {d}
       /\ u.delayed \subseteq s.delayed \cup {d} /\ {d} \cap u.delayed = {}
  BY <1>13 DEF Distinct
<1>15. r.state # "none" => Carries(s, SendDatagrams(u, r.nextHop, {d}), {d})
  BY <1>2, <1>13, <1>14, SendDatagramsCarries
<1>16. Carries(s, s, {d})
  BY KeptItself, KeptCarries
<1> QED
  BY <1>4, <1>5, <1>15, <1>16

\* A datagram arrives.
LEMMA HandleDatagramCarries ==
  ASSUME NEW s, NodeInv(s), s.out = {}, NEW n \in Node, NEW d \in Datagram, d \notin s.delayed
  PROVE  Carries(s, HandleDatagram(n, s, d), {d})
<1>1. Carries(s, s, {d})
  BY KeptItself, KeptCarries
<1>2. HandleDatagram(n, s, d) \in {s, EnsureRoute(n, s, d), ForwardDatagram(s, d)}
  BY DEF HandleDatagram
<1> QED
  BY <1>1, <1>2, EnsureRouteCarries, ForwardDatagramCarries

\* A message arrives.
LEMMA HandleCarries ==
  ASSUME NEW s, NodeInv(s), s.out = {}, Distinct(s.delayed), NEW n \in Node, NEW from \in Node,
         NEW p \in Message, p.type = "DATA" => p.data \notin s.delayed
  PROVE  Carries(s, Handle(n, s, from, p), IF p.type = "DATA" THEN {p.data} ELSE {})
<1>1. CASE p.type = "RREQ"
  BY <1>1, MessageKinds, HandleRREQKept, KeptCarries DEF Handle
<1>2. CASE p.type = "RREP"
  BY <1>2, MessageKinds, HandleRREPCarries DEF Handle
<1>3. CASE p.type = "HELLO"
  BY <1>3, MessageKinds, HandleHelloKept, KeptCarries DEF Handle
<1>4. CASE p.type = "RERR"
  BY <1>4, MessageKinds, HandleRERRKept, KeptCarries DEF Handle
<1>5. CASE p.type = "RREPACK"
  BY <1>5, HandleRREPACKKept, KeptCarries DEF Handle
<1>6. CASE p.type = "DATA"
  <2>1. p.data \in Datagram
    BY <1>6, MessageKinds DEF DATA
  <2>2. Handle(n, s, from, p) = HandleDatagram(n, s, p.data)
    BY <1>6 DEF Handle
  <2> QED
    BY <1>6, <2>1, <2>2, HandleDatagramCarries
<1> QED
  BY <1>1, <1>2, <1>3, <1>4, <1>5, <1>6, MessageKinds

\* A route grows old.
LEMMA ExpungeRouteCarries ==
  ASSUME NEW s, NodeInv(s), s.out = {}, NEW dest \in Node
  PROVE  Carries(s, ExpungeRoute(s, dest), {})
<1> DEFINE r == [s.routes[dest] EXCEPT !.state = "inactive"]
           a == WithRoute(s, dest, r)
           b == WithRoute(s, dest, NoRoute)
<1>1. s.routes[dest] \in Route
  BY RouteFacts
<1>2. \/ ExpungeRoute(s, dest) = s
      \/ s.routes[dest].state = "active" /\ ExpungeRoute(s, dest) = a
      \/ ExpungeRoute(s, dest) = b
  BY DEF ExpungeRoute, WithRoute
<1>3. s.routes[dest].state = "active" =>
        r \in Route /\ r.nextHop # Nobody /\ r.state # "none"
  BY <1>1, RouteFacts, NodesAreNodes DEF Route
<1> HIDE DEF r
<1>4. s.routes[dest].state = "active" => Carries(s, a, {})
  BY <1>3, RouteKept, KeptCarries
<1>5. Carries(s, s, {})
  BY KeptItself, KeptCarries
<1>6. Carries(s, b, {})
  <2>1. NoRoute \in Route /\ NoRoute.state = "none"
    BY DEF NoRoute, Route
  <2>2. /\ b \in NodeState /\ b.out = s.out /\ b.wait = s.wait /\ b.delayed = s.delayed
        /\ b.rrepAckTimer = s.rrepAckTimer /\ b.failedNextHop = s.failedNextHop
        /\ b.routes = [s.routes EXCEPT ![dest] = NoRoute]
    BY <2>1 DEF WithRoute, NodeInv, NodeState
  <2>3. s.routes \in [Node -> Route]
    BY DEF NodeInv, NodeState
  <2> HIDE DEF b
  <2>4. NodeInv(b)
    BY <2>1, <2>2, <2>3 DEF NodeInv
  <2> QED
    BY <2>2, <2>4 DEF Carries, DataOut
<1> HIDE DEF a, b
<1> QED
  BY <1>2, <1>4, <1>5, <1>6

\* A node starts with nothing,
LEMMA FreshNodeFacts == NodeInv(FreshNode) /\ FreshNode.out = {} /\ FreshNode.delayed = {}
<1>1. NoRoute \in Route /\ NoRoute.state = "none" /\ NoWait \in Wait /\ NoWait.state = "none"
  BY DEF NoRoute, Route, NoWait, Wait
<1>2. FreshNode \in NodeState
  BY <1>1 DEF FreshNode, NodeState
<1> QED
  BY <1>1, <1>2 DEF NodeInv, FreshNode

\* loses nearly all of it in a crash,
LEMMA ClearStateCarries ==
  ASSUME NEW s, NodeInv(s)
  PROVE  Carries(s, ClearState(s), {})
<1> DEFINE t == ClearState(s)
<1>1. FreshNode \in NodeState /\ s \in NodeState
  BY FreshNodeFacts DEF NodeInv
<1>2. /\ t \in NodeState /\ t.out = {} /\ t.routes = FreshNode.routes /\ t.wait = FreshNode.wait
      /\ t.delayed = {} /\ ~t.rrepAckTimer
  <2>1. FreshNode.out = {} /\ FreshNode.delayed = {} /\ ~FreshNode.rrepAckTimer
    BY DEF FreshNode
  <2> DEFINE g == s.rebooted
             h == s.blacklist
             i == s.failedNextHop
             x == [FreshNode EXCEPT !.rebooted = g, !.blacklist = h, !.failedNextHop = i]
  <2>2. g \in BOOLEAN /\ h \in SUBSET Node /\ i \in Node \cup {Nobody}
    BY <1>1 DEF NodeState
  <2>3. t = [x EXCEPT !.isOperational = FALSE]
    BY DEF ClearState, FreshNode
  <2> HIDE DEF g, h, i
  <2>4. /\ x \in NodeState /\ x.out = {} /\ x.routes = FreshNode.routes /\ x.wait = FreshNode.wait
        /\ x.delayed = {} /\ ~x.rrepAckTimer
    BY <1>1, <2>1, <2>2 DEF NodeState
  <2> HIDE DEF x, t
  <2> QED
    BY <2>3, <2>4 DEF NodeState
<1> HIDE DEF t
<1>3. NodeInv(t)
  BY <1>2, FreshNodeFacts DEF NodeInv
<1> QED
  BY <1>2, <1>3 DEF Carries, DataOut, t

\* and comes back.
LEMMA RestartedKept ==
  ASSUME NEW s, NodeInv(s)
  PROVE  Kept(s, Restarted(s))
<1> DEFINE t == Restarted(s)
<1>1. /\ t \in NodeState /\ t.out = s.out /\ t.routes = s.routes /\ t.wait = s.wait
      /\ t.delayed = s.delayed /\ t.rrepAckTimer = s.rrepAckTimer
      /\ t.failedNextHop = s.failedNextHop
  BY DEF Restarted, NodeInv, NodeState
<1> HIDE DEF t
<1> QED
  BY <1>1, OthersKept DEF NodeInv, t

\* The counters of the rate limits start again, and what is remembered of requests goes.
LEMMA CountersKept ==
  ASSUME NEW s, NodeInv(s), NEW id
  PROVE  /\ Kept(s, [s EXCEPT !.rreqCount = 0, !.rerrCount = 0])
         /\ Kept(s, [s EXCEPT !.arrived = @ \ {id}])
         /\ Kept(s, [s EXCEPT !.rebooted = FALSE])
<1>1. ASSUME NEW t, t = [s EXCEPT !.rreqCount = 0, !.rerrCount = 0]
      PROVE  Kept(s, t)
  <2>1. /\ t \in NodeState /\ t.out = s.out /\ t.routes = s.routes /\ t.wait = s.wait
        /\ t.delayed = s.delayed /\ t.rrepAckTimer = s.rrepAckTimer
        /\ t.failedNextHop = s.failedNextHop
    BY <1>1 DEF NodeInv, NodeState
  <2> QED
    BY <2>1, OthersKept DEF NodeInv
<1>2. ASSUME NEW t, t = [s EXCEPT !.arrived = @ \ {id}]
      PROVE  Kept(s, t)
  <2>1. /\ t \in NodeState /\ t.out = s.out /\ t.routes = s.routes /\ t.wait = s.wait
        /\ t.delayed = s.delayed /\ t.rrepAckTimer = s.rrepAckTimer
        /\ t.failedNextHop = s.failedNextHop
    BY <1>2 DEF NodeInv, NodeState
  <2> QED
    BY <2>1, OthersKept DEF NodeInv
<1>3. ASSUME NEW t, t = [s EXCEPT !.rebooted = FALSE]
      PROVE  Kept(s, t)
  <2>1. /\ t \in NodeState /\ t.out = s.out /\ t.routes = s.routes /\ t.wait = s.wait
        /\ t.delayed = s.delayed /\ t.rrepAckTimer = s.rrepAckTimer
        /\ t.failedNextHop = s.failedNextHop
    BY <1>3 DEF NodeInv, NodeState
  <2> QED
    BY <2>1, OthersKept DEF NodeInv
<1> QED
  BY <1>1, <1>2, <1>3

-----------------------------------------------------------------------------
(* Where the datagrams are *)

\* The place of a datagram that is held back at n,
Held(n, x) == [in |-> "delayed", at |-> n, what |-> x]
\* one on its way in the packet p,
OnAir(p) == [in |-> "net", at |-> p, what |-> p.msg.data]
\* and one that arrived.
There(x) == [in |-> "delivered", at |-> x, what |-> x]

\* The datagrams among packets
DataOf(nt) == {p \in nt : p.msg.type = "DATA"}

\* The places at one node,
HeldAt(nd, n) == {Held(n, x) : x \in nd[n].delayed}
\* on the medium,
AllOnAir(nt) == {OnAir(p) : p \in DataOf(nt)}
\* at the destinations,
AllThere(dl) == {There(x) : x \in dl}
\* and all of them.
Spots(nd, nt, dl) == (UNION {HeldAt(nd, n) : n \in Node}) \cup AllOnAir(nt) \cup AllThere(dl)

\* No datagram is in two of the places S.
Apart(S) == \A a, b \in S : Same(a.what, b.what) => a = b
\* Each datagram in S was sent.
Known(S, st) ==
  \A a \in S : /\ <<a.what.src, a.what.dst>> \in Flows
                /\ a.what.num \in 0 .. st[<<a.what.src, a.what.dst>>] - 1

\* Every datagram is in one place at most, and was sent.
Placed == Apart(Spots(node, net, delivered)) /\ Known(Spots(node, net, delivered), sent)
\* Between two events every node is well and has sent what it had to send.
Ready == \A n \in Node : NodeInv(node[n]) /\ node[n].out = {}
\* The inductive invariant.
AInv == TypeOK /\ Ready /\ Placed

\* What a place is.
LEMMA SpotFields ==
  /\ \A n, x : Held(n, x).in = "delayed" /\ Held(n, x).at = n /\ Held(n, x).what = x
  /\ \A p : OnAir(p).in = "net" /\ OnAir(p).at = p /\ OnAir(p).what = p.msg.data
  /\ \A x : There(x).in = "delivered" /\ There(x).at = x /\ There(x).what = x
BY DEF Held, OnAir, There

\* Which places there are.
LEMMA SpotKinds ==
  ASSUME NEW nd, NEW nt, NEW dl
  PROVE  /\ \A n \in Node : \A x \in nd[n].delayed : Held(n, x) \in Spots(nd, nt, dl)
         /\ \A p \in DataOf(nt) : OnAir(p) \in Spots(nd, nt, dl)
         /\ \A x \in dl : There(x) \in Spots(nd, nt, dl)
         /\ \A a \in Spots(nd, nt, dl) :
              \/ \E n \in Node : \E x \in nd[n].delayed : a = Held(n, x)
              \/ \E p \in DataOf(nt) : a = OnAir(p)
              \/ \E x \in dl : a = There(x)
<1>1. \A a : a \in Spots(nd, nt, dl) <=> \/ \E n \in Node : a \in HeldAt(nd, n)
                                        \/ a \in AllOnAir(nt)
                                        \/ a \in AllThere(dl)
  BY DEF Spots
<1>2. /\ \A n \in Node : \A x \in nd[n].delayed : Held(n, x) \in HeldAt(nd, n)
      /\ \A n \in Node : \A a \in HeldAt(nd, n) : \E x \in nd[n].delayed : a = Held(n, x)
  BY DEF HeldAt
<1>3. /\ \A p \in DataOf(nt) : OnAir(p) \in AllOnAir(nt)
      /\ \A a \in AllOnAir(nt) : \E p \in DataOf(nt) : a = OnAir(p)
  BY DEF AllOnAir
<1>4. /\ \A x \in dl : There(x) \in AllThere(dl)
      /\ \A a \in AllThere(dl) : \E x \in dl : a = There(x)
  BY DEF AllThere
<1> QED
  BY <1>1, <1>2, <1>3, <1>4

\* Datagrams move from the places D to the places N, and some go.
LEMMA MoveApart ==
  ASSUME NEW S, Apart(S), NEW D, D \subseteq S, NEW N, NEW T, T \subseteq (S \ D) \cup N,
         \A b \in N : \E a \in D : Same(a.what, b.what),
         \A a, b \in N : Same(a.what, b.what) => a = b
  PROVE  Apart(T)
<1> SUFFICES ASSUME NEW x \in T, NEW y \in T, Same(x.what, y.what)
             PROVE  x = y
  BY DEF Apart
<1>1. ASSUME NEW a \in N, NEW b \in S \ D, Same(a.what, b.what)
      PROVE  FALSE
  <2>1. PICK c \in D : Same(c.what, a.what)
    OBVIOUS
  <2>2. Same(c.what, b.what)
    BY <1>1, <2>1 DEF Same
  <2> QED
    BY <2>2 DEF Apart
<1>2. Same(y.what, x.what)
  BY DEF Same
<1> QED
  BY <1>1, <1>2 DEF Apart

\* A node that runs a handler remains well, and so does the medium.
LEMMA RunType ==
  ASSUME TypeOK, Ready, NEW n \in Node, NEW t, NodeInv(t), NEW taken, Run(n, t, taken)
  PROVE  /\ node' \in [Node -> NodeState] /\ Ready' /\ net' \subseteq Packet
         /\ node'[n].delayed = t.delayed /\ \A m \in Node \ {n} : node'[m] = node[m]
<1> DEFINE u == [t EXCEPT !.out = {}]
<1>1. /\ u \in NodeState /\ u.out = {} /\ u.routes = t.routes /\ u.wait = t.wait
      /\ u.delayed = t.delayed /\ u.rrepAckTimer = t.rrepAckTimer
      /\ u.failedNextHop = t.failedNextHop
  BY DEF NodeInv, NodeState
<1>2. node' = [node EXCEPT ![n] = u]
  BY DEF Run
<1> HIDE DEF u
<1>3. NodeInv(u)
  BY <1>1 DEF NodeInv
<1>4. node \in [Node -> NodeState]
  BY DEF TypeOK
<1>5. /\ node' \in [Node -> NodeState] /\ node'[n] = u
      /\ \A m \in Node \ {n} : node'[m] = node[m]
  BY <1>1, <1>2, <1>4
<1>6. Ready'
  BY <1>1, <1>3, <1>5 DEF Ready
<1>7. Packets(n, t.out) \subseteq Packet
  <2>1. Hears(n) \subseteq Node
    BY DEF Hears
  <2>2. \A o \in t.out : o.msg \in Message /\ (o.to # Everybody => o.to \in Node)
    BY DEF NodeInv, NodeState
  <2> QED
    BY <2>1, <2>2 DEF Packets, Packet
<1>8. net' \subseteq Packet
  BY <1>7 DEF Run, TypeOK
<1> QED
  BY <1>1, <1>5, <1>6, <1>8

\* The datagrams a node puts on the medium.
LEMMA PacketsOfData ==
  ASSUME NEW n \in Node, NEW t, NodeInv(t)
  PROVE  \A p \in DataOf(Packets(n, t.out)) :
           \E o \in DataOut(t) : p = [from |-> n, to |-> o.to, msg |-> o.msg]
BY DEF DataOf, Packets, DataOut, NodeInv

\* A handler that carries its datagrams keeps them apart, also from those in the other places J
\* that it was given; what it was given is nowhere else any more.
LEMMA RunCarries ==
  ASSUME TypeOK, Ready, NEW n \in Node, NEW t, NEW taken, Run(n, t, taken),
         NEW I, Carries(node[n], t, I), NEW J,
         \A j \in J : j.in # "delayed",
         \A x \in I : \E j \in J : j.what = x,
         \A p \in net \ taken : OnAir(p) \notin J,
         \A x \in delivered : There(x) \notin J,
         Apart(Spots(node, net, delivered) \cup J)
  PROVE  /\ Apart(Spots(node', net', delivered))
         /\ \A b \in Spots(node', net', delivered) :
              \E a \in Spots(node, net, delivered) \cup J : Same(a.what, b.what)
<1> DEFINE s == node[n]
           old == Spots(node, net, delivered)
           S == old \cup J
           T == Spots(node', net', delivered)
           D == J \cup {Held(n, x) : x \in s.delayed \ t.delayed}
           N == {Held(n, x) : x \in I \cap t.delayed} \cup {OnAir(p) : p \in DataOf(Packets(n, t.out))}
<1>1. NodeInv(t) /\ t.delayed \subseteq s.delayed \cup I
  BY DEF Carries
<1>2. node'[n].delayed = t.delayed /\ \A m \in Node \ {n} : node'[m] = node[m]
  BY <1>1, RunType
<1>3. net' = (net \ taken) \cup Packets(n, t.out)
  BY DEF Run
<1>4. \A p \in DataOf(net') : p \in DataOf(net) \ taken \/ p \in DataOf(Packets(n, t.out))
  BY <1>3 DEF DataOf
<1>5. /\ \A m \in Node : \A x \in node[m].delayed : Held(m, x) \in S
      /\ \A p \in DataOf(net) : OnAir(p) \in S
      /\ \A x \in delivered : There(x) \in S
  BY SpotKinds
<1>6. \A a \in T :
        \/ \E m \in Node : \E x \in node'[m].delayed : a = Held(m, x)
        \/ \E p \in DataOf(net') : a = OnAir(p)
        \/ \E x \in delivered : a = There(x)
  BY SpotKinds
<1>7. J \subseteq S /\ D \subseteq S
  BY <1>5
<1>8. Apart(S)
  OBVIOUS
<1> HIDE DEF T, S, old
<1>9. T \subseteq (S \ D) \cup N
  <2>1. ASSUME NEW m \in Node, NEW x \in node'[m].delayed
        PROVE  Held(m, x) \in (S \ D) \cup N
    <3>1. CASE m # n
      <4>1. Held(m, x) \in S
        BY <1>2, <1>5, <3>1
      <4>2. Held(m, x) \notin J
        BY SpotFields
      <4>3. Held(m, x) \notin {Held(n, y) : y \in s.delayed \ t.delayed}
        <5>1. ASSUME NEW y \in s.delayed \ t.delayed
              PROVE  Held(m, x) # Held(n, y)
          BY <3>1, SpotFields
        <5> QED
          BY <5>1
      <4> QED
        BY <4>1, <4>2, <4>3
    <3>2. CASE m = n
      <4>1. x \in t.delayed
        BY <1>2, <3>2
      <4>2. CASE x \in I
        BY <3>2, <4>1, <4>2
      <4>3. CASE x \in s.delayed
        <5>1. Held(n, x) \in S
          BY <1>5, <4>3
        <5>2. Held(n, x) \notin J
          BY SpotFields
        <5>3. Held(n, x) \notin {Held(n, y) : y \in s.delayed \ t.delayed}
          <6>1. ASSUME NEW y \in s.delayed \ t.delayed
                PROVE  Held(n, x) # Held(n, y)
            <7>1. x # y
              BY <4>1
            <7> QED
              BY <7>1, SpotFields
          <6> QED
            BY <6>1
        <5> HIDE DEF S
        <5> QED
          BY <3>2, <5>1, <5>2, <5>3
      <4> QED
        BY <1>1, <4>1, <4>2, <4>3
    <3> QED
      BY <3>1, <3>2
  <2>2. ASSUME NEW p \in DataOf(net')
        PROVE  OnAir(p) \in (S \ D) \cup N
    <3>1. CASE p \in DataOf(net) \ taken
      <4>1. p \in net \ taken
        BY <3>1 DEF DataOf
      <4> QED
        BY <1>5, <3>1, <4>1, SpotFields
    <3> QED
      BY <1>4, <3>1
  <2>3. ASSUME NEW x \in delivered
        PROVE  There(x) \in (S \ D) \cup N
    BY <1>5, SpotFields
  <2> HIDE DEF D, N
  <2> QED
    BY <1>6, <2>1, <2>2, <2>3
<1>10. ASSUME NEW p \in DataOf(Packets(n, t.out))
       PROVE  \E a \in D : Same(a.what, OnAir(p).what)
  <2>1. PICK o \in DataOut(t) : p = [from |-> n, to |-> o.to, msg |-> o.msg]
    BY <1>1, PacketsOfData
  <2>2. PICK x \in s.delayed \cup I : x \notin t.delayed /\ Same(x, o.msg.data)
    BY DEF Carries
  <2>3. OnAir(p).what = o.msg.data
    BY <2>1, SpotFields
  <2>4. CASE x \in I
    BY <2>2, <2>3, <2>4
  <2>5. CASE x \in s.delayed
    <3>1. Held(n, x) \in D
      BY <2>2, <2>5
    <3>2. Same(Held(n, x).what, OnAir(p).what)
      BY <2>2, <2>3, SpotFields
    <3> QED
      BY <3>1, <3>2
  <2> QED
    BY <2>4, <2>5
<1>11. ASSUME NEW x \in I \cap t.delayed
       PROVE  \E a \in J : a.what = x /\ Same(a.what, Held(n, x).what)
  BY SpotFields DEF Same
<1>12. \A b \in N : \E a \in D : Same(a.what, b.what)
  BY <1>10, <1>11
<1>13. ASSUME NEW p \in DataOf(Packets(n, t.out)), NEW q \in DataOf(Packets(n, t.out)),
              Same(OnAir(p).what, OnAir(q).what)
       PROVE  p = q
  <2>1. PICK o \in DataOut(t) : p = [from |-> n, to |-> o.to, msg |-> o.msg]
    BY <1>1, PacketsOfData
  <2>2. PICK i \in DataOut(t) : q = [from |-> n, to |-> i.to, msg |-> i.msg]
    BY <1>1, PacketsOfData
  <2>3. Same(o.msg.data, i.msg.data)
    BY <1>13, <2>1, <2>2, SpotFields
  <2> QED
    BY <2>1, <2>2, <2>3 DEF Carries
<1>14. ASSUME NEW x \in I \cap t.delayed, NEW y \in I \cap t.delayed, Same(x, y)
       PROVE  x = y
  BY <1>7, <1>8, <1>11, <1>14 DEF Apart
<1>15. ASSUME NEW x \in I \cap t.delayed, NEW p \in DataOf(Packets(n, t.out)),
              Same(x, OnAir(p).what)
       PROVE  FALSE
  <2>1. PICK o \in DataOut(t) : p = [from |-> n, to |-> o.to, msg |-> o.msg]
    BY <1>1, PacketsOfData
  <2>2. PICK y \in s.delayed \cup I : y \notin t.delayed /\ Same(y, o.msg.data)
    BY DEF Carries
  <2>3. Same(x, y)
    <3>1. OnAir(p).what = o.msg.data
      BY <2>1, SpotFields
    <3> QED
      BY <1>15, <2>2, <3>1 DEF Same
  <2>4. PICK a \in J : a.what = x
    BY <1>11
  <2>5. CASE y \in I
    BY <1>7, <1>8, <2>2, <2>3, <2>4, <2>5 DEF Apart
  <2>6. CASE y \in s.delayed
    <3>1. Held(n, y) \in S /\ Held(n, y).what = y /\ Held(n, y).in = "delayed"
      BY <1>5, <2>6, SpotFields
    <3>2. a = Held(n, y)
      BY <1>7, <1>8, <2>3, <2>4, <3>1 DEF Apart
    <3> QED
      BY <3>1, <3>2
  <2> QED
    BY <2>5, <2>6
<1>16. \A a, b \in N : Same(a.what, b.what) => a = b
  <2> SUFFICES ASSUME NEW a \in N, NEW b \in N, Same(a.what, b.what)
               PROVE  a = b
    OBVIOUS
  <2>1. \A x, y : Same(x, y) => Same(y, x)
    BY DEF Same
  <2>2. /\ \/ \E x \in I \cap t.delayed : a = Held(n, x) /\ a.what = x
           \/ \E p \in DataOf(Packets(n, t.out)) : a = OnAir(p)
        /\ \/ \E x \in I \cap t.delayed : b = Held(n, x) /\ b.what = x
           \/ \E p \in DataOf(Packets(n, t.out)) : b = OnAir(p)
    BY SpotFields
  <2> HIDE DEF N, D
  <2> QED
    BY <1>13, <1>14, <1>15, <2>1, <2>2
<1>17. Apart(T)
  <2> HIDE DEF N, D
  <2> QED
    BY <1>7, <1>8, <1>9, <1>12, <1>16, MoveApart
<1>18. \A b \in T : \E a \in S : Same(a.what, b.what)
  <2>1. \A b \in S : Same(b.what, b.what)
    BY DEF Same
  <2> HIDE DEF N, D
  <2> QED
    BY <1>7, <1>9, <1>12, <2>1
<1> QED
  BY <1>17, <1>18 DEF T, S, old

-----------------------------------------------------------------------------
(* The steps of the system *)

\* What is the same datagram as one that was sent was sent, too.
LEMMA SameKnown ==
  ASSUME NEW S, NEW T, NEW st, Known(S, st),
         \A b \in T : \E a \in S : Same(a.what, b.what)
  PROVE  Known(T, st)
<1> SUFFICES ASSUME NEW b \in T
             PROVE  /\ <<b.what.src, b.what.dst>> \in Flows
                    /\ b.what.num \in 0 .. st[<<b.what.src, b.what.dst>>] - 1
  BY DEF Known
<1>1. PICK a \in S : Same(a.what, b.what)
  OBVIOUS
<1> QED
  BY <1>1 DEF Known, Same

\* The datagrams in a node are different ones.
LEMMA DelayedDistinct ==
  ASSUME Placed, NEW n \in Node
  PROVE  Distinct(node[n].delayed)
<1> SUFFICES ASSUME NEW x \in node[n].delayed, NEW y \in node[n].delayed, Same(x, y)
             PROVE  x = y
  BY DEF Distinct
<1>1. /\ Held(n, x) \in Spots(node, net, delivered) /\ Held(n, x).what = x
      /\ Held(n, y) \in Spots(node, net, delivered) /\ Held(n, y).what = y
  BY SpotKinds, SpotFields
<1> QED
  BY <1>1 DEF Placed, Apart

\* A node runs a handler that is given no datagram.
LEMMA RunPlaced ==
  ASSUME AInv, NEW n \in Node, NEW t, NEW taken, Run(n, t, taken),
         Carries(node[n], t, {}), delivered' = delivered, sent' = sent
  PROVE  Placed'
<1> DEFINE S == Spots(node, net, delivered)
           T == Spots(node', net', delivered)
<1>1. TypeOK /\ Ready /\ Apart(S) /\ Known(S, sent)
  BY DEF AInv, Placed
<1>2. S \cup {} = S
  OBVIOUS
<1>3. Apart(S \cup {})
  BY <1>1, <1>2
<1>4. Apart(T) /\ \A b \in T : \E a \in S \cup {} : Same(a.what, b.what)
  BY <1>1, <1>3, RunCarries
<1> HIDE DEF S, T
<1>5. Known(T, sent)
  BY <1>1, <1>2, <1>4, SameKnown
<1> QED
  BY <1>4, <1>5 DEF Placed, T

\* A node runs a handler that is given one datagram, which is nowhere else any more.
LEMMA RunGiven ==
  ASSUME TypeOK, Ready, NEW n \in Node, NEW t, NEW taken, Run(n, t, taken),
         NEW d, Carries(node[n], t, {d}), NEW j, j.what = d, j.in # "delayed",
         \A p \in net \ taken : OnAir(p) # j, \A x \in delivered : There(x) # j,
         Apart(Spots(node, net, delivered) \cup {j})
  PROVE  /\ Apart(Spots(node', net', delivered))
         /\ \A b \in Spots(node', net', delivered) :
              \E a \in Spots(node, net, delivered) \cup {j} : Same(a.what, b.what)
<1> DEFINE J == {j}
           I == {d}
<1>1. /\ Carries(node[n], t, I) /\ Apart(Spots(node, net, delivered) \cup J)
      /\ \A i \in J : i.in # "delayed"
      /\ \A x \in I : \E i \in J : i.what = x
      /\ \A p \in net \ taken : OnAir(p) \notin J
      /\ \A x \in delivered : There(x) \notin J
  OBVIOUS
<1> HIDE DEF I, J
<1>2. /\ Apart(Spots(node', net', delivered))
      /\ \A b \in Spots(node', net', delivered) :
           \E a \in Spots(node, net, delivered) \cup J : Same(a.what, b.what)
  BY <1>1, RunCarries
<1> QED
  BY <1>2 DEF J

\* Nodes and medium stay.
LEMMA StayPlaced ==
  ASSUME AInv, node' = node, net' \subseteq net, delivered' = delivered, sent' = sent
  PROVE  Ready' /\ Placed'
<1> DEFINE S == Spots(node, net, delivered)
           T == Spots(node, net', delivered)
<1>1. Ready'
  BY DEF AInv, Ready
<1>2. AllOnAir(net') \subseteq AllOnAir(net)
  BY DEF AllOnAir, DataOf
<1>3. T \subseteq S
  BY <1>2 DEF Spots
<1>4. Apart(S) /\ Known(S, sent)
  BY DEF AInv, Placed
<1> HIDE DEF S, T
<1>5. Apart(T) /\ Known(T, sent)
  BY <1>3, <1>4 DEF Apart, Known
<1> QED
  BY <1>1, <1>5 DEF Placed, T

\* An event of a node that has nothing to do with new datagrams
LEMMA EventKeeps ==
  ASSUME AInv, NEW n \in Node, NEW t, NEW taken, Run(n, t, taken),
         Carries(node[n], t, {}), delivered' = delivered, sent' = sent, links' = links,
         used' \in [Bounded -> Nat]
  PROVE  AInv'
<1>1. NodeInv(t)
  BY DEF Carries
<1>2. TypeOK /\ Ready
  BY DEF AInv
<1>3. node' \in [Node -> NodeState] /\ Ready' /\ net' \subseteq Packet
  BY <1>1, <1>2, RunType
<1>4. TypeOK'
  BY <1>2, <1>3 DEF TypeOK
<1> QED
  BY <1>3, <1>4, RunPlaced DEF AInv

\* A bounded event is counted.
LEMMA SpendType ==
  ASSUME TypeOK, NEW k \in Bounded, Spend(k)
  PROVE  used' \in [Bounded -> Nat]
<1>1. used \in [Bounded -> Nat] /\ used[k] + 1 \in Nat
  BY DEF TypeOK
<1> QED
  BY <1>1 DEF Spend

\* An application sends a datagram.
LEMMA SendKeeps ==
  ASSUME AInv, NEW f \in Flows, Send(f)
  PROVE  AInv'
<1> DEFINE n == f[1]
           d == [src |-> n, dst |-> f[2], num |-> sent[f], ttl |-> DataTTL]
           t == EnsureRoute(n, node[n], d)
           j == [in |-> "new", at |-> d, what |-> d]
           S == Spots(node, net, delivered)
           T == Spots(node', net', delivered)
<1>1. /\ n \in Node /\ f[2] \in Node /\ f = <<n, f[2]>> /\ DataTTL \in Nat
  BY NetworkAssumption
<1>2. sent[f] \in Nat /\ MaxSend \in Nat /\ sent \in [Flows -> 0 .. MaxSend]
  BY NetworkAssumption DEF AInv, TypeOK
<1>3. d \in Datagram /\ <<d.src, d.dst>> = f /\ d.num = sent[f]
  BY <1>1, <1>2 DEF Datagram
<1>4. /\ Run(n, t, {}) /\ sent[f] < MaxSend /\ sent' = [sent EXCEPT ![f] = @ + 1]
      /\ links' = links /\ delivered' = delivered /\ used' = used
  BY DEF Send, Event
<1>5. TypeOK /\ Ready /\ Apart(S) /\ Known(S, sent)
  BY DEF AInv, Placed
<1> HIDE DEF d, n
<1>6. \A a \in S : ~Same(a.what, d)
  <2> SUFFICES ASSUME NEW a \in S, Same(a.what, d)
               PROVE  FALSE
    OBVIOUS
  <2>1. <<a.what.src, a.what.dst>> = f /\ a.what.num = sent[f]
    BY <1>3 DEF Same
  <2>2. a.what.num \in 0 .. sent[f] - 1
    BY <1>5, <2>1 DEF Known
  <2> QED
    BY <1>2, <2>1, <2>2
<1>7. d \notin node[n].delayed
  <2>1. SUFFICES ASSUME d \in node[n].delayed
                 PROVE  FALSE
    OBVIOUS
  <2>2. Held(n, d) \in S /\ Held(n, d).what = d
    BY <1>1, <2>1, SpotKinds, SpotFields
  <2> QED
    BY <1>6, <2>2 DEF Same
<1>8. Carries(node[n], t, {d})
  BY <1>1, <1>3, <1>5, <1>7, EnsureRouteCarries DEF Ready
<1> HIDE DEF t
<1>9. j.in = "new" /\ j.what = d
  OBVIOUS
<1> HIDE DEF j
<1>10. Apart(S \cup {j})
  <2>1. \A a \in S : ~Same(d, a.what)
    BY <1>6 DEF Same
  <2> HIDE DEF S
  <2> QED
    BY <1>5, <1>6, <1>9, <2>1 DEF Apart
<1>11. /\ \A i \in {j} : i.in # "delayed"
       /\ \A x \in {d} : \E i \in {j} : i.what = x
       /\ \A p \in net \ {} : OnAir(p) \notin {j}
       /\ \A x \in delivered : There(x) \notin {j}
  BY <1>9, SpotFields
<1>12. Apart(T) /\ \A b \in T : \E a \in S \cup {j} : Same(a.what, b.what)
  <2>1. Run(n, t, {}) /\ j.what = d /\ j.in # "delayed"
    BY <1>4, <1>9
  <2>2. /\ \A p \in net \ {} : OnAir(p) # j
        /\ \A x \in delivered : There(x) # j
    BY <1>11
  <2> QED
    BY <1>1, <1>5, <1>8, <1>10, <2>1, <2>2, RunGiven
<1>13. /\ NodeInv(t) /\ node' \in [Node -> NodeState] /\ Ready' /\ net' \subseteq Packet
  <2>1. NodeInv(t)
    BY <1>8 DEF Carries
  <2> QED
    BY <1>1, <1>4, <1>5, <2>1, RunType
<1>14. /\ sent' \in [Flows -> 0 .. MaxSend] /\ sent'[f] = sent[f] + 1
       /\ \A g \in Flows : g # f => sent'[g] = sent[g]
  BY <1>2, <1>4
<1>15. TypeOK'
  BY <1>4, <1>5, <1>13, <1>14 DEF TypeOK
<1>16. Known(T, sent')
  <2> SUFFICES ASSUME NEW b \in T
               PROVE  /\ <<b.what.src, b.what.dst>> \in Flows
                      /\ b.what.num \in 0 .. sent'[<<b.what.src, b.what.dst>>] - 1
    BY DEF Known
  <2>1. PICK a \in S \cup {j} : Same(a.what, b.what)
    BY <1>12
  <2>2. CASE a = j
    <3>1. <<b.what.src, b.what.dst>> = f /\ b.what.num = sent[f]
      BY <1>3, <1>9, <2>1, <2>2 DEF Same
    <3> QED
      BY <1>2, <1>14, <3>1
  <2>3. CASE a \in S
    <3> DEFINE g == <<a.what.src, a.what.dst>>
    <3>1. g \in Flows /\ a.what.num \in 0 .. sent[g] - 1
      BY <1>5, <2>3 DEF Known
    <3>2. g = <<b.what.src, b.what.dst>> /\ b.what.num = a.what.num
      BY <2>1 DEF Same
    <3> HIDE DEF g
    <3>3. CASE g = f
      <4>1. a.what.num \in 0 .. sent[f] - 1 /\ sent'[f] = sent[f] + 1 /\ sent[f] \in Nat
        BY <1>2, <1>14, <3>1, <3>3
      <4> QED
        BY <3>1, <3>2, <3>3, <4>1
    <3>4. CASE g # f
      BY <1>14, <3>1, <3>2, <3>4
    <3> QED
      BY <3>3, <3>4
  <2> QED
    BY <2>1, <2>2, <2>3
<1> QED
  BY <1>4, <1>12, <1>13, <1>15, <1>16 DEF AInv, Placed

\* What arrives is a message between two nodes.
LEMMA PacketFields ==
  ASSUME TypeOK, NEW p \in net
  PROVE  /\ p.from \in Node /\ p.to \in Node /\ p.msg \in Message
         /\ p.msg.type = "DATA" => p \in DataOf(net) /\ p.msg.data \in Datagram
<1>1. p.from \in Node /\ p.to \in Node /\ p.msg \in Message
  BY DEF TypeOK, Packet
<1> QED
  BY <1>1, MessageKinds DEF DATA, DataOf

\* A datagram on its way is not held back.
LEMMA OnAirOnly ==
  ASSUME Placed, NEW p \in DataOf(net), NEW n \in Node
  PROVE  /\ p.msg.data \notin node[n].delayed
         /\ \A q \in net \ {p} : OnAir(q) # OnAir(p)
         /\ \A x \in delivered : There(x) # OnAir(p)
<1>1. OnAir(p) \in Spots(node, net, delivered) /\ OnAir(p).what = p.msg.data /\ OnAir(p).in = "net"
  BY SpotKinds, SpotFields
<1>2. p.msg.data \notin node[n].delayed
  <2> SUFFICES ASSUME p.msg.data \in node[n].delayed
               PROVE  FALSE
    OBVIOUS
  <2>1. /\ Held(n, p.msg.data) \in Spots(node, net, delivered)
        /\ Held(n, p.msg.data).what = p.msg.data /\ Held(n, p.msg.data).in = "delayed"
    BY SpotKinds, SpotFields
  <2>2. OnAir(p) = Held(n, p.msg.data)
    BY <1>1, <2>1 DEF Placed, Apart, Same
  <2> QED
    BY <1>1, <2>1, <2>2
<1>3. \A q \in net \ {p} : OnAir(q) # OnAir(p)
  BY SpotFields
<1>4. \A x \in delivered : There(x) # OnAir(p)
  BY SpotFields
<1> QED
  BY <1>2, <1>3, <1>4

\* A datagram moves from one place to another.
LEMMA MoveOne ==
  ASSUME NEW S, Apart(S), NEW i \in S, NEW j, Same(i.what, j.what),
         NEW T, T \subseteq (S \ {i}) \cup {j}
  PROVE  Apart(T)
<1>1. ASSUME NEW b \in S \ {i}, Same(j.what, b.what)
      PROVE  FALSE
  <2>1. Same(i.what, b.what)
    BY <1>1 DEF Same
  <2> QED
    BY <2>1 DEF Apart
<1>2. \A x, y : Same(x, y) => Same(y, x)
  BY DEF Same
<1> QED
  BY <1>1, <1>2 DEF Apart

\* What the kinds of arrival do to the places of datagrams:
\* a message that is no datagram,
LEMMA ReceiveMessage ==
  ASSUME AInv, NEW p \in net, Receive(p), p.msg.type # "DATA"
  PROVE  AInv'
<1> DEFINE n == p.to
           t == Handle(n, node[n], p.from, p.msg)
<1>1. TypeOK /\ Ready /\ Placed
  BY DEF AInv
<1>2. n \in Node /\ p.from \in Node /\ p.msg \in Message
  BY <1>1, PacketFields
<1>3. /\ Run(n, t, {p}) /\ delivered' = delivered
      /\ links' = links /\ sent' = sent /\ used' = used
  BY DEF Receive
<1> HIDE DEF n
<1>4. NodeInv(node[n]) /\ node[n].out = {} /\ Distinct(node[n].delayed)
  BY <1>1, <1>2, DelayedDistinct DEF Ready
<1>5. Carries(node[n], t, {})
  <2>1. Carries(node[n], t, IF p.msg.type = "DATA" THEN {p.msg.data} ELSE {})
    BY <1>2, <1>4, HandleCarries
  <2> QED
    BY <2>1
<1>6. used' \in [Bounded -> Nat]
  BY <1>1, <1>3 DEF TypeOK
<1> HIDE DEF t
<1> QED
  BY <1>2, <1>3, <1>5, <1>6, EventKeeps

\* a datagram that is at its destination,
LEMMA ReceiveAtEnd ==
  ASSUME AInv, NEW p \in net, Receive(p), p.msg.type = "DATA", p.msg.data.dst = p.to
  PROVE  AInv'
<1> DEFINE n == p.to
           d == p.msg.data
           S == Spots(node, net, delivered)
           T == Spots(node, net', delivered')
<1>1. TypeOK /\ Ready /\ Apart(S) /\ Known(S, sent)
  BY DEF AInv, Placed
<1>2. n \in Node /\ p \in DataOf(net) /\ d \in Datagram
  BY <1>1, PacketFields
<1>3. Handle(n, node[n], p.from, p.msg) = node[n]
  BY DEF Handle, HandleDatagram
<1>4. /\ Run(n, node[n], {p}) /\ delivered' = delivered \cup {d}
      /\ links' = links /\ sent' = sent /\ used' = used
  BY <1>3 DEF Receive
<1>5. node' = node
  <2>1. node[n] \in NodeState /\ node[n].out = {} /\ node \in [Node -> NodeState]
    BY <1>1, <1>2 DEF TypeOK, Ready
  <2>2. [node[n] EXCEPT !.out = {}] = node[n]
    BY <2>1 DEF NodeState
  <2> QED
    BY <1>4, <2>1, <2>2 DEF Run
<1>6. net' = net \ {p}
  <2>1. Packets(n, node[n].out) = {}
    BY <1>1, <1>2 DEF Ready, Packets
  <2> QED
    BY <1>4, <2>1 DEF Run
<1>7. TypeOK' /\ Ready'
  BY <1>1, <1>2, <1>4, <1>5, <1>6 DEF TypeOK, Ready
<1>8. /\ OnAir(p) \in S /\ OnAir(p).what = d /\ There(d).what = d
      /\ OnAir(p).in = "net" /\ There(d).in = "delivered"
  BY <1>2, SpotKinds, SpotFields
<1>9. T \subseteq (S \ {OnAir(p)}) \cup {There(d)}
  <2>1. /\ \A m \in Node : \A x \in node[m].delayed : Held(m, x) \in S /\ Held(m, x) # OnAir(p)
        /\ \A q \in DataOf(net) : OnAir(q) \in S /\ (q # p => OnAir(q) # OnAir(p))
        /\ \A x \in delivered : There(x) \in S /\ There(x) # OnAir(p)
    BY SpotKinds, SpotFields
  <2>2. DataOf(net') \subseteq DataOf(net) \ {p}
    BY <1>6 DEF DataOf
  <2>3. \A a \in T :
          \/ \E m \in Node : \E x \in node[m].delayed : a = Held(m, x)
          \/ \E q \in DataOf(net') : a = OnAir(q)
          \/ \E x \in delivered' : a = There(x)
    BY SpotKinds
  <2> HIDE DEF S, T, d
  <2> QED
    BY <1>4, <2>1, <2>2, <2>3
<1>10. Same(OnAir(p).what, There(d).what)
  BY <1>8 DEF Same
<1> HIDE DEF S, T, d
<1>11. Apart(T)
  BY <1>1, <1>8, <1>9, <1>10, MoveOne
<1>12. Known(T, sent)
  <2>1. \A b \in T : \E a \in S : Same(a.what, b.what)
    BY <1>8, <1>9, <1>10 DEF Same
  <2> QED
    BY <1>1, <2>1, SameKnown
<1> QED
  BY <1>4, <1>5, <1>7, <1>11, <1>12 DEF AInv, Placed, T

\* and a datagram that is not.
LEMMA ReceiveUnderWay ==
  ASSUME AInv, NEW p \in net, Receive(p), p.msg.type = "DATA", p.msg.data.dst # p.to
  PROVE  AInv'
<1> DEFINE n == p.to
           d == p.msg.data
           t == Handle(n, node[n], p.from, p.msg)
           S == Spots(node, net, delivered)
           T == Spots(node', net', delivered)
<1>1. TypeOK /\ Ready /\ Placed /\ Apart(S) /\ Known(S, sent)
  BY DEF AInv, Placed
<1>2. n \in Node /\ p.from \in Node /\ p.msg \in Message /\ p \in DataOf(net) /\ d \in Datagram
  BY <1>1, PacketFields
<1>3. /\ Run(n, t, {p}) /\ delivered' = delivered
      /\ links' = links /\ sent' = sent /\ used' = used
  BY DEF Receive
<1>4. /\ d \notin node[n].delayed
      /\ \A q \in net \ {p} : OnAir(q) # OnAir(p)
      /\ \A x \in delivered : There(x) # OnAir(p)
  BY <1>1, <1>2, OnAirOnly
<1> HIDE DEF n
<1>5. NodeInv(node[n]) /\ node[n].out = {} /\ Distinct(node[n].delayed)
  BY <1>1, <1>2, DelayedDistinct DEF Ready
<1>6. Carries(node[n], t, {d})
  <2>1. Carries(node[n], t, IF p.msg.type = "DATA" THEN {p.msg.data} ELSE {})
    BY <1>2, <1>4, <1>5, HandleCarries
  <2> QED
    BY <2>1
<1> HIDE DEF t
<1>7. OnAir(p) \in S /\ OnAir(p).what = d /\ OnAir(p).in # "delayed"
  BY <1>2, SpotKinds, SpotFields
<1>8. S \cup {OnAir(p)} = S
  BY <1>7
<1>9. Apart(S \cup {OnAir(p)})
  BY <1>1, <1>8
<1>10. Apart(T) /\ \A b \in T : \E a \in S \cup {OnAir(p)} : Same(a.what, b.what)
  BY <1>1, <1>2, <1>3, <1>4, <1>6, <1>7, <1>9, RunGiven
<1> HIDE DEF S, T, d
<1>11. Known(T, sent)
  BY <1>1, <1>8, <1>10, SameKnown
<1>12. node' \in [Node -> NodeState] /\ Ready' /\ net' \subseteq Packet
  <2>1. NodeInv(t)
    BY <1>6 DEF Carries
  <2> QED
    BY <1>1, <1>2, <1>3, <2>1, RunType
<1>13. TypeOK'
  BY <1>1, <1>3, <1>12 DEF TypeOK
<1> QED
  BY <1>3, <1>10, <1>11, <1>12, <1>13 DEF AInv, Placed, T

\* The MAC layer drops a message, and may report it.
LEMMA MissKeeps ==
  ASSUME AInv, NEW p \in net, Miss(p)
  PROVE  AInv'
<1> DEFINE n == p.from
           dest == IF p.msg.type = "DATA" THEN p.msg.data.dst ELSE p.to
<1>1. TypeOK /\ Ready
  BY DEF AInv
<1>2. n \in Node /\ p.to \in Node /\ (p.msg.type = "DATA" => p.msg.data \in Datagram)
  BY <1>1, PacketFields
<1>3. dest \in Node
  BY <1>2 DEF Datagram
<1>4. PICK t \in {node[n], HandleLinkBreak(node[n], dest)} :
        Run(n, t, {p}) /\ links' = links /\ sent' = sent /\ delivered' = delivered /\ used' = used
  BY DEF Miss
<1> HIDE DEF n, dest
<1>5. NodeInv(node[n]) /\ node[n].out = {}
  BY <1>1, <1>2 DEF Ready
<1>6. Kept(node[n], t)
  BY <1>3, <1>4, <1>5, KeptItself, HandleLinkBreakKept
<1>7. Carries(node[n], t, {})
  BY <1>5, <1>6, KeptCarries
<1>8. used' \in [Bounded -> Nat]
  BY <1>1, <1>4 DEF TypeOK
<1> QED
  BY <1>2, <1>4, <1>7, <1>8, EventKeeps

\* The timers of a node.
LEMMA TimersKeep ==
  ASSUME AInv, NEW n \in Node,
         \/ RREPACKTimeout(n) \/ BlackListTimeout(n) \/ CounterTimeout(n) \/ HelloTimeout(n)
         \/ \E dest \in Node : WaitForRREP(n, dest) \/ ExpungeTimeout(n, dest)
         \/ \E id \in node[n].arrived : ForgetRREQ(n, id)
  PROVE  AInv'
<1>1. TypeOK /\ NodeInv(node[n]) /\ node[n].out = {}
  BY DEF AInv, Ready
<1> DEFINE Quietly(t) == /\ Run(n, t, {}) /\ Carries(node[n], t, {})
                         /\ delivered' = delivered /\ sent' = sent /\ links' = links
                         /\ used' \in [Bounded -> Nat]
<1>2. used' = used => used' \in [Bounded -> Nat]
  BY <1>1 DEF TypeOK
<1>3. \A k \in Bounded : Spend(k) => used' \in [Bounded -> Nat]
  BY <1>1, SpendType
<1>4. {"tick", "expiry", "hello", "forget"} \subseteq Bounded
  BY DEF Bounded
<1>5. \A t : Kept(node[n], t) => Carries(node[n], t, {})
  BY <1>1, KeptCarries
<1>6. CASE RREPACKTimeout(n)
  <2>1. Quietly(HandleRREPACKTimer(node[n]))
    BY <1>1, <1>2, <1>5, <1>6, HandleRREPACKTimerKept DEF RREPACKTimeout, Event
  <2> QED
    BY <2>1, EventKeeps
<1>7. CASE BlackListTimeout(n)
  <2>1. PICK over \in SUBSET node[n].blacklist : Event(n, HandleBlackListTimer(node[n], over))
    BY <1>7 DEF BlackListTimeout
  <2>2. Quietly(HandleBlackListTimer(node[n], over))
    BY <1>1, <1>2, <1>5, <1>7, <2>1, HandleBlackListTimerKept DEF BlackListTimeout, Event
  <2> QED
    BY <2>2, EventKeeps
<1>8. CASE CounterTimeout(n)
  <2>1. Quietly([node[n] EXCEPT !.rreqCount = 0, !.rerrCount = 0])
    BY <1>1, <1>3, <1>4, <1>5, <1>8, CountersKept DEF CounterTimeout, Event
  <2> QED
    BY <2>1, EventKeeps
<1>9. CASE HelloTimeout(n)
  <2>1. Quietly(SendHello(n, node[n]))
    BY <1>1, <1>3, <1>4, <1>5, <1>9, SendHelloKept DEF HelloTimeout, Event
  <2> QED
    BY <2>1, EventKeeps
<1>10. ASSUME NEW dest \in Node, WaitForRREP(n, dest)
       PROVE  AInv'
  <2>1. Quietly(HandleWaitForRREP(n, node[n], dest))
    BY <1>1, <1>2, <1>5, <1>10, HandleWaitForRREPKept DEF WaitForRREP, Event
  <2> QED
    BY <2>1, EventKeeps
<1>11. ASSUME NEW dest \in Node, ExpungeTimeout(n, dest)
       PROVE  AInv'
  <2>1. Quietly(ExpungeRoute(node[n], dest))
    BY <1>1, <1>3, <1>4, <1>11, ExpungeRouteCarries DEF ExpungeTimeout, Event
  <2> QED
    BY <2>1, EventKeeps
<1>12. ASSUME NEW id \in node[n].arrived, ForgetRREQ(n, id)
       PROVE  AInv'
  <2>1. Quietly([node[n] EXCEPT !.arrived = @ \ {id}])
    BY <1>1, <1>3, <1>4, <1>5, <1>12, CountersKept DEF ForgetRREQ, Event
  <2> QED
    BY <2>1, EventKeeps
<1> QED
  BY <1>6, <1>7, <1>8, <1>9, <1>10, <1>11, <1>12

\* Nodes go down and come back.
LEMMA LifecycleKeeps ==
  ASSUME AInv, NEW n \in Node, Crash(n) \/ Restart(n) \/ EndDeletePeriod(n)
  PROVE  AInv'
<1>1. TypeOK /\ NodeInv(node[n]) /\ node[n].out = {}
  BY DEF AInv, Ready
<1> DEFINE Quietly(t) == /\ Run(n, t, {}) /\ Carries(node[n], t, {})
                         /\ delivered' = delivered /\ sent' = sent /\ links' = links
                         /\ used' \in [Bounded -> Nat]
<1>2. used' = used => used' \in [Bounded -> Nat]
  BY <1>1 DEF TypeOK
<1>3. Spend("crash") => used' \in [Bounded -> Nat]
  BY <1>1, SpendType DEF Bounded
<1>4. CASE Crash(n)
  <2>1. Quietly(ClearState(node[n]))
    BY <1>1, <1>3, <1>4, ClearStateCarries DEF Crash, Event
  <2> QED
    BY <2>1, EventKeeps
<1>5. CASE Restart(n)
  <2>1. Quietly(Restarted(node[n]))
    BY <1>1, <1>2, <1>5, RestartedKept, KeptCarries DEF Restart
  <2> QED
    BY <2>1, EventKeeps
<1>6. CASE EndDeletePeriod(n)
  <2>1. Quietly([node[n] EXCEPT !.rebooted = FALSE])
    BY <1>1, <1>2, <1>6, CountersKept, KeptCarries DEF EndDeletePeriod, Event
  <2> QED
    BY <2>1, EventKeeps
<1> QED
  BY <1>4, <1>5, <1>6

\* The medium loses a message, or a link goes.
LEMMA MediumKeeps ==
  ASSUME AInv, (\E p \in net : Lose(p)) \/ (\E l \in links : BreakLink(l))
  PROVE  AInv'
<1>1. TypeOK
  BY DEF AInv
<1>2. /\ node' = node /\ net' \subseteq net /\ delivered' = delivered /\ sent' = sent
      /\ links' \subseteq links
  BY DEF Lose, BreakLink
<1>3. used' \in [Bounded -> Nat]
  <2>1. \E k \in Bounded : Spend(k)
    BY DEF Lose, BreakLink, Bounded
  <2> QED
    BY <1>1, <2>1, SpendType
<1>4. TypeOK'
  BY <1>1, <1>2, <1>3 DEF TypeOK
<1> QED
  BY <1>2, <1>4, StayPlaced DEF AInv

\* At the start there are no datagrams.
LEMMA AInvInit == Init => AInv
<1> SUFFICES ASSUME Init
             PROVE  AInv
  OBVIOUS
<1>1. /\ \A n \in Node : node[n] = FreshNode
      /\ net = {} /\ delivered = {} /\ links = Links /\ sent = [f \in Flows |-> 0]
      /\ used = [k \in Bounded |-> 0] /\ node = [n \in Node |-> FreshNode]
  BY DEF Init
<1>2. Ready /\ FreshNode \in NodeState
  BY <1>1, FreshNodeFacts DEF Ready, NodeInv
<1>3. TypeOK
  <2>1. 0 \in 0 .. MaxSend
    BY NetworkAssumption
  <2> QED
    BY <1>1, <1>2, <2>1 DEF TypeOK
<1>4. Spots(node, net, delivered) = {}
  <2>1. \A a \in Spots(node, net, delivered) : FALSE
    BY <1>1, SpotKinds, FreshNodeFacts DEF DataOf
  <2> QED
    BY <2>1
<1>5. Placed
  BY <1>4 DEF Placed, Apart, Known
<1> QED
  BY <1>2, <1>3, <1>5 DEF AInv

\* Every step keeps the invariant.
LEMMA AInvStep == AInv /\ [Next]_vars => AInv'
<1> SUFFICES ASSUME AInv, [Next]_vars
             PROVE  AInv'
  OBVIOUS
<1>1. CASE \E f \in Flows : Send(f)
  BY <1>1, SendKeeps
<1>2. ASSUME NEW p \in net, Receive(p)
      PROVE  AInv'
  BY <1>2, ReceiveMessage, ReceiveAtEnd, ReceiveUnderWay
<1>3. ASSUME NEW p \in net, Miss(p)
      PROVE  AInv'
  BY <1>3, MissKeeps
<1>4. ASSUME NEW p \in net, Lose(p)
      PROVE  AInv'
  BY <1>4, MediumKeeps
<1>5. ASSUME NEW n \in Node,
             \/ RREPACKTimeout(n) \/ BlackListTimeout(n) \/ CounterTimeout(n) \/ HelloTimeout(n)
             \/ \E dest \in Node : WaitForRREP(n, dest) \/ ExpungeTimeout(n, dest)
             \/ \E id \in node[n].arrived : ForgetRREQ(n, id)
      PROVE  AInv'
  BY <1>5, TimersKeep
<1>6. ASSUME NEW n \in Node, Crash(n) \/ Restart(n) \/ EndDeletePeriod(n)
      PROVE  AInv'
  BY <1>6, LifecycleKeeps
<1>7. ASSUME NEW l \in links, BreakLink(l)
      PROVE  AInv'
  BY <1>7, MediumKeeps
<1>8. CASE UNCHANGED vars
  <2>1. /\ node' = node /\ net' \subseteq net /\ delivered' = delivered /\ sent' = sent
        /\ links' = links /\ net' = net /\ used' = used
    BY <1>8 DEF vars
  <2>2. TypeOK'
    BY <2>1 DEF AInv, TypeOK
  <2> QED
    BY <2>1, <2>2, StayPlaced DEF AInv
<1> QED
  BY <1>1, <1>2, <1>3, <1>4, <1>5, <1>6, <1>7, <1>8 DEF Next

\* The invariant holds of every behaviour.
LEMMA AInvAlways == Spec => []AInv
<1>1. Init => AInv
  BY AInvInit
<1>2. AInv /\ [Next]_vars => AInv'
  BY AInvStep
<1> QED
  BY <1>1, <1>2, PTL DEF Spec

-----------------------------------------------------------------------------
(* The theorems *)

\* Every handler of AODVRouting leaves routes, timers, counters and messages of their kinds, on
\* every network and with any numbers of faults.
THEOREM TypeCorrect == Spec => []TypeOK
<1>1. AInv => TypeOK
  BY DEF AInv
<1> QED
  BY <1>1, AInvAlways, PTL

\* A set all of whose members are equal has one at most.
LEMMA AtMostOne ==
  ASSUME NEW S, \A a, b \in S : a = b
  PROVE  Cardinality(S) <= 1
<1>1. CASE S = {}
  BY <1>1, FS_EmptySet
<1>2. CASE S # {}
  <2>1. PICK a \in S : TRUE
    BY <1>2
  <2>2. S = {a}
    BY <2>1
  <2> QED
    BY <2>2, FS_Singleton
<1> QED
  BY <1>1, <1>2

\* The places of one datagram are the same.
LEMMA OnePlace ==
  ASSUME Placed, NEW f, NEW i, NEW a \in Places(f, i), NEW b \in Places(f, i)
  PROVE  a = b
<1> DEFINE S == Spots(node, net, delivered)
           same(x) == x.src = f[1] /\ x.dst = f[2] /\ x.num = i
<1>1. ASSUME NEW z \in Places(f, i)
      PROVE  \E c \in S : same(c.what) /\ z = <<c.in, c.at>>
  <2>1. CASE \E n \in Node : \E x \in node[n].delayed : same(x) /\ z = <<"delayed", n>>
    <3>1. PICK n \in Node : \E x \in node[n].delayed : same(x) /\ z = <<"delayed", n>>
      BY <2>1
    <3>2. PICK x \in node[n].delayed : same(x) /\ z = <<"delayed", n>>
      BY <3>1
    <3>3. Held(n, x) \in S
      BY SpotKinds
    <3>4. same(Held(n, x).what) /\ z = <<Held(n, x).in, Held(n, x).at>>
      BY <3>2, SpotFields
    <3> HIDE DEF S, same
    <3> QED
      BY <3>3, <3>4
  <2>2. CASE \E p \in DataOf(net) : same(p.msg.data) /\ z = <<"net", p>>
    <3>1. PICK p \in DataOf(net) : same(p.msg.data) /\ z = <<"net", p>>
      BY <2>2
    <3>2. OnAir(p) \in S
      BY <3>1, SpotKinds
    <3>3. same(OnAir(p).what) /\ z = <<OnAir(p).in, OnAir(p).at>>
      BY <3>1, SpotFields
    <3> HIDE DEF S, same
    <3> QED
      BY <3>2, <3>3
  <2>3. CASE \E x \in delivered : same(x) /\ z = <<"delivered", x>>
    <3>1. PICK x \in delivered : same(x) /\ z = <<"delivered", x>>
      BY <2>3
    <3>2. There(x) \in S
      BY <3>1, SpotKinds
    <3>3. same(There(x).what) /\ z = <<There(x).in, There(x).at>>
      BY <3>1, SpotFields
    <3> HIDE DEF S, same
    <3> QED
      BY <3>2, <3>3
  <2>4. \/ \E n \in Node : \E x \in node[n].delayed : same(x) /\ z = <<"delayed", n>>
        \/ \E p \in DataOf(net) : same(p.msg.data) /\ z = <<"net", p>>
        \/ \E x \in delivered : same(x) /\ z = <<"delivered", x>>
    BY DEF Places, DataOf
  <2> QED
    BY <2>1, <2>2, <2>3, <2>4
<1>2. PICK c \in S : same(c.what) /\ a = <<c.in, c.at>>
  BY <1>1
<1>3. PICK d \in S : same(d.what) /\ b = <<d.in, d.at>>
  BY <1>1
<1>4. Same(c.what, d.what)
  BY <1>2, <1>3 DEF Same
<1>5. c = d
  BY <1>4 DEF Placed, Apart
<1> QED
  BY <1>2, <1>3, <1>5

\* What completeRouteDiscovery() reinjects has left the multimap: on every network, with any
\* reordering, loss, expiry and crash, no datagram is ever in two places.
THEOREM NeverCopied == Spec => []NotCopied
<1>1. AInv => NotCopied
  BY OnePlace, AtMostOne DEF AInv, NotCopied
<1> QED
  BY <1>1, AInvAlways, PTL

-----------------------------------------------------------------------------
(* The ASSERTs: what a node knows of its neighbours, and what messages say of their sender *)

\* What n may send in a message m to "to": only the originator of a request and the destination of
\* a reply have made no hop, an acknowledgment is asked of the originator alone, and therefore,
\* since it never forwards its own reply, nobody sends one.
Honest(n, to, m) ==
  /\ m.type = "RREQ" /\ m.hops = 0 => m.orig = n
  /\ m.type = "RREP" /\ m.hops = 0 => m.dest = n
  /\ m.type = "RREP" /\ m.ack => to = m.orig
  /\ m.type # "RREPACK"
\* An entry of the routing table that is one hop long is that of a neighbour.
Direct(d, r) == r.state # "none" => r.hopCount > 0 /\ (r.hopCount = 1 => r.nextHop = d)
\* So it is with all a node knows and says.
Right(n, s) ==
  /\ \A d \in Node : Direct(d, s.routes[d])
  /\ \A o \in s.out : Honest(n, o.to, o.msg)
\* The next hop of every route has an entry of its own.
Rests(f) == \A d \in Node : f[d].state # "none" => f[f[d].nextHop].state # "none"
Supported(s) == Rests(s.routes)
\* A step of a handler at n after which only the ASSERT on the next hop may have failed, and not
\* even that one where every route is supported.
Upright(n, s, t) ==
  Right(n, s) =>
    /\ Right(n, t)
    /\ t.failed \subseteq s.failed \cup {"nextHop"}
    /\ Supported(s) => Supported(t) /\ t.failed \subseteq s.failed

\* Upright steps follow each other.
LEMMA UprightTwice ==
  ASSUME NEW n, NEW a, NEW b, NEW c, Upright(n, a, b), Upright(n, b, c)
  PROVE  Upright(n, a, c)
BY DEF Upright

\* Doing nothing is upright,
LEMMA UprightItself ==
  ASSUME NEW n, NEW s
  PROVE  Upright(n, s, s)
BY DEF Upright

\* and so is whatever has nothing to do with routes, messages and ASSERTs,
LEMMA OthersUpright ==
  ASSUME NEW n, NEW s, NEW t, t.routes = s.routes, t.out = s.out, t.failed = s.failed
  PROVE  Upright(n, s, t)
BY DEF Upright, Right, Supported

\* an honest message,
LEMMA SayUpright ==
  ASSUME NEW n, NEW s, NEW t, NEW F, t.routes = s.routes, t.out = s.out \cup F, t.failed = s.failed,
         Right(n, s) => \A o \in F : Honest(n, o.to, o.msg)
  PROVE  Upright(n, s, t)
BY DEF Upright, Right, Supported

\* sent to one node
LEMMA UnicastUpright ==
  ASSUME NEW n, NEW s, NodeInv(s), NEW to, NEW m, Right(n, s) => Honest(n, to, m)
  PROVE  Upright(n, s, Unicast(s, to, m))
<1> DEFINE t == Unicast(s, to, m)
           F == {[to |-> to, msg |-> m]}
<1>1. t.routes = s.routes /\ t.out = s.out \cup F /\ t.failed = s.failed
  BY DEF Unicast, NodeInv, NodeState
<1>2. Right(n, s) => \A o \in F : Honest(n, o.to, o.msg)
  OBVIOUS
<1> HIDE DEF t, F
<1>3. Upright(n, s, t)
  BY <1>1, <1>2, SayUpright
<1> QED
  BY <1>3 DEF t

\* or to all,
LEMMA BroadcastUpright ==
  ASSUME NEW n, NEW s, NodeInv(s), NEW m, Right(n, s) => Honest(n, Everybody, m)
  PROVE  Upright(n, s, Broadcast(s, m))
BY UnicastUpright DEF Unicast, Broadcast

\* an ASSERT that holds,
LEMMA CheckUpright ==
  ASSUME NEW n, NEW s, NEW b \in BOOLEAN, b, NEW name
  PROVE  Upright(n, s, Check(s, b, name))
BY UprightItself DEF Check

\* or the one on the next hop,
LEMMA CheckNextHopUpright ==
  ASSUME NEW n, NEW s, NodeInv(s), NEW b \in BOOLEAN, Supported(s) => b
  PROVE  Upright(n, s, Check(s, b, "nextHop"))
<1> DEFINE t == [s EXCEPT !.failed = @ \cup {"nextHop"}]
<1>1. t.routes = s.routes /\ t.out = s.out /\ t.failed = s.failed \cup {"nextHop"}
  BY DEF NodeInv, NodeState
<1> HIDE DEF t
<1>2. ~b => Upright(n, s, t)
  BY <1>1 DEF Upright, Right
<1> QED
  BY <1>2, UprightItself DEF Check, t

\* Entries of the table f become those of g: they lead where they led, or to a neighbour that has
\* an entry.
Grows(f, g) ==
  \A d \in Node :
    /\ f[d].state # "none" => g[d].state # "none"
    /\ g[d].state # "none" =>
         \/ f[d].state # "none" /\ g[d].nextHop = f[d].nextHop /\ g[d].hopCount = f[d].hopCount
         \/ /\ g[d].nextHop \in Node /\ g[g[d].nextHop].state # "none"
            /\ Direct(d, g[d])

\* and a routing table that grows.
LEMMA RoutesUpright ==
  ASSUME NEW n, NEW s, NodeInv(s), NEW t, t.out = s.out, t.failed = s.failed,
         Grows(s.routes, t.routes)
  PROVE  Upright(n, s, t)
<1>1. Right(n, s) => Right(n, t)
  BY DEF Right, Direct, Grows
<1>2. Supported(s) => Supported(t)
  <2> SUFFICES ASSUME Supported(s), NEW d \in Node, t.routes[d].state # "none"
               PROVE  t.routes[t.routes[d].nextHop].state # "none"
    BY DEF Supported, Rests
  <2>1. CASE s.routes[d].state # "none" /\ t.routes[d].nextHop = s.routes[d].nextHop
    <3>1. s.routes[d].nextHop \in Node
      BY <2>1, RouteFacts
    <3> QED
      BY <2>1, <3>1 DEF Supported, Rests, Grows
  <2> QED
    BY <2>1 DEF Grows
<1> QED
  BY <1>1, <1>2 DEF Upright

\* A route is entered that leads over a neighbour.
LEMMA SetRouteUpright ==
  ASSUME NEW n, NEW s, NodeInv(s), NEW dest \in Node, NEW nextHop \in Node, NEW hopCount \in Nat,
         NEW valid, NEW seq, hopCount > 0, hopCount = 1 => nextHop = dest,
         nextHop = dest \/ s.routes[nextHop].state # "none"
  PROVE  Upright(n, s, SetRoute(s, dest, nextHop, hopCount, valid, seq))
<1> DEFINE r == [state |-> "active", nextHop |-> nextHop, hopCount |-> hopCount,
                 validDestNum |-> valid, destSeqNum |-> seq,
                 precursors |-> s.routes[dest].precursors]
           t == SetRoute(s, dest, nextHop, hopCount, valid, seq)
<1>1. s.routes \in [Node -> Route]
  BY DEF NodeInv, NodeState
<1>2. r.state = "active" /\ r.nextHop = nextHop /\ r.hopCount = hopCount
  OBVIOUS
<1>3. t = WithRoute(s, dest, r)
  BY <1>1 DEF SetRoute, WithRoute, NodeInv, NodeState
<1> HIDE DEF r, t
<1>4. t.routes = [s.routes EXCEPT ![dest] = r] /\ t.out = s.out /\ t.failed = s.failed
  BY <1>3 DEF WithRoute, NodeInv, NodeState
<1>5. t.routes[dest] = r /\ \A d \in Node \ {dest} : t.routes[d] = s.routes[d]
  BY <1>1, <1>4
<1>6. Grows(s.routes, t.routes)
  BY <1>2, <1>5 DEF Grows, Direct
<1>7. Upright(n, s, t)
  BY <1>4, <1>6, RoutesUpright
<1> QED
  BY <1>7 DEF t

\* The route to the node a message came from.
LEMMA SetPreviousHopUpright ==
  ASSUME NEW n, NEW s, NodeInv(s), NEW from \in Node, NEW seq
  PROVE  Upright(n, s, SetPreviousHop(s, from, seq))
<1> DEFINE no == FALSE
           one == 1
<1>1. one \in Nat /\ one > 0
  OBVIOUS
<1>2. SetPreviousHop(s, from, seq) = SetRoute(s, from, from, one, no, seq)
  BY DEF SetPreviousHop
<1> HIDE DEF no, one
<1> QED
  BY <1>1, <1>2, SetRouteUpright

\* An entry is changed in what does not lead anywhere.
LEMMA RouteUpright ==
  ASSUME NEW n, NEW s, NodeInv(s), NEW dest \in Node, NEW r,
         s.routes[dest].state # "none" <=> r.state # "none",
         r.nextHop = s.routes[dest].nextHop, r.hopCount = s.routes[dest].hopCount
  PROVE  Upright(n, s, WithRoute(s, dest, r))
<1> DEFINE t == WithRoute(s, dest, r)
<1>1. s.routes \in [Node -> Route]
  BY DEF NodeInv, NodeState
<1>2. t.routes = [s.routes EXCEPT ![dest] = r] /\ t.out = s.out /\ t.failed = s.failed
  BY DEF WithRoute, NodeInv, NodeState
<1> HIDE DEF t
<1>3. t.routes[dest] = r /\ \A d \in Node \ {dest} : t.routes[d] = s.routes[d]
  BY <1>1, <1>2
<1>4. Grows(s.routes, t.routes)
  BY <1>3 DEF Grows
<1>5. Upright(n, s, t)
  BY <1>2, <1>4, RoutesUpright
<1> QED
  BY <1>5 DEF t

\* A node is entered among the precursors of a route.
LEMMA AddPrecursorUpright ==
  ASSUME NEW n, NEW s, NodeInv(s), NEW dest \in Node, NEW m
  PROVE  Upright(n, s, AddPrecursor(s, dest, m))
<1> DEFINE r == [s.routes[dest] EXCEPT !.precursors = @ \cup {m}]
<1>1. s.routes[dest] \in Route
  BY RouteFacts
<1>2. r.state = s.routes[dest].state /\ r.nextHop = s.routes[dest].nextHop
      /\ r.hopCount = s.routes[dest].hopCount
  BY <1>1 DEF Route
<1>3. AddPrecursor(s, dest, m) = WithRoute(s, dest, r)
  BY DEF AddPrecursor, WithRoute
<1> HIDE DEF r
<1> QED
  BY <1>2, <1>3, RouteUpright

\* Datagrams are sent: they say nothing of routes.
LEMMA SendDatagramsUpright ==
  ASSUME NEW n, NEW s, NodeInv(s), NEW to, NEW D
  PROVE  Upright(n, s, SendDatagrams(s, to, D))
<1> DEFINE F == {[to |-> to, msg |-> [type |-> "DATA", data |-> [d EXCEPT !.ttl = @ - 1]]]
                 : d \in {e \in D : e.ttl > 0}}
           t == SendDatagrams(s, to, D)
<1>1. t.routes = s.routes /\ t.out = s.out \cup F /\ t.failed = s.failed
  BY DEF SendDatagrams, NodeInv, NodeState
<1>2. \A o \in F : o.msg.type = "DATA"
  OBVIOUS
<1> HIDE DEF t, F
<1>3. \A o \in F : Honest(n, o.to, o.msg)
  BY <1>2 DEF Honest
<1>4. Upright(n, s, t)
  BY <1>1, <1>3, SayUpright
<1> QED
  BY <1>4 DEF t

\* A discovery completes.
LEMMA CompleteRouteDiscoveryUpright ==
  ASSUME NEW n, NEW s, NodeInv(s), s.out = {}, NEW dest \in Node
  PROVE  Upright(n, s, CompleteRouteDiscovery(s, dest))
<1> DEFINE ready == {d \in s.delayed : d.dst = dest}
           rest == s.delayed \ ready
           a == [s EXCEPT !.wait[dest] = NoWait]
           b == [a EXCEPT !.delayed = rest]
           to == s.routes[dest].nextHop
<1>1. Kept(s, a)
  BY WaitKept DEF NoWait, Wait
<1>2. rest \in SUBSET Datagram
  BY DEF NodeInv, NodeState
<1>3. a.routes = s.routes /\ a.out = s.out /\ a.failed = s.failed
  BY DEF NodeInv, NodeState
<1>4. CompleteRouteDiscovery(s, dest) = SendDatagrams(b, to, ready)
  <2>1. b = [s EXCEPT !.delayed = rest, !.wait[dest] = NoWait]
    <3> HIDE DEF rest
    <3> QED
      BY DEF NodeInv, NodeState
  <2> HIDE DEF b
  <2> QED
    BY <2>1 DEF CompleteRouteDiscovery
<1> HIDE DEF a, ready, rest, to
<1>5. NodeInv(a)
  BY <1>1 DEF Kept
<1>6. /\ b \in NodeState /\ b.out = a.out /\ b.routes = a.routes /\ b.wait = a.wait
      /\ b.failed = a.failed /\ b.rrepAckTimer = a.rrepAckTimer
      /\ b.failedNextHop = a.failedNextHop
  BY <1>2, <1>5 DEF NodeInv, NodeState
<1> HIDE DEF b
<1>7. NodeInv(b)
  BY <1>5, <1>6 DEF NodeInv
<1>8. Upright(n, s, b)
  BY <1>3, <1>6, OthersUpright
<1>9. Upright(n, b, SendDatagrams(b, to, ready))
  BY <1>7, SendDatagramsUpright
<1> QED
  BY <1>4, <1>8, <1>9, UprightTwice

\* A request is sent unless its timer runs.
LEMMA SendRREQUpright ==
  ASSUME NEW n \in Node, NEW s, NodeInv(s), NEW dest \in Node, s.wait[dest].state # "armed"
  PROVE  Upright(n, s, SendRREQ(n, s, dest))
<1> DEFINE ttl == NextTTL(s.wait[dest])
           w == [state |-> "armed", lastTTL |-> ttl]
           c == [s EXCEPT !.wait[dest] = w, !.rreqCount = @ + 1]
           m == NewRREQ(n, s, dest, ttl)
           F == {[to |-> Everybody, msg |-> m]}
           t == Broadcast(c, m)
<1>1. m.type = "RREQ" /\ m.orig = n
  BY DEF NewRREQ
<1>2. SendRREQ(n, s, dest) = s \/ SendRREQ(n, s, dest) = t
  BY DEF SendRREQ, Check
<1> HIDE DEF m, w
<1>3. t.routes = s.routes /\ t.out = s.out \cup F /\ t.failed = s.failed
  BY DEF Broadcast, NodeInv, NodeState
<1> HIDE DEF t
<1>4. \A o \in F : Honest(n, o.to, o.msg)
  BY <1>1 DEF Honest
<1>5. Upright(n, s, t)
  BY <1>3, <1>4, SayUpright
<1> QED
  BY <1>2, <1>5, UprightItself

\* A discovery starts where none is under way.
LEMMA StartRouteDiscoveryUpright ==
  ASSUME NEW n \in Node, NEW s, NodeInv(s), NEW dest \in Node, s.wait[dest].state = "none"
  PROVE  Upright(n, s, StartRouteDiscovery(n, s, dest))
<1> DEFINE a == NumberRREQ(s)
           c == [a EXCEPT !.retries[dest] = 0]
<1>1. Kept(s, a) /\ a.wait = s.wait /\ a.routes = s.routes
  BY NumberRREQKept
<1>2. a.out = s.out /\ a.failed = s.failed
  BY DEF NumberRREQ, NodeInv, NodeState
<1>3. StartRouteDiscovery(n, s, dest) = SendRREQ(n, c, dest)
  BY DEF StartRouteDiscovery, Check
<1> HIDE DEF a
<1>4. Kept(a, c) /\ c.wait = a.wait /\ c.routes = a.routes
  BY <1>1, RetriesKept, KeptInv
<1>5. c.out = a.out /\ c.failed = a.failed
  BY <1>1 DEF Kept, NodeInv, NodeState
<1> HIDE DEF c
<1>6. Upright(n, s, c)
  BY <1>1, <1>2, <1>4, <1>5, OthersUpright
<1>7. Upright(n, c, SendRREQ(n, c, dest))
  BY <1>1, <1>4, SendRREQUpright, KeptInv
<1> QED
  BY <1>3, <1>6, <1>7, UprightTwice

\* A retry finds its timer expired.
LEMMA HandleWaitForRREPUpright ==
  ASSUME NEW n \in Node, NEW s, NodeInv(s), NEW dest \in Node, s.wait[dest].state = "armed"
  PROVE  Upright(n, s, HandleWaitForRREP(n, s, dest))
<1> DEFINE w == [s.wait[dest] EXCEPT !.state = "stopped"]
           t == [s EXCEPT !.wait[dest] = w]
           atMost == s.wait[dest].lastTTL = NET_DIAMETER
           a == NumberRREQ(t)
           k == IF atMost THEN a.retries[dest] + 1 ELSE a.retries[dest]
           b == [a EXCEPT !.retries[dest] = k]
<1>1. w \in Wait /\ w.state = "stopped" /\ w.lastTTL > 0 /\ s.wait \in [Node -> Wait]
  BY DEF NodeInv, NodeState, Wait
<1>2. /\ t.routes = s.routes /\ t.out = s.out /\ t.failed = s.failed
      /\ t.wait = [s.wait EXCEPT ![dest] = w]
  <2> HIDE DEF w
  <2> QED
    BY DEF NodeInv, NodeState
<1>3. \/ HandleWaitForRREP(n, s, dest) = t
      \/ HandleWaitForRREP(n, s, dest) = SendRREQ(n, b, dest)
  <2>1. t = [s EXCEPT !.wait[dest].state = "stopped"]
    OBVIOUS
  <2>2. b = [a EXCEPT !.retries[dest] = IF atMost THEN @ + 1 ELSE @]
    OBVIOUS
  <2> HIDE DEF b, t, w
  <2> QED
    BY <2>1, <2>2 DEF HandleWaitForRREP, a
<1>4. Kept(s, t)
  <2> HIDE DEF w
  <2> QED
    BY <1>1, WaitKept
<1>5. t.wait[dest] = w
  BY <1>1, <1>2
<1> HIDE DEF t, w
<1>6. Kept(t, a) /\ a.wait = t.wait /\ a.routes = t.routes
  BY <1>4, NumberRREQKept, KeptInv
<1>7. a.out = t.out /\ a.failed = t.failed
  BY <1>4 DEF NumberRREQ, Kept, NodeInv, NodeState
<1>8. k \in Nat
  <2> HIDE DEF a
  <2> QED
    BY <1>6 DEF Kept, NodeInv, NodeState
<1> HIDE DEF a, k
<1>9. Kept(a, b) /\ b.wait = a.wait /\ b.routes = a.routes
  BY <1>6, <1>8, RetriesKept, KeptInv
<1>10. b.out = a.out /\ b.failed = a.failed
  BY <1>6 DEF Kept, NodeInv, NodeState
<1> HIDE DEF b
<1>11. Upright(n, s, t) /\ Upright(n, s, b)
  BY <1>2, <1>6, <1>7, <1>9, <1>10, OthersUpright
<1>12. Upright(n, b, SendRREQ(n, b, dest))
  BY <1>1, <1>5, <1>6, <1>9, SendRREQUpright, KeptInv
<1> QED
  BY <1>3, <1>11, <1>12, UprightTwice

\* A datagram goes on its way or waits for a route.
LEMMA EnsureRouteUpright ==
  ASSUME NEW n \in Node, NEW s, NodeInv(s), NEW d \in Datagram
  PROVE  Upright(n, s, EnsureRoute(n, s, d))
<1> DEFINE t == [s EXCEPT !.delayed = @ \cup {d}]
           r == s.routes[d.dst]
<1>1. d.dst \in Node
  BY DEF Datagram
<1>2. NodeInv(t) /\ t.wait = s.wait
  BY DelayedFacts
<1>3. t.routes = s.routes /\ t.out = s.out /\ t.failed = s.failed
  BY DEF NodeInv, NodeState
<1>4. \/ EnsureRoute(n, s, d) = SendDatagrams(s, r.nextHop, {d})
      \/ EnsureRoute(n, s, d) = t
      \/ s.wait[d.dst].state = "none" /\ EnsureRoute(n, s, d) = StartRouteDiscovery(n, t, d.dst)
  BY DEF EnsureRoute
<1> HIDE DEF t, r
<1>5. Upright(n, s, t)
  BY <1>3, OthersUpright
<1>6. Upright(n, s, SendDatagrams(s, r.nextHop, {d}))
  BY SendDatagramsUpright
<1>7. s.wait[d.dst].state = "none" => Upright(n, t, StartRouteDiscovery(n, t, d.dst))
  BY <1>1, <1>2, StartRouteDiscoveryUpright
<1> QED
  BY <1>4, <1>5, <1>6, <1>7, UprightTwice

-----------------------------------------------------------------------------
(* The ASSERTs: handleRREQ() and handleRREP() *)

\* A reply goes back to the originator, which is asked to acknowledge where it is the next hop.
LEMMA SendRREPUpright ==
  ASSUME NEW n \in Node, NEW s, NodeInv(s), NEW rrep \in RREP, s.routes[rrep.orig].state # "none",
         ~rrep.ack, Right(n, s) => (rrep.hops = 0 => rrep.dest = n)
  PROVE  Upright(n, s, SendRREP(s, rrep))
<1> SUFFICES ASSUME Right(n, s)
             PROVE  Upright(n, s, SendRREP(s, rrep))
  BY DEF Upright
<1> DEFINE r == s.routes[rrep.orig]
           t == AddPrecursor(s, rrep.orig, r.nextHop)
           u == [t EXCEPT !.failedNextHop = r.nextHop, !.rrepAckTimer = TRUE]
           m == [rrep EXCEPT !.ack = TRUE]
<1>1. rrep.orig \in Node /\ rrep.type = "RREP" /\ (rrep.hops = 0 => rrep.dest = n)
  BY DEF RREP
<1>2. r.nextHop \in Node /\ (r.hopCount = 1 => r.nextHop = rrep.orig)
  BY <1>1, RouteFacts DEF Right, Direct
<1>3. m.type = "RREP" /\ m.orig = rrep.orig /\ (m.hops = 0 => m.dest = n)
  BY <1>1 DEF RREP
<1>4. \/ SendRREP(s, rrep) = Unicast(t, r.nextHop, rrep)
      \/ r.hopCount = 1 /\ SendRREP(s, rrep) = Unicast(u, r.nextHop, m)
  BY DEF SendRREP
<1> HIDE DEF r, t, m
<1>5. Kept(s, t) /\ Upright(n, s, t)
  BY <1>1, <1>2, AddPrecursorKept, AddPrecursorUpright DEF t
<1>6. Kept(t, u)
  BY <1>2, <1>5, AckTimerKept, KeptInv
<1>7. u.routes = t.routes /\ u.out = t.out /\ u.failed = t.failed
  BY <1>5 DEF Kept, NodeInv, NodeState
<1> HIDE DEF u
<1>8. Upright(n, t, u)
  BY <1>7, OthersUpright
<1>9. Honest(n, r.nextHop, rrep)
  BY <1>1 DEF Honest
<1>10. Upright(n, t, Unicast(t, r.nextHop, rrep))
  BY <1>5, <1>9, UnicastUpright, KeptInv
<1>11. r.hopCount = 1 => Honest(n, r.nextHop, m)
  BY <1>2, <1>3 DEF Honest
<1>12. r.hopCount = 1 => Upright(n, u, Unicast(u, r.nextHop, m))
  BY <1>6, <1>11, UnicastUpright, KeptInv
<1> QED
  BY <1>4, <1>5, <1>8, <1>10, <1>12, UprightTwice

\* The reverse route leads over the node the request came from.
LEMMA SetReverseRouteUpright ==
  ASSUME NEW n, NEW s, NodeInv(s), NEW from \in Node, NEW p \in RREQ,
         s.routes[from].state # "none", p.hops = 0 => p.orig = from
  PROVE  Upright(n, s, SetReverseRoute(s, from, p))
<1> DEFINE r == s.routes[p.orig]
           far == p.hops + 1
           k == Higher(r.destSeqNum, p.origSeq)
           yes == TRUE
<1>1. p.orig \in Node /\ far \in Nat /\ far > 0 /\ (far = 1 => from = p.orig)
  BY DEF RREQ
<1>2. SetReverseRoute(s, from, p)
        \in {s, SetRoute(s, p.orig, from, far, yes, p.origSeq), SetRoute(s, p.orig, from, far, yes, k)}
  BY DEF SetReverseRoute
<1> HIDE DEF far, k, yes
<1>3. /\ Upright(n, s, SetRoute(s, p.orig, from, far, yes, p.origSeq))
      /\ Upright(n, s, SetRoute(s, p.orig, from, far, yes, k))
  BY <1>1, SetRouteUpright
<1> QED
  BY <1>2, <1>3, UprightItself

\* The destination answers,
LEMMA ReplyAsDestinationUpright ==
  ASSUME NEW n \in Node, NEW s, NodeInv(s), NEW p \in RREQ, s.routes[p.orig].state # "none",
         p.dest = n
  PROVE  Upright(n, s, ReplyAsDestination(s, p))
<1> DEFINE q == IF ~p.unknown /\ s.sequenceNum + 1 = p.destSeq THEN s.sequenceNum + 1
                ELSE s.sequenceNum
           t == [s EXCEPT !.sequenceNum = q]
           m == [type |-> "RREP", dest |-> p.dest, destSeq |-> q, orig |-> p.orig,
                 origSeq |-> p.origSeq, hops |-> 0, ack |-> FALSE]
<1>1. q \in Nat
  BY DEF NodeInv, NodeState
<1>2. ReplyAsDestination(s, p) = SendRREP(t, m)
  BY DEF ReplyAsDestination
<1> HIDE DEF q
<1>3. /\ t \in NodeState /\ t.out = s.out /\ t.routes = s.routes /\ t.wait = s.wait
      /\ t.failed = s.failed /\ t.rrepAckTimer = s.rrepAckTimer
      /\ t.failedNextHop = s.failedNextHop
  BY <1>1 DEF NodeInv, NodeState
<1>4. m \in RREP /\ m.orig = p.orig /\ m.dest = n /\ ~m.ack
  BY <1>1 DEF RREP, RREQ
<1> HIDE DEF t, m
<1>5. NodeInv(t)
  BY <1>3 DEF NodeInv
<1>6. Upright(n, s, t)
  BY <1>3, OthersUpright
<1>7. Upright(n, t, SendRREP(t, m))
  BY <1>3, <1>4, <1>5, SendRREPUpright
<1> QED
  BY <1>2, <1>6, <1>7, UprightTwice

\* and so does a node on the way, as one that is some hops from both ends.
LEMMA SendRepliesUpright ==
  ASSUME NEW n \in Node, NEW s, NodeInv(s), NEW from \in Node, NEW p \in RREQ,
         s.routes[p.orig].state # "none", s.routes[p.dest].state # "none"
  PROVE  Upright(n, s, SendReplies(s, from, p))
<1> SUFFICES ASSUME Right(n, s)
             PROVE  Upright(n, s, SendReplies(s, from, p))
  BY DEF Upright
<1> DEFINE r == s.routes[p.dest]
           h == s.routes[p.orig].hopCount
           a == AddPrecursor(s, p.dest, from)
           t == AddPrecursor(a, p.orig, r.nextHop)
           m == [type |-> "RREP", dest |-> p.dest, destSeq |-> r.destSeqNum,
                 orig |-> p.orig, origSeq |-> p.origSeq, hops |-> r.hopCount, ack |-> FALSE]
           u == SendRREP(t, m)
           g == [type |-> "RREP", dest |-> p.orig, destSeq |-> p.origSeq, orig |-> p.dest,
                 origSeq |-> 0, hops |-> h, ack |-> FALSE]
<1>1. p.orig \in Node /\ p.origSeq \in Nat /\ p.dest \in Node
  BY DEF RREQ
<1>2. r.nextHop \in Node /\ r.destSeqNum \in Nat /\ r.hopCount \in Nat /\ h \in Nat
  BY <1>1, RouteFacts
<1>3. r.hopCount # 0 /\ h # 0
  BY <1>1, <1>2 DEF Right, Direct
<1>4. SendReplies(s, from, p) \in {u, Unicast(u, r.nextHop, g)}
  BY DEF SendReplies
<1> HIDE DEF r, h
<1>5. m \in RREP /\ m.orig = p.orig /\ ~m.ack /\ m.hops # 0
  BY <1>1, <1>2, <1>3 DEF RREP
<1>6. g.type = "RREP" /\ g.hops # 0 /\ ~g.ack
  BY <1>3
<1>7. Kept(s, a) /\ Upright(n, s, a)
  BY <1>1, AddPrecursorKept, AddPrecursorUpright
<1> HIDE DEF a, m, g
<1>8. Kept(a, t) /\ Upright(n, a, t)
  BY <1>1, <1>2, <1>7, AddPrecursorKept, AddPrecursorUpright, KeptInv
<1> HIDE DEF t
<1>9. NodeInv(t) /\ t.routes[m.orig].state # "none"
  BY <1>1, <1>5, <1>7, <1>8 DEF Kept
<1>10. Kept(t, u) /\ Upright(n, t, u)
  BY <1>5, <1>9, SendRREPKept, SendRREPUpright
<1> HIDE DEF u
<1>11. Honest(n, r.nextHop, g)
  BY <1>6 DEF Honest
<1>12. Upright(n, u, Unicast(u, r.nextHop, g))
  BY <1>10, <1>11, UnicastUpright, KeptInv
<1> QED
  BY <1>4, <1>7, <1>8, <1>10, <1>12, UprightTwice

\* A request that is passed on has made a hop.
LEMMA ForwardRREQUpright ==
  ASSUME NEW n \in Node, NEW s, NodeInv(s), NEW p \in RREQ
  PROVE  Upright(n, s, ForwardRREQ(s, p))
<1> DEFINE k == Higher(p.destSeq, s.routes[p.dest].destSeqNum)
           m == [p EXCEPT !.ttl = @ - 1, !.hops = @ + 1, !.unknown = FALSE, !.destSeq = k]
<1>1. p.hops \in Nat /\ p.hops + 1 # 0
  BY DEF RREQ
<1>2. m.type = "RREQ" /\ m.hops # 0
  <2> HIDE DEF k
  <2> QED
    BY <1>1 DEF RREQ
<1>3. ForwardRREQ(s, p) \in {s, Broadcast(s, m)}
  BY DEF ForwardRREQ
<1> HIDE DEF m
<1>4. Honest(n, Everybody, m)
  BY <1>2 DEF Honest
<1> QED
  BY <1>3, <1>4, BroadcastUpright, UprightItself

\* A request arrives.
LEMMA HandleRREQUpright ==
  ASSUME NEW n \in Node, NEW s, NodeInv(s), NEW from \in Node, NEW p \in RREQ,
         p.hops = 0 => p.orig = from
  PROVE  Upright(n, s, HandleRREQ(n, s, from, p))
<1> DEFINE a == SetPreviousHop(s, from, p.origSeq)
           c == [a EXCEPT !.arrived = @ \cup {p.id}]
           b == SetReverseRoute(c, from, p)
           r == b.routes[p.dest]
<1>1. p.origSeq \in Nat /\ p.id \in Nat /\ p.dest \in Node
  BY DEF RREQ
<1>2. Kept(s, a) /\ a.routes[from].state = "active" /\ Upright(n, s, a)
  BY <1>1, SetPreviousHopKept, SetPreviousHopUpright
<1>3. \/ HandleRREQ(n, s, from, p) \in {s, a, b, ForwardRREQ(b, p)}
      \/ p.dest = n /\ HandleRREQ(n, s, from, p) = ReplyAsDestination(b, p)
      \/ r.state = "active" /\ HandleRREQ(n, s, from, p) = SendReplies(b, from, p)
  BY DEF HandleRREQ, ReplyForDestination
<1> HIDE DEF a
<1>4. NodeInv(a)
  BY <1>2 DEF Kept
<1>5. /\ c \in NodeState /\ c.out = a.out /\ c.routes = a.routes /\ c.wait = a.wait
      /\ c.failed = a.failed /\ c.rrepAckTimer = a.rrepAckTimer
      /\ c.failedNextHop = a.failedNextHop
  BY <1>1, <1>4 DEF NodeInv, NodeState
<1> HIDE DEF c
<1>6. NodeInv(c) /\ Upright(n, a, c)
  BY <1>4, <1>5, OthersUpright DEF NodeInv
<1>7. Kept(c, b) /\ b.routes[p.orig].state # "none"
  BY <1>6, SetReverseRouteKept
<1>8. Upright(n, c, b)
  BY <1>2, <1>5, <1>6, SetReverseRouteUpright
<1> HIDE DEF b
<1>9. NodeInv(b)
  BY <1>7 DEF Kept
<1>10. Upright(n, b, ForwardRREQ(b, p))
  BY <1>9, ForwardRREQUpright
<1>11. p.dest = n => Upright(n, b, ReplyAsDestination(b, p))
  BY <1>7, <1>9, ReplyAsDestinationUpright
<1>12. r.state = "active" => Upright(n, b, SendReplies(b, from, p))
  BY <1>7, <1>9, SendRepliesUpright
<1> QED
  BY <1>2, <1>3, <1>6, <1>8, <1>10, <1>11, <1>12, UprightTwice, UprightItself

\* A node on the way takes the next hop to have a route of its own, and nobody asked it to
\* acknowledge.
LEMMA ForwardRREPUpright ==
  ASSUME NEW n \in Node, NEW s, NodeInv(s), NEW from \in Node, NEW p \in RREP,
         s.routes[p.dest].state # "none", ~p.ack
  PROVE  Upright(n, s, ForwardRREP(s, from, p))
<1> DEFINE back == s.routes[p.orig]
           ahead == s.routes[p.dest].nextHop
           holds == s.routes[ahead].state # "none"
           c == Check(s, holds, "nextHop")
           t == AddPrecursor(c, p.dest, back.nextHop)
           u == AddPrecursor(t, ahead, back.nextHop)
           m == [p EXCEPT !.hops = @ + 1, !.ack = FALSE]
<1>1. p.orig \in Node /\ p.dest \in Node /\ p.hops \in Nat /\ p.hops + 1 # 0
  BY DEF RREP
<1>2. ahead \in Node /\ (back.state # "none" => back.nextHop \in Node) /\ holds \in BOOLEAN
  BY <1>1, RouteFacts
<1>3. m.type = "RREP" /\ m.hops # 0 /\ ~m.ack
  BY <1>1 DEF RREP
<1>4. \/ ForwardRREP(s, from, p) = s
      \/ back.state # "none" /\ ForwardRREP(s, from, p) = Unicast(u, back.nextHop, m)
  BY DEF ForwardRREP
<1>5. Supported(s) => holds
  BY <1>1, <1>2 DEF Supported, Rests
<1> HIDE DEF back, ahead, m, holds
<1>6. Kept(s, c) /\ Upright(n, s, c)
  BY <1>2, <1>5, CheckKept, CheckNextHopUpright DEF Failures
<1> HIDE DEF c
<1>7. ASSUME back.state # "none"
      PROVE  Upright(n, c, Unicast(u, back.nextHop, m))
  <2>1. back.nextHop \in Node
    BY <1>2, <1>7
  <2>2. Kept(c, t) /\ Upright(n, c, t)
    BY <1>1, <1>6, <2>1, AddPrecursorKept, AddPrecursorUpright, KeptInv
  <2> HIDE DEF t
  <2>3. Kept(t, u) /\ Upright(n, t, u)
    BY <1>2, <2>1, <2>2, AddPrecursorKept, AddPrecursorUpright, KeptInv
  <2> HIDE DEF u
  <2>4. Honest(n, back.nextHop, m)
    BY <1>3 DEF Honest
  <2>5. Upright(n, u, Unicast(u, back.nextHop, m))
    BY <2>3, <2>4, UnicastUpright, KeptInv
  <2> QED
    BY <2>2, <2>3, <2>5, UprightTwice
<1> QED
  BY <1>4, <1>6, <1>7, UprightItself, UprightTwice

\* The route of a reply leads over the node it came from.
LEMMA TakenUpright ==
  ASSUME NEW n, NEW s, NodeInv(s), NEW from \in Node, NEW p \in RREP,
         s.routes[from].state # "none", p.hops = 0 => p.dest = from
  PROVE  Upright(n, s, SetRoute(s, p.dest, from, p.hops + 1, TRUE, p.destSeq))
<1> DEFINE yes == TRUE
           far == p.hops + 1
<1>1. p.dest \in Node /\ far \in Nat /\ far > 0 /\ (far = 1 => from = p.dest)
  BY DEF RREP
<1> HIDE DEF yes, far
<1>2. Upright(n, s, SetRoute(s, p.dest, from, far, yes, p.destSeq))
  BY <1>1, SetRouteUpright
<1> QED
  BY <1>2 DEF yes, far

\* A reply arrives.
LEMMA HandleRREPUpright ==
  ASSUME NEW n \in Node, NEW s, NodeInv(s), s.out = {}, NEW from \in Node, NEW p \in RREP,
         p.hops = 0 => p.dest = from, p.ack => n = p.orig
  PROVE  Upright(n, s, HandleRREP(n, s, from, p))
<1> DEFINE a == SetPreviousHop(s, from, p.origSeq)
           taken(t) == SetRoute(t, p.dest, from, p.hops + 1, TRUE, p.destSeq)
           b == IF IsBetter(a.routes[p.dest], p) THEN taken(a) ELSE a
           d == taken(b)
<1>1. /\ p.origSeq \in Nat /\ p.dest \in Node /\ p.destSeq \in Nat /\ p.hops + 1 \in Nat
      /\ p.ack \in BOOLEAN
  BY DEF RREP
<1>2. \/ n # p.orig /\ HandleRREP(n, s, from, p) = ForwardRREP(b, from, p)
      \/ HandleRREP(n, s, from, p) = b
      \/ HandleRREP(n, s, from, p) = CompleteRouteDiscovery(d, p.dest)
  BY DEF HandleRREP
<1>3. Kept(s, a) /\ a.routes[from].state = "active" /\ Upright(n, s, a)
  BY <1>1, SetPreviousHopKept, SetPreviousHopUpright
<1>4. a.out = {}
  BY DEF SetPreviousHop, SetRoute
<1> HIDE DEF a
<1>5. NodeInv(a) /\ a.routes[from].state # "none"
  BY <1>3 DEF Kept
<1>6. ASSUME NEW x, NodeInv(x), x.routes[from].state # "none"
      PROVE  /\ Kept(x, taken(x)) /\ taken(x).routes[p.dest].state = "active"
             /\ taken(x).out = x.out /\ Upright(n, x, taken(x))
  BY <1>6, TakenKept, TakenUpright
<1>7. Kept(a, b) /\ b.routes[p.dest].state # "none" /\ b.out = {} /\ Upright(n, a, b)
  BY <1>4, <1>5, <1>6, KeptItself, UprightItself DEF IsBetter
<1> HIDE DEF b
<1>8. NodeInv(b) /\ b.routes[from].state # "none"
  BY <1>5, <1>7 DEF Kept
<1>9. NodeInv(d) /\ d.out = {} /\ Upright(n, b, d)
  BY <1>6, <1>7, <1>8, KeptInv
<1> HIDE DEF d
<1>10. n # p.orig => Upright(n, b, ForwardRREP(b, from, p))
  BY <1>1, <1>7, <1>8, ForwardRREPUpright
<1>11. Upright(n, d, CompleteRouteDiscovery(d, p.dest))
  BY <1>1, <1>9, CompleteRouteDiscoveryUpright
<1> QED
  BY <1>2, <1>3, <1>7, <1>9, <1>10, <1>11, UprightTwice

-----------------------------------------------------------------------------
(* The ASSERTs: the other handlers *)

\* A hello is sent,
LEMMA SendHelloUpright ==
  ASSUME NEW n \in Node, NEW s, NodeInv(s)
  PROVE  Upright(n, s, SendHello(n, s))
<1> DEFINE m == [type |-> "HELLO", dest |-> n, destSeq |-> s.sequenceNum]
<1>1. m.type = "HELLO"
  OBVIOUS
<1>2. SendHello(n, s) \in {s, Broadcast(s, m)}
  BY DEF SendHello
<1> HIDE DEF m
<1>3. Honest(n, Everybody, m)
  BY <1>1 DEF Honest
<1> QED
  BY <1>2, <1>3, BroadcastUpright, UprightItself

\* or heard.
LEMMA HandleHelloUpright ==
  ASSUME NEW n, NEW s, NodeInv(s), NEW p \in HELLO
  PROVE  Upright(n, s, HandleHello(s, p))
<1> DEFINE yes == TRUE
           one == 1
<1>1. p.dest \in Node /\ one \in Nat /\ one > 0
  BY DEF HELLO
<1>2. HandleHello(s, p) = SetRoute(s, p.dest, p.dest, one, yes, p.destSeq)
  BY DEF HandleHello
<1> HIDE DEF yes, one
<1> QED
  BY <1>1, <1>2, SetRouteUpright

\* Routes are told to be lost,
LEMMA SendRERRUpright ==
  ASSUME NEW n, NEW s, NodeInv(s), NEW lost, NEW seqs
  PROVE  Upright(n, s, SendRERR(s, lost, seqs))
<1> DEFINE m == [type |-> "RERR", lost |-> lost,
                 seqs |-> [d \in Node |-> IF d \in lost THEN seqs[d] ELSE 0]]
           F == {[to |-> Everybody, msg |-> m]}
           t == Broadcast([s EXCEPT !.rerrCount = @ + 1], m)
<1>1. m.type = "RERR"
  OBVIOUS
<1>2. SendRERR(s, lost, seqs) \in {s, t}
  BY DEF SendRERR
<1> HIDE DEF m
<1>3. t.routes = s.routes /\ t.out = s.out \cup F /\ t.failed = s.failed
  BY DEF Broadcast, NodeInv, NodeState
<1> HIDE DEF t
<1>4. \A o \in F : Honest(n, o.to, o.msg)
  BY <1>1 DEF Honest
<1>5. Upright(n, s, t)
  BY <1>3, <1>4, SayUpright
<1> QED
  BY <1>2, <1>5, UprightItself

\* but lead where they led.
LEMMA InvalidatedUpright ==
  ASSUME NEW n, NEW s, NodeInv(s), NEW f \in [Node -> Route], NEW via,
         \A d \in via : s.routes[d].state # "none",
         \A d \in Node : \/ f[d] = s.routes[d]
                         \/ d \in via /\ \E seq \in Nat : f[d] = Invalidated(s.routes[d], seq)
  PROVE  Upright(n, s, [s EXCEPT !.routes = f])
<1> DEFINE t == [s EXCEPT !.routes = f]
<1>1. t.routes = f /\ t.out = s.out /\ t.failed = s.failed
  BY DEF NodeInv, NodeState
<1> HIDE DEF t
<1>2. ASSUME NEW d \in Node
      PROVE  /\ s.routes[d].state # "none" => f[d].state # "none"
             /\ f[d].state # "none" => /\ s.routes[d].state # "none"
                                       /\ f[d].nextHop = s.routes[d].nextHop
                                       /\ f[d].hopCount = s.routes[d].hopCount
  <2>1. s.routes[d] \in Route
    BY RouteFacts
  <2>2. CASE f[d] = s.routes[d]
    BY <2>2
  <2>3. ASSUME d \in via, NEW seq \in Nat, f[d] = Invalidated(s.routes[d], seq)
        PROVE  /\ s.routes[d].state # "none" /\ f[d].state # "none"
               /\ f[d].nextHop = s.routes[d].nextHop /\ f[d].hopCount = s.routes[d].hopCount
    BY <2>1, <2>3 DEF Invalidated, Route
  <2> QED
    BY <2>2, <2>3
<1>3. Grows(s.routes, t.routes)
  BY <1>1, <1>2 DEF Grows
<1>4. Upright(n, s, t)
  BY <1>1, <1>3, RoutesUpright
<1> QED
  BY <1>4 DEF t

\* So it is at the node that sees a neighbour go,
LEMMA HandleLinkBreakUpright ==
  ASSUME NEW n, NEW s, NodeInv(s), NEW dest \in Node
  PROVE  Upright(n, s, HandleLinkBreak(s, dest))
<1> DEFINE gone == s.routes[dest].nextHop
           via == {d \in Node : s.routes[d].state # "none" /\ s.routes[d].nextHop = gone}
           seqs == [d \in Node |-> s.routes[d].destSeqNum
                                     + IF d \in via /\ s.routes[d].validDestNum THEN 1 ELSE 0]
           f == [d \in Node |-> IF d \in via THEN Invalidated(s.routes[d], seqs[d])
                                ELSE s.routes[d]]
           t == [s EXCEPT !.routes = f]
<1>1. HandleLinkBreak(s, dest) \in {s, SendRERR(t, via \cup {gone}, seqs)}
  BY DEF HandleLinkBreak
<1>2. \A d \in via : s.routes[d].state # "none"
  OBVIOUS
<1>3. \A d \in Node : seqs[d] \in Nat
  <2> HIDE DEF via
  <2> QED
    BY RouteFacts
<1> HIDE DEF seqs, via, gone
<1>4. \A d \in Node : f[d] \in Route /\ (f[d].state # "none" => f[d].nextHop # Nobody)
  <2> SUFFICES ASSUME NEW d \in Node
               PROVE  f[d] \in Route /\ (f[d].state # "none" => f[d].nextHop # Nobody)
    OBVIOUS
  <2>1. d \in via => s.routes[d].state # "none"
    BY <1>2
  <2>2. s.routes[d] \in Route /\ (s.routes[d].state # "none" => s.routes[d].nextHop # Nobody)
    BY RouteFacts, NodesAreNodes
  <2> QED
    BY <1>3, <2>1, <2>2 DEF Invalidated, Route
<1>5. \A d \in Node : \/ f[d] = s.routes[d]
                      \/ d \in via /\ \E seq \in Nat : f[d] = Invalidated(s.routes[d], seq)
  BY <1>3
<1>6. f \in [Node -> Route]
  BY <1>4
<1>7. \A d \in Node : s.routes[d].state # "none" => f[d].state # "none"
  <2> SUFFICES ASSUME NEW d \in Node, s.routes[d].state # "none"
               PROVE  f[d].state # "none"
    OBVIOUS
  <2>1. s.routes[d] \in Route
    BY RouteFacts
  <2> QED
    BY <2>1 DEF Invalidated, Route
<1> HIDE DEF f
<1>8. Kept(s, t)
  BY <1>4, <1>6, <1>7, RoutesKept
<1>9. Upright(n, s, t)
  BY <1>2, <1>5, <1>6, InvalidatedUpright
<1> HIDE DEF t
<1>10. Upright(n, t, SendRERR(t, via \cup {gone}, seqs))
  BY <1>8, SendRERRUpright, KeptInv
<1> QED
  BY <1>1, <1>9, <1>10, UprightTwice, UprightItself

\* and at those that are told.
LEMMA HandleRERRUpright ==
  ASSUME NEW n, NEW s, NodeInv(s), NEW from \in Node, NEW p \in RERR
  PROVE  Upright(n, s, HandleRERR(s, from, p))
<1> DEFINE via == {d \in p.lost : s.routes[d].state # "none" /\ s.routes[d].nextHop = from}
           told == {d \in via : s.routes[d].precursors # {}}
           f == [d \in Node |-> IF d \in via THEN Invalidated(s.routes[d], p.seqs[d])
                                ELSE s.routes[d]]
           t == [s EXCEPT !.routes = f]
<1>1. p.seqs \in [Node -> Nat]
  BY DEF RERR
<1>2. HandleRERR(s, from, p) \in {t, SendRERR(t, told, p.seqs)}
  <2>1. t = [s EXCEPT !.routes = [d \in Node |-> IF d \in via THEN Invalidated(@[d], p.seqs[d])
                                                 ELSE @[d]]]
    OBVIOUS
  <2> HIDE DEF t
  <2> QED
    BY <2>1 DEF HandleRERR
<1>3. \A d \in via : s.routes[d].state # "none"
  OBVIOUS
<1> HIDE DEF via, told
<1>4. \A d \in Node : f[d] \in Route /\ (f[d].state # "none" => f[d].nextHop # Nobody)
  <2> SUFFICES ASSUME NEW d \in Node
               PROVE  f[d] \in Route /\ (f[d].state # "none" => f[d].nextHop # Nobody)
    OBVIOUS
  <2>1. d \in via => s.routes[d].state # "none"
    BY <1>3
  <2>2. s.routes[d] \in Route /\ (s.routes[d].state # "none" => s.routes[d].nextHop # Nobody)
    BY RouteFacts, NodesAreNodes
  <2>3. p.seqs[d] \in Nat
    BY <1>1
  <2> QED
    BY <2>1, <2>2, <2>3 DEF Invalidated, Route
<1>5. \A d \in Node : \/ f[d] = s.routes[d]
                      \/ d \in via /\ \E seq \in Nat : f[d] = Invalidated(s.routes[d], seq)
  BY <1>1
<1>6. f \in [Node -> Route]
  BY <1>4
<1>7. \A d \in Node : s.routes[d].state # "none" => f[d].state # "none"
  <2> SUFFICES ASSUME NEW d \in Node, s.routes[d].state # "none"
               PROVE  f[d].state # "none"
    OBVIOUS
  <2>1. s.routes[d] \in Route
    BY RouteFacts
  <2> QED
    BY <2>1 DEF Invalidated, Route
<1> HIDE DEF f
<1>8. Kept(s, t)
  BY <1>4, <1>6, <1>7, RoutesKept
<1>9. Upright(n, s, t)
  BY <1>3, <1>5, <1>6, InvalidatedUpright
<1> HIDE DEF t
<1>10. Upright(n, t, SendRERR(t, told, p.seqs))
  BY <1>8, SendRERRUpright, KeptInv
<1> QED
  BY <1>2, <1>9, <1>10, UprightTwice

\* A datagram is forwarded, or dropped.
LEMMA ForwardDatagramUpright ==
  ASSUME NEW n, NEW s, NodeInv(s), NEW d \in Datagram
  PROVE  Upright(n, s, ForwardDatagram(s, d))
<1> DEFINE r == s.routes[d.dst]
           seq == IF r.validDestNum THEN r.destSeqNum + 1 ELSE r.destSeqNum
           f == [e \in Node |-> IF r.validDestNum THEN seq ELSE 0]
           q == [r EXCEPT !.destSeqNum = seq]
           a == WithRoute(s, d.dst, q)
           t == SendRERR(a, {d.dst}, f)
           u == IF r.state = "active" THEN s ELSE t
<1>1. d.dst \in Node
  BY DEF Datagram
<1>2. r \in Route /\ r.destSeqNum \in Nat /\ (r.state # "none" => r.nextHop \in Node)
  BY <1>1, RouteFacts
<1>3. seq \in Nat
  BY <1>2
<1>4. ForwardDatagram(s, d) \in {s, SendDatagrams(u, r.nextHop, {d})}
  <2>1. a = [s EXCEPT !.routes[d.dst].destSeqNum = seq]
    BY DEF WithRoute
  <2> HIDE DEF a
  <2> QED
    BY <2>1 DEF ForwardDatagram
<1> HIDE DEF seq
<1>5. q \in Route /\ q.state = r.state /\ q.nextHop = r.nextHop /\ q.hopCount = r.hopCount
  BY <1>2, <1>3 DEF Route
<1>6. q.state # "none" => q.nextHop # Nobody
  BY <1>2, <1>5, NodesAreNodes
<1>7. {d.dst} \in SUBSET Node /\ \A e \in {d.dst} : f[e] \in Nat
  BY <1>1, <1>3
<1>8. q.state # "none" <=> s.routes[d.dst].state # "none"
  BY <1>5
<1>9. q.nextHop = s.routes[d.dst].nextHop /\ q.hopCount = s.routes[d.dst].hopCount
  BY <1>5
<1> HIDE DEF q, f
<1>10. Kept(s, a) /\ Upright(n, s, a)
  BY <1>1, <1>5, <1>6, <1>8, <1>9, RouteKept, RouteUpright
<1> HIDE DEF a
<1>11. Kept(a, t) /\ Upright(n, a, t)
  BY <1>7, <1>10, SendRERRKept, SendRERRUpright, KeptInv
<1> HIDE DEF t, r
<1>12. NodeInv(u) /\ Upright(n, s, u)
  BY <1>10, <1>11, KeptInv, UprightItself, UprightTwice
<1> HIDE DEF u
<1>13. Upright(n, u, SendDatagrams(u, r.nextHop, {d}))
  BY <1>12, SendDatagramsUpright
<1> QED
  BY <1>4, <1>12, <1>13, UprightTwice, UprightItself

\* An honest message arrives.
LEMMA HandleUpright ==
  ASSUME NEW n \in Node, NEW s, NodeInv(s), s.out = {}, NEW from \in Node, NEW p \in Message,
         Honest(from, n, p)
  PROVE  Upright(n, s, Handle(n, s, from, p))
<1>1. CASE p.type = "RREQ"
  BY <1>1, MessageKinds, HandleRREQUpright DEF Handle, Honest
<1>2. CASE p.type = "RREP"
  BY <1>2, MessageKinds, HandleRREPUpright DEF Handle, Honest
<1>3. CASE p.type = "HELLO"
  BY <1>3, MessageKinds, HandleHelloUpright DEF Handle
<1>4. CASE p.type = "RERR"
  BY <1>4, MessageKinds, HandleRERRUpright DEF Handle
<1>5. CASE p.type = "DATA"
  <2>1. p.data \in Datagram
    BY <1>5, MessageKinds DEF DATA
  <2>2. Handle(n, s, from, p) = HandleDatagram(n, s, p.data)
    BY <1>5 DEF Handle
  <2>3. HandleDatagram(n, s, p.data)
          \in {s, EnsureRoute(n, s, p.data), ForwardDatagram(s, p.data)}
    BY DEF HandleDatagram
  <2> QED
    BY <2>1, <2>2, <2>3, EnsureRouteUpright, ForwardDatagramUpright, UprightItself
<1> QED
  BY <1>1, <1>2, <1>3, <1>4, <1>5, MessageKinds DEF Honest

-----------------------------------------------------------------------------
(* The ASSERTs: every step *)

\* A route grows old: what rests on it may be left behind.
LEMMA ExpungeRouteRight ==
  ASSUME NEW n, NEW s, NodeInv(s), Right(n, s), NEW dest \in Node
  PROVE  LET t == ExpungeRoute(s, dest)
         IN NodeInv(t) /\ Right(n, t) /\ t.failed = s.failed
<1> DEFINE r == [s.routes[dest] EXCEPT !.state = "inactive"]
           t == ExpungeRoute(s, dest)
<1>1. s.routes[dest] \in Route /\ s.routes \in [Node -> Route]
  BY RouteFacts DEF NodeInv, NodeState
<1>2. \/ t = s
      \/ s.routes[dest].state = "active" /\ t = WithRoute(s, dest, r)
      \/ t = WithRoute(s, dest, NoRoute)
  BY DEF ExpungeRoute, WithRoute
<1>3. s.routes[dest].state = "active" =>
        r \in Route /\ Direct(dest, r) /\ (r.state # "none" => r.nextHop # Nobody)
  BY <1>1, RouteFacts, NodesAreNodes DEF Route, Right, Direct
<1>4. NoRoute \in Route /\ NoRoute.state = "none" /\ Direct(dest, NoRoute)
  BY DEF NoRoute, Route, Direct
<1> HIDE DEF r, t
<1>5. ASSUME NEW q \in Route, Direct(dest, q), q.state # "none" => q.nextHop # Nobody
      PROVE  LET u == WithRoute(s, dest, q) IN NodeInv(u) /\ Right(n, u) /\ u.failed = s.failed
  <2> DEFINE u == WithRoute(s, dest, q)
  <2>1. /\ u \in NodeState /\ u.out = s.out /\ u.wait = s.wait /\ u.failed = s.failed
        /\ u.rrepAckTimer = s.rrepAckTimer /\ u.failedNextHop = s.failedNextHop
        /\ u.routes = [s.routes EXCEPT ![dest] = q]
    BY DEF WithRoute, NodeInv, NodeState
  <2> HIDE DEF u
  <2>2. u.routes[dest] = q /\ \A d \in Node \ {dest} : u.routes[d] = s.routes[d]
    BY <1>1, <2>1
  <2>3. NodeInv(u)
    BY <1>5, <2>1, <2>2 DEF NodeInv
  <2>4. Right(n, u)
    BY <1>5, <2>1, <2>2 DEF Right
  <2> QED
    BY <2>1, <2>3, <2>4 DEF u
<1> QED
  BY <1>2, <1>3, <1>4, <1>5 DEF t

\* A node without routes and messages is right, and its routes are supported.
LEMMA EmptyRight ==
  ASSUME NEW n, NEW t, t.routes = FreshNode.routes, t.out = {}
  PROVE  Right(n, t) /\ Supported(t)
<1>1. \A d \in Node : t.routes[d].state = "none"
  BY DEF FreshNode, NoRoute
<1> QED
  BY <1>1 DEF Right, Direct, Supported, Rests

\* A crash takes the routes,
LEMMA ClearStateUpright ==
  ASSUME NEW n, NEW s
  PROVE  Upright(n, s, ClearState(s))
<1> DEFINE t == ClearState(s)
<1>1. t.routes = FreshNode.routes /\ t.out = {} /\ t.failed = {}
  BY DEF ClearState, FreshNode
<1> HIDE DEF t
<1>2. Upright(n, s, t)
  BY <1>1, EmptyRight DEF Upright
<1> QED
  BY <1>2 DEF t

\* and what happens to a node apart from that has nothing to do with them.
LEMMA RestUpright ==
  ASSUME NEW n, NEW s, NodeInv(s), NEW x
  PROVE  /\ Upright(n, s, HandleRREPACKTimer(s)) /\ Upright(n, s, HandleBlackListTimer(s, x))
         /\ Upright(n, s, [s EXCEPT !.rreqCount = 0, !.rerrCount = 0])
         /\ Upright(n, s, [s EXCEPT !.arrived = @ \ {x}])
         /\ Upright(n, s, Restarted(s)) /\ Upright(n, s, [s EXCEPT !.rebooted = FALSE])
<1>1. ASSUME NEW t, \/ t = HandleRREPACKTimer(s) \/ t = HandleBlackListTimer(s, x)
                    \/ t = [s EXCEPT !.rreqCount = 0, !.rerrCount = 0]
                    \/ t = [s EXCEPT !.arrived = @ \ {x}]
                    \/ t = Restarted(s) \/ t = [s EXCEPT !.rebooted = FALSE]
      PROVE  Upright(n, s, t)
  <2>1. t.routes = s.routes /\ t.out = s.out /\ t.failed = s.failed
    BY <1>1 DEF HandleRREPACKTimer, HandleBlackListTimer, Restarted, NodeInv, NodeState
  <2> QED
    BY <2>1, OthersUpright
<1> QED
  BY <1>1

\* Every node is right about its neighbours, and every message about its sender.
Rightly ==
  /\ \A n \in Node : Right(n, node[n])
  /\ \A p \in net : Honest(p.from, p.to, p.msg)
\* No ASSERT has failed but the one on the next hop.
OneAssertOpen == \A n \in Node : node[n].failed \subseteq {"nextHop"}
\* The next hop of every route has an entry.
HopsAreKnown == \A n \in Node : Supported(node[n])
\* The invariant of the ASSERTs.
Sane == AInv /\ Rightly /\ OneAssertOpen

\* What a node sends keeps the medium honest.
LEMMA PacketsHonest ==
  ASSUME NEW n \in Node, NEW t, NodeInv(t), Right(n, t), NEW p \in Packets(n, t.out)
  PROVE  Honest(p.from, p.to, p.msg)
<1>1. PICK o \in t.out : /\ p.from = n /\ p.msg = o.msg
                         /\ p.to \in (IF o.to = Everybody THEN Hears(n) ELSE {o.to})
  BY DEF Packets
<1>2. Honest(n, o.to, o.msg) /\ o.msg \in Message
  BY DEF Right, NodeInv, NodeState
<1>3. CASE o.to # Everybody
  BY <1>1, <1>2, <1>3
<1>4. CASE o.to = Everybody
  <2>1. o.msg.type = "RREP" => o.msg.orig # Everybody
    BY <1>2, MessageKinds, NodesAreNodes DEF RREP
  <2> QED
    BY <1>1, <1>2, <1>4, <2>1 DEF Honest
<1> QED
  BY <1>3, <1>4

\* What a node is after it has run a handler.
LEMMA RunFields ==
  ASSUME TypeOK, NEW n \in Node, NEW t, NodeInv(t), NEW taken, Run(n, t, taken)
  PROVE  /\ node'[n].routes = t.routes /\ node'[n].failed = t.failed /\ node'[n].out = {}
         /\ \A m \in Node \ {n} : node'[m] = node[m]
<1> DEFINE u == [t EXCEPT !.out = {}]
<1>1. u.routes = t.routes /\ u.failed = t.failed /\ u.out = {}
  BY DEF NodeInv, NodeState
<1>2. node' = [node EXCEPT ![n] = u] /\ node \in [Node -> NodeState]
  BY DEF Run, TypeOK
<1> HIDE DEF u
<1> QED
  BY <1>1, <1>2

\* A node runs a handler that leaves it right.
LEMMA RunRightly ==
  ASSUME TypeOK, Rightly, OneAssertOpen, NEW n \in Node, NEW t, NodeInv(t), NEW taken, Run(n, t, taken),
         Right(n, t), t.failed \subseteq {"nextHop"}
  PROVE  Rightly' /\ OneAssertOpen'
<1>1. /\ node'[n].routes = t.routes /\ node'[n].failed = t.failed /\ node'[n].out = {}
      /\ \A m \in Node \ {n} : node'[m] = node[m]
  BY RunFields
<1>2. Right(n, node'[n])
  BY <1>1 DEF Right
<1>3. \A m \in Node : Right(m, node'[m])
  BY <1>1, <1>2 DEF Rightly
<1>4. \A p \in net' : Honest(p.from, p.to, p.msg)
  BY PacketsHonest DEF Run, Rightly
<1>5. OneAssertOpen'
  BY <1>1 DEF OneAssertOpen
<1> QED
  BY <1>3, <1>4, <1>5 DEF Rightly

\* A node runs a handler that fails no ASSERT and leaves every route supported.
LEMMA RunKnown ==
  ASSUME TypeOK, HopsAreKnown, Running, NEW n \in Node, NEW t, NodeInv(t), NEW taken,
         Run(n, t, taken), Supported(t), t.failed = {}
  PROVE  HopsAreKnown' /\ Running'
<1>1. /\ node'[n].routes = t.routes /\ node'[n].failed = t.failed /\ node'[n].out = {}
      /\ \A m \in Node \ {n} : node'[m] = node[m]
  BY RunFields
<1>2. Supported(node'[n])
  BY <1>1 DEF Supported
<1> QED
  BY <1>1, <1>2 DEF HopsAreKnown, Running

\* A step in which a node runs an upright handler.
Handled ==
  \E n \in Node : \E t, taken : Run(n, t, taken) /\ NodeInv(t) /\ Upright(n, node[n], t)

\* A message that arrives is handled uprightly,
LEMMA ReceiveHandled ==
  ASSUME AInv, Rightly, NEW p \in net, Receive(p)
  PROVE  Handled
<1> DEFINE n == p.to
           t == Handle(n, node[n], p.from, p.msg)
<1>1. TypeOK /\ Ready /\ Placed
  BY DEF AInv
<1>2. n \in Node /\ p.from \in Node /\ p.msg \in Message
      /\ (p.msg.type = "DATA" => p \in DataOf(net))
  BY <1>1, PacketFields
<1>3. Run(n, t, {p})
  BY DEF Receive
<1>4. Honest(p.from, n, p.msg)
  BY DEF Rightly
<1>5. p.msg.type = "DATA" => p.msg.data \notin node[n].delayed
  BY <1>1, <1>2, OnAirOnly
<1> HIDE DEF n
<1>6. NodeInv(node[n]) /\ node[n].out = {} /\ Distinct(node[n].delayed)
  BY <1>1, <1>2, DelayedDistinct DEF Ready
<1>7. NodeInv(t)
  <2>1. Carries(node[n], t, IF p.msg.type = "DATA" THEN {p.msg.data} ELSE {})
    BY <1>2, <1>5, <1>6, HandleCarries
  <2> QED
    BY <2>1 DEF Carries
<1>8. Upright(n, node[n], t)
  BY <1>2, <1>4, <1>6, HandleUpright
<1> HIDE DEF t
<1> QED
  BY <1>2, <1>3, <1>7, <1>8 DEF Handled

\* and so is what an application sends,
LEMMA SendHandled ==
  ASSUME AInv, NEW f \in Flows, Send(f)
  PROVE  Handled
<1> DEFINE n == f[1]
           d == [src |-> n, dst |-> f[2], num |-> sent[f], ttl |-> DataTTL]
           t == EnsureRoute(n, node[n], d)
<1>1. n \in Node /\ f[2] \in Node /\ DataTTL \in Nat
  BY NetworkAssumption
<1>2. sent[f] \in Nat
  BY NetworkAssumption DEF AInv, TypeOK
<1>3. d \in Datagram /\ d.dst = f[2]
  BY <1>1, <1>2 DEF Datagram
<1>4. Run(n, t, {})
  BY DEF Send, Event
<1>5. NodeInv(node[n]) /\ node[n].out = {}
  BY <1>1 DEF AInv, Ready
<1> HIDE DEF d, n
<1>6. Upright(n, node[n], t)
  BY <1>1, <1>3, <1>5, EnsureRouteUpright
<1>7. NodeInv(t)
  <2>1. NodeInv(node[n]) /\ node[n].out = {} /\ n \in Node
    BY <1>1, <1>5
  <2>2. CASE d \notin node[n].delayed
    <3>1. Carries(node[n], t, {d})
      BY <1>3, <2>1, <2>2, EnsureRouteCarries
    <3> QED
      BY <3>1 DEF Carries
  <2>3. CASE d \in node[n].delayed
    <3>1. /\ Held(n, d) \in Spots(node, net, delivered) /\ Held(n, d).what = d
      BY <2>1, <2>3, SpotKinds, SpotFields
    <3>2. d.num \in 0 .. sent[<<d.src, d.dst>>] - 1
      BY <3>1 DEF AInv, Placed, Known
    <3>3. <<d.src, d.dst>> = f /\ d.num = sent[f]
      BY NetworkAssumption DEF d, n
    <3> QED
      BY <1>2, <3>2, <3>3
  <2> QED
    BY <2>2, <2>3
<1> HIDE DEF t
<1> QED
  BY <1>1, <1>4, <1>6, <1>7 DEF Handled

\* a message that does not arrive,
LEMMA MissHandled ==
  ASSUME AInv, NEW p \in net, Miss(p)
  PROVE  Handled
<1> DEFINE n == p.from
           dest == IF p.msg.type = "DATA" THEN p.msg.data.dst ELSE p.to
<1>1. TypeOK /\ Ready
  BY DEF AInv
<1>2. n \in Node /\ p.to \in Node /\ (p.msg.type = "DATA" => p.msg.data \in Datagram)
  BY <1>1, PacketFields
<1>3. dest \in Node
  BY <1>2 DEF Datagram
<1>4. PICK t \in {node[n], HandleLinkBreak(node[n], dest)} : Run(n, t, {p})
  BY DEF Miss
<1> HIDE DEF n, dest
<1>5. NodeInv(node[n])
  BY <1>1, <1>2 DEF Ready
<1>6. NodeInv(t) /\ Upright(n, node[n], t)
  BY <1>3, <1>4, <1>5, HandleLinkBreakKept, HandleLinkBreakUpright, KeptInv, UprightItself
<1> QED
  BY <1>2, <1>4, <1>6 DEF Handled

\* and the timers of a node, unless it is that of a route.
LEMMA TimersHandled ==
  ASSUME AInv, NEW n \in Node,
         \/ RREPACKTimeout(n) \/ BlackListTimeout(n) \/ CounterTimeout(n) \/ HelloTimeout(n)
         \/ \E dest \in Node : WaitForRREP(n, dest)
         \/ \E id \in node[n].arrived : ForgetRREQ(n, id)
  PROVE  Handled
<1>1. NodeInv(node[n])
  BY DEF AInv, Ready
<1> DEFINE Quietly(t) == Run(n, t, {}) /\ NodeInv(t) /\ Upright(n, node[n], t)
<1>2. \A t : Quietly(t) => Handled
  BY DEF Handled
<1>3. \A t : Kept(node[n], t) => NodeInv(t)
  BY KeptInv
<1> HIDE DEF Handled
<1>4. CASE RREPACKTimeout(n)
  <2>1. Quietly(HandleRREPACKTimer(node[n]))
    BY <1>1, <1>3, <1>4, HandleRREPACKTimerKept, RestUpright DEF RREPACKTimeout, Event
  <2> QED
    BY <1>2, <2>1
<1>5. CASE BlackListTimeout(n)
  <2>1. PICK over \in SUBSET node[n].blacklist : Event(n, HandleBlackListTimer(node[n], over))
    BY <1>5 DEF BlackListTimeout
  <2>2. Quietly(HandleBlackListTimer(node[n], over))
    BY <1>1, <1>3, <2>1, HandleBlackListTimerKept, RestUpright DEF Event
  <2> QED
    BY <1>2, <2>2
<1>6. CASE CounterTimeout(n)
  <2>1. Quietly([node[n] EXCEPT !.rreqCount = 0, !.rerrCount = 0])
    BY <1>1, <1>3, <1>6, CountersKept, RestUpright DEF CounterTimeout, Event
  <2> QED
    BY <1>2, <2>1
<1>7. CASE HelloTimeout(n)
  <2>1. Quietly(SendHello(n, node[n]))
    BY <1>1, <1>3, <1>7, SendHelloKept, SendHelloUpright DEF HelloTimeout, Event
  <2> QED
    BY <1>2, <2>1
<1>8. ASSUME NEW dest \in Node, WaitForRREP(n, dest)
      PROVE  Handled
  <2>1. Quietly(HandleWaitForRREP(n, node[n], dest))
    BY <1>1, <1>3, <1>8, HandleWaitForRREPKept, HandleWaitForRREPUpright DEF WaitForRREP, Event
  <2> QED
    BY <1>2, <2>1
<1>9. ASSUME NEW id \in node[n].arrived, ForgetRREQ(n, id)
      PROVE  Handled
  <2>1. Quietly([node[n] EXCEPT !.arrived = @ \ {id}])
    BY <1>1, <1>3, <1>9, CountersKept, RestUpright DEF ForgetRREQ, Event
  <2> QED
    BY <1>2, <2>1
<1> QED
  BY <1>4, <1>5, <1>6, <1>7, <1>8, <1>9

\* So are crashes and restarts.
LEMMA LifecycleHandled ==
  ASSUME AInv, NEW n \in Node, Crash(n) \/ Restart(n) \/ EndDeletePeriod(n)
  PROVE  Handled
<1>1. NodeInv(node[n])
  BY DEF AInv, Ready
<1>2. CASE Crash(n)
  <2>1. Carries(node[n], ClearState(node[n]), {}) /\ Upright(n, node[n], ClearState(node[n]))
    BY <1>1, ClearStateCarries, ClearStateUpright
  <2>2. Run(n, ClearState(node[n]), {})
    BY <1>2 DEF Crash, Event
  <2> QED
    BY <2>1, <2>2 DEF Carries, Handled
<1>3. CASE Restart(n)
  <2>1. NodeInv(Restarted(node[n])) /\ Upright(n, node[n], Restarted(node[n]))
    BY <1>1, RestartedKept, KeptInv, RestUpright
  <2>2. Run(n, Restarted(node[n]), {})
    BY <1>3 DEF Restart
  <2> QED
    BY <2>1, <2>2 DEF Handled
<1>4. CASE EndDeletePeriod(n)
  <2> DEFINE t == [node[n] EXCEPT !.rebooted = FALSE]
  <2>1. NodeInv(t) /\ Upright(n, node[n], t)
    BY <1>1, CountersKept, KeptInv, RestUpright
  <2>2. Run(n, t, {})
    BY <1>4 DEF EndDeletePeriod, Event
  <2> HIDE DEF t
  <2> QED
    BY <2>1, <2>2 DEF Handled
<1> QED
  BY <1>2, <1>3, <1>4

\* Every step but the expiry of a route is handled uprightly, or only touches the medium.
LEMMA StepHandled ==
  ASSUME AInv, Rightly, Next
  PROVE  \/ Handled
         \/ node' = node /\ net' \subseteq net
         \/ \E n, dest \in Node : ExpungeTimeout(n, dest)
<1>1. CASE \E f \in Flows : Send(f)
  BY <1>1, SendHandled
<1>2. CASE \E p \in net : Receive(p) \/ Miss(p)
  BY <1>2, ReceiveHandled, MissHandled
<1>3. CASE (\E p \in net : Lose(p)) \/ (\E l \in links : BreakLink(l))
  BY <1>3 DEF Lose, BreakLink
<1>4. CASE \E n \in Node : \/ RREPACKTimeout(n) \/ BlackListTimeout(n) \/ CounterTimeout(n)
                           \/ HelloTimeout(n) \/ \E dest \in Node : WaitForRREP(n, dest)
                           \/ \E id \in node[n].arrived : ForgetRREQ(n, id)
  BY <1>4, TimersHandled
<1>5. CASE \E n \in Node : Crash(n) \/ Restart(n) \/ EndDeletePeriod(n)
  BY <1>5, LifecycleHandled
<1> QED
  BY <1>1, <1>2, <1>3, <1>4, <1>5 DEF Next

\* At the start nobody knows or has said anything.
LEMMA SaneInit == Init => Sane /\ HopsAreKnown /\ Running
<1> SUFFICES ASSUME Init
             PROVE  Sane /\ HopsAreKnown /\ Running
  OBVIOUS
<1>1. /\ \A n \in Node : node[n] = FreshNode
      /\ net = {}
  BY DEF Init
<1>2. FreshNode.out = {} /\ FreshNode.failed = {}
  BY DEF FreshNode
<1>3. \A n \in Node : Right(n, FreshNode) /\ Supported(FreshNode)
  BY <1>2, EmptyRight
<1> QED
  BY <1>1, <1>2, <1>3, AInvInit DEF Sane, Rightly, OneAssertOpen, HopsAreKnown, Running

\* Every step keeps what is known and said right.
LEMMA SaneStep == Sane /\ [Next]_vars => Sane'
<1> SUFFICES ASSUME Sane, [Next]_vars
             PROVE  Sane'
  OBVIOUS
<1>1. AInv /\ TypeOK /\ Ready /\ Rightly /\ OneAssertOpen
  BY DEF Sane, AInv
<1>2. AInv'
  BY <1>1, AInvStep
<1>3. CASE node' = node /\ net' \subseteq net
  BY <1>1, <1>2, <1>3 DEF Sane, Rightly, OneAssertOpen
<1>4. CASE Handled
  <2>1. PICK n \in Node : \E t, taken : Run(n, t, taken) /\ NodeInv(t) /\ Upright(n, node[n], t)
    BY <1>4 DEF Handled
  <2>2. PICK t, taken : Run(n, t, taken) /\ NodeInv(t) /\ Upright(n, node[n], t)
    BY <2>1
  <2>3. Right(n, t) /\ t.failed \subseteq {"nextHop"}
    BY <1>1, <2>2 DEF Upright, Rightly, OneAssertOpen
  <2> QED
    BY <1>1, <1>2, <2>2, <2>3, RunRightly DEF Sane
<1>5. ASSUME NEW n \in Node, NEW dest \in Node, ExpungeTimeout(n, dest)
      PROVE  Sane'
  <2> DEFINE t == ExpungeRoute(node[n], dest)
  <2>1. Run(n, t, {})
    BY <1>5 DEF ExpungeTimeout, Event
  <2>2. NodeInv(node[n]) /\ Right(n, node[n]) /\ node[n].failed \subseteq {"nextHop"}
    BY <1>1 DEF Ready, Rightly, OneAssertOpen
  <2>3. NodeInv(t) /\ Right(n, t) /\ t.failed \subseteq {"nextHop"}
    BY <2>2, ExpungeRouteRight
  <2> HIDE DEF t
  <2> QED
    BY <1>1, <1>2, <2>1, <2>3, RunRightly DEF Sane
<1>6. UNCHANGED vars => node' = node /\ net' \subseteq net
  BY DEF vars
<1> QED
  BY <1>1, <1>3, <1>4, <1>5, <1>6, StepHandled

\* expungeRoutes() deletes an entry that has expired.
Deletes(n, dest) == ExpungeTimeout(n, dest) /\ node'[n].routes[dest].state = "none"

\* As long as it does not, the routes over a neighbour that grows old are supported.
LEMMA ExpungeRouteKnown ==
  ASSUME NEW s, NodeInv(s), Supported(s), NEW dest \in Node,
         ExpungeRoute(s, dest).routes[dest].state # "none"
  PROVE  Supported(ExpungeRoute(s, dest))
<1> DEFINE f == s.routes
           r == [f[dest] EXCEPT !.state = "inactive"]
           t == ExpungeRoute(s, dest)
<1>1. f[dest] \in Route /\ f \in [Node -> Route]
  BY RouteFacts DEF NodeInv, NodeState
<1>2. CASE t = s
  BY <1>2
<1>3. CASE f[dest].state = "active" /\ t = WithRoute(s, dest, r)
  <2>1. r.state = "inactive" /\ r.nextHop = f[dest].nextHop
    BY <1>1 DEF Route
  <2>2. t.routes = [f EXCEPT ![dest] = r]
    BY <1>3 DEF WithRoute, NodeInv, NodeState
  <2> HIDE DEF f, r, t
  <2>3. \A d \in Node : (t.routes[d].state = "none" <=> f[d].state = "none")
                        /\ t.routes[d].nextHop = f[d].nextHop
    BY <1>1, <1>3, <2>1, <2>2
  <2>4. \A d \in Node : f[d].state # "none" => f[f[d].nextHop].state # "none"
    BY DEF Supported, Rests, f
  <2>5. \A d \in Node : t.routes[d].state # "none" => t.routes[t.routes[d].nextHop].state # "none"
    BY <1>1, <1>3, <2>1, <2>2, <2>3, <2>4
  <2> QED
    BY <2>5 DEF Supported, Rests, t
<1>4. CASE t = WithRoute(s, dest, NoRoute)
  <2>1. t.routes[dest] = NoRoute
    BY <1>1, <1>4 DEF WithRoute, NodeInv, NodeState
  <2> QED
    BY <2>1 DEF NoRoute
<1> QED
  BY <1>2, <1>3, <1>4 DEF ExpungeRoute, WithRoute

\* Where the next hops are known no ASSERT fails, and they stay known unless an entry is deleted.
LEMMA KnownStep ==
  Sane /\ HopsAreKnown /\ Running /\ [Next]_vars
    => Running' /\ (HopsAreKnown' \/ \E n, dest \in Node : Deletes(n, dest))
<1> SUFFICES ASSUME Sane, HopsAreKnown, Running, [Next]_vars
             PROVE  Running' /\ (HopsAreKnown' \/ \E n, dest \in Node : Deletes(n, dest))
  OBVIOUS
<1>1. AInv /\ TypeOK /\ Ready /\ Rightly
  BY DEF Sane, AInv
<1>2. CASE node' = node
  BY <1>2 DEF HopsAreKnown, Running
<1>3. CASE Handled
  <2>1. PICK n \in Node : \E t, taken : Run(n, t, taken) /\ NodeInv(t) /\ Upright(n, node[n], t)
    BY <1>3 DEF Handled
  <2>2. PICK t, taken : Run(n, t, taken) /\ NodeInv(t) /\ Upright(n, node[n], t)
    BY <2>1
  <2>3. Supported(t) /\ t.failed = {}
    BY <1>1, <2>2 DEF Upright, Rightly, HopsAreKnown, Running
  <2> QED
    BY <1>1, <2>2, <2>3, RunKnown
<1>4. ASSUME NEW n \in Node, NEW dest \in Node, ExpungeTimeout(n, dest)
      PROVE  Running' /\ (HopsAreKnown' \/ Deletes(n, dest))
  <2> DEFINE t == ExpungeRoute(node[n], dest)
  <2>1. Run(n, t, {})
    BY <1>4 DEF ExpungeTimeout, Event
  <2>2. NodeInv(node[n]) /\ Right(n, node[n]) /\ node[n].failed = {}
    BY <1>1 DEF Ready, Rightly, Running
  <2>3. NodeInv(t) /\ t.failed = {}
    BY <2>2, ExpungeRouteRight
  <2>4. t.routes[dest].state # "none" => Supported(t)
    BY <2>2, ExpungeRouteKnown DEF HopsAreKnown
  <2> HIDE DEF t
  <2>5. /\ node'[n].routes = t.routes /\ node'[n].failed = t.failed
        /\ \A m \in Node \ {n} : node'[m] = node[m]
    BY <1>1, <2>1, <2>3, RunFields
  <2>6. Running'
    BY <2>3, <2>5 DEF Running
  <2>7. CASE t.routes[dest].state = "none"
    BY <1>4, <2>5, <2>6, <2>7 DEF Deletes
  <2>8. CASE t.routes[dest].state # "none"
    BY <1>1, <2>1, <2>3, <2>4, <2>8, RunKnown
  <2> QED
    BY <2>7, <2>8
<1>5. UNCHANGED vars => node' = node
  BY DEF vars
<1> QED
  BY <1>1, <1>2, <1>3, <1>4, <1>5, StepHandled

\* A retry never finds its timer running, no discovery starts twice, and no RREP-ACK finds its timer
\* stopped, if only because none is ever sent: on every network and with any faults, of the ASSERTs
\* of AODVRouting only the one on the next hop in handleRREP() can fail.
THEOREM OneAssertCanFail == Spec => []OneAssertOpen
<1>1. Init => Sane
  BY SaneInit
<1>2. Sane /\ [Next]_vars => Sane'
  BY SaneStep
<1>3. Sane => OneAssertOpen
  BY DEF Sane
<1> QED
  BY <1>1, <1>2, <1>3, PTL DEF Spec

\* What that one relies on, that every next hop has an entry of its own, is true at first; while it is
\* true no ASSERT fails; and of all that happens to a node, with whatever is lost, broken, answered
\* late or restarted, only one thing can end it: expungeRoutes() deletes an entry that has expired.
THEOREM OnlyExpiryOpensIt ==
  Spec => /\ HopsAreKnown
          /\ [][HopsAreKnown /\ Running =>
                  Running' /\ (HopsAreKnown' \/ \E n, dest \in Node : Deletes(n, dest))]_vars
<1>1. Init => Sane /\ HopsAreKnown /\ Running
  BY SaneInit
<1>2. Sane /\ [Next]_vars => Sane'
  BY SaneStep
<1>3. Sane /\ [Next]_vars =>
        [HopsAreKnown /\ Running =>
           Running' /\ (HopsAreKnown' \/ \E n, dest \in Node : Deletes(n, dest))]_vars
  BY KnownStep
<1> QED
  BY <1>1, <1>2, <1>3, PTL DEF Spec

=============================================================================
