-------------------------------- MODULE AODV --------------------------------
(***************************************************************************)
(* AODV routers that hear each other over "links".  The medium delays      *)
(* messages at random (the jitter of the protocol does so too), so it      *)
(* reorders them; it may lose some.  A unicast that cannot reach its       *)
(* receiver comes back to its sender as the signal NF_LINK_BREAK of the    *)
(* MAC layer.  An action is one event of the simulation kernel: the        *)
(* arrival of a message, the expiry of a timer, a datagram of an           *)
(* application, a crash or a restart; a node handles each to completion.   *)
(*                                                                         *)
(* Times are left out: a timer that is running may expire, and the lives   *)
(* of routes and of remembered requests may end, at any moment that the    *)
(* bounds on faults allow, except that with PromptNetwork the timers that  *)
(* wait for an answer, and with LongLives the lives of routes, outlast the *)
(* travels of messages.                                                    *)
(***************************************************************************)
EXTENDS AODVNode, Functions

CONSTANTS
  Links,                  \* the pairs of nodes in range of each other at the start
  Flows,                  \* the pairs <<source, destination>> that have datagrams to send
  Breakable,              \* the links that may go
  DataTTL,                \* the hops a datagram may make
  UseHelloMessages, PromptNetwork, LongLives,
  MaxSend,                \* datagrams of each flow
  MaxBreak, MaxLoss, MaxExpiry, MaxForget, MaxCrash, MaxTick, MaxHello,
  MaxEvents               \* how many of these bounded events may happen in all

ASSUME NetworkAssumption ==
  /\ Links \subseteq Node \X Node /\ Breakable \subseteq Links
  /\ \A l \in Links : <<l[2], l[1]>> \in Links
  /\ Flows \subseteq Node \X Node /\ \A f \in Flows : f[1] # f[2]
  /\ UseHelloMessages \in BOOLEAN /\ {PromptNetwork, LongLives} \subseteq BOOLEAN
  /\ {DataTTL, MaxSend, MaxBreak, MaxLoss, MaxExpiry, MaxForget, MaxCrash, MaxTick, MaxHello, MaxEvents}
       \subseteq Nat

VARIABLES
  node,                   \* the AODVRouting module of each node, with its routes
  net,                    \* the messages on their way
  links,                  \* who can hear whom
  sent,                   \* the datagrams of each flow so far
  delivered,              \* the datagrams that arrived
  used                    \* how much of each bounded event has happened

vars == <<node, net, links, sent, delivered, used>>

Bounded == {"break", "loss", "expiry", "forget", "crash", "tick", "hello"}
Bound == [break |-> MaxBreak, loss |-> MaxLoss, expiry |-> MaxExpiry, forget |-> MaxForget,
          crash |-> MaxCrash, tick |-> MaxTick, hello |-> MaxHello]
Packet == [from : Node, to : Node, msg : Message]

\* A failed ASSERT ends the simulation
Running == \A n \in Node : node[n].failed = {}
Hears(n) == {m \in Node : <<n, m>> \in links}
Quiet == net = {}

Init ==
  /\ node = [n \in Node |-> FreshNode]
  /\ net = {}
  /\ links = Links
  /\ sent = [f \in Flows |-> 0]
  /\ delivered = {}
  /\ used = [k \in Bounded |-> 0]

-----------------------------------------------------------------------------
(* The shell around every handler *)

\* A broadcast is heard by the nodes in range as it is sent
Packets(n, out) ==
  UNION {{[from |-> n, to |-> m, msg |-> o.msg] : m \in IF o.to = Everybody THEN Hears(n) ELSE {o.to}}
         : o \in out}

\* n runs a handler that leaves s, after taking the packets of "taken" from the medium
Run(n, s, taken) ==
  /\ node' = [node EXCEPT ![n] = [s EXCEPT !.out = {}]]
  /\ net' = (net \ taken) \cup Packets(n, s.out)

Event(n, s) == Running /\ node[n].isOperational /\ Run(n, s, {})
Spend(k) ==
  /\ used[k] < Bound[k] /\ SumFunction(used) < MaxEvents
  /\ used' = [used EXCEPT ![k] = @ + 1]
Patient == PromptNetwork => Quiet

-----------------------------------------------------------------------------
(* Datagrams and messages *)

Send(f) ==
  LET n == f[1]
      d == [src |-> n, dst |-> f[2], num |-> sent[f], ttl |-> DataTTL]
  IN /\ sent[f] < MaxSend
     /\ Event(n, EnsureRoute(n, node[n], d))
     /\ sent' = [sent EXCEPT ![f] = @ + 1]
     /\ UNCHANGED <<links, delivered, used>>

Reaches(p) == <<p.from, p.to>> \in links /\ node[p.to].isOperational

Receive(p) ==
  /\ Running /\ Reaches(p)
  /\ Run(p.to, Handle(p.to, node[p.to], p.from, p.msg), {p})
  /\ delivered' = IF p.msg.type = "DATA" /\ p.msg.data.dst = p.to
                  THEN delivered \cup {p.msg.data} ELSE delivered
  /\ UNCHANGED <<links, sent, used>>

\* The receiver is out of range or down.  The MAC notices when the message was for it alone
Miss(p) ==
  LET isBroadcast == p.msg.type \in {"RREQ", "HELLO", "RERR"}
      dest == IF p.msg.type = "DATA" THEN p.msg.data.dst ELSE p.to
      s == IF isBroadcast \/ ~node[p.from].isOperational THEN node[p.from]
           ELSE HandleLinkBreak(node[p.from], dest)
  IN /\ Running /\ ~Reaches(p)
     /\ Run(p.from, s, {p})
     /\ UNCHANGED <<links, sent, delivered, used>>

Lose(p) ==
  /\ Running
  /\ net' = net \ {p}
  /\ Spend("loss")
  /\ UNCHANGED <<node, links, sent, delivered>>

-----------------------------------------------------------------------------
(* Timers *)

WaitForRREP(n, dest) ==
  /\ node[n].wait[dest].state = "armed" /\ Patient
  /\ Event(n, HandleWaitForRREP(n, node[n], dest))
  /\ UNCHANGED <<links, sent, delivered, used>>

RREPACKTimeout(n) ==
  /\ node[n].rrepAckTimer /\ Patient
  /\ Event(n, HandleRREPACKTimer(node[n]))
  /\ UNCHANGED <<links, sent, delivered, used>>

BlackListTimeout(n) ==
  /\ node[n].blacklistTimer
  /\ \E over \in SUBSET node[n].blacklist : Event(n, HandleBlackListTimer(node[n], over))
  /\ UNCHANGED <<links, sent, delivered, used>>

\* counterTimer
CounterTimeout(n) ==
  /\ Event(n, [node[n] EXCEPT !.rreqCount = 0, !.rerrCount = 0])
  /\ Spend("tick")
  /\ UNCHANGED <<links, sent, delivered>>

ExpungeTimeout(n, dest) ==
  /\ node[n].routes[dest].state # "none"
  /\ LongLives => Quiet
  /\ Event(n, ExpungeRoute(node[n], dest))
  /\ Spend("expiry")
  /\ UNCHANGED <<links, sent, delivered>>

HelloTimeout(n) ==
  /\ UseHelloMessages
  /\ Event(n, SendHello(n, node[n]))
  /\ Spend("hello")
  /\ UNCHANGED <<links, sent, delivered>>

\* A request under this ID counts as new again after PATH_DISCOVERY_TIME
ForgetRREQ(n, id) ==
  /\ id \in node[n].arrived /\ Patient
  /\ Event(n, [node[n] EXCEPT !.arrived = @ \ {id}])
  /\ Spend("forget")
  /\ UNCHANGED <<links, sent, delivered>>

-----------------------------------------------------------------------------
(* Nodes and links come and go *)

BreakLink(l) ==
  /\ Running
  /\ l \in links \cap Breakable
  /\ links' = links \ {l, <<l[2], l[1]>>}
  /\ Spend("break")
  /\ UNCHANGED <<node, net, sent, delivered>>

Crash(n) ==
  /\ Event(n, ClearState(node[n]))
  /\ Spend("crash")
  /\ UNCHANGED <<links, sent, delivered>>

Restart(n) ==
  /\ Running /\ ~node[n].isOperational
  /\ Run(n, Restarted(node[n]), {})
  /\ UNCHANGED <<links, sent, delivered, used>>

\* deletePeriod after the restart the node takes part in forwarding again
EndDeletePeriod(n) ==
  /\ node[n].rebooted
  /\ Event(n, [node[n] EXCEPT !.rebooted = FALSE])
  /\ UNCHANGED <<links, sent, delivered, used>>

Next ==
  \/ \E f \in Flows : Send(f)
  \/ \E p \in net : Receive(p) \/ Miss(p) \/ Lose(p)
  \/ \E n \in Node : \/ RREPACKTimeout(n) \/ BlackListTimeout(n) \/ CounterTimeout(n)
                     \/ HelloTimeout(n) \/ Crash(n) \/ Restart(n) \/ EndDeletePeriod(n)
  \/ \E n, dest \in Node : WaitForRREP(n, dest) \/ ExpungeTimeout(n, dest)
  \/ \E n \in Node : \E id \in node[n].arrived : ForgetRREQ(n, id)
  \/ \E l \in links : BreakLink(l)

Spec == Init /\ [][Next]_vars

\* The medium delivers or drops in the end, and the kernel lets the running timers of discovery
\* expire.  Nothing is asked of datagrams, faults, crashes and the other timers.
FairSpec ==
  /\ Spec
  /\ WF_vars(\E p \in net : Receive(p) \/ Miss(p))
  /\ WF_vars(\E n, dest \in Node : WaitForRREP(n, dest))

-----------------------------------------------------------------------------
(* Types *)

TypeOK ==
  /\ node \in [Node -> NodeState]
  /\ net \subseteq Packet
  /\ links \subseteq Links
  /\ sent \in [Flows -> 0 .. MaxSend]
  /\ delivered \subseteq Datagram
  /\ used \in [Bounded -> Nat]

-----------------------------------------------------------------------------
(* Safety *)

\* Following the active routes to a destination never leads round in a circle: no set of nodes
\* all route within itself.  The sequence numbers, the hop counts and the test on the gateway in
\* handleRREQ() and handleRREP() are there for this.
LoopFree ==
  \A dest \in Node : \A S \in SUBSET (Node \ {dest}) \ {{}} :
    \E n \in S : LET r == node[n].routes[dest] IN r.state = "active" => r.nextHop \notin S

\* The places a datagram is in: held back, under way, or at its destination
Places(f, i) ==
  LET same(x) == x.src = f[1] /\ x.dst = f[2] /\ x.num = i
  IN {<<"delayed", n>> : n \in {m \in Node : \E x \in node[m].delayed : same(x)}}
     \cup {<<"net", p>> : p \in {q \in net : q.msg.type = "DATA" /\ same(q.msg.data)}}
     \cup {<<"delivered", x>> : x \in {y \in delivered : same(y)}}

\* No datagram is in two places: what completeRouteDiscovery() reinjects has left the multimap,
\* also when the datagram comes round to its source a second time.
NotCopied == \A f \in Flows : \A i \in 0 .. sent[f] - 1 : Cardinality(Places(f, i)) <= 1

\* What the ASSERTs claim: a RREP-ACK comes while its timer runs, a retry finds its timer expired, a
\* discovery starts once, and in handleRREP() the next hop of a route has a route of its own.  The
\* last is false when expungeRoutes() has deleted the next hop's and kept the other.
NoFailedAssert == Running

-----------------------------------------------------------------------------
(* Liveness *)

Faultless == \A k \in Bounded : used[k] = 0

\* Unless something fails or runs out of time, the expanding ring finds every destination in
\* reach: the datagrams of a flow arrive.
DatagramsArrive ==
  \A f \in Flows : \A i \in 0 .. MaxSend - 1 :
    sent[f] > i ~> ~Faultless \/ \E x \in delivered : x.src = f[1] /\ x.dst = f[2] /\ x.num = i
=============================================================================
