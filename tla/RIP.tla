-------------------------------- MODULE RIP ---------------------------------
(***************************************************************************)
(* RIP routers joined by networks that deliver the packets of each         *)
(* interface in order and may lose some.  An action is one event of the    *)
(* simulation kernel: a timer, an arriving packet, a change of an          *)
(* interface, the start or stop of a node; a router handles each to        *)
(* completion.                                                             *)
(*                                                                         *)
(* Time.  Every router sends its regular update once in an update          *)
(* interval, here a period that ends when all have done so and nothing is  *)
(* on the wire (packets take milliseconds, the period is 30 seconds).      *)
(* Which router is first is open in every period.                          *)
(***************************************************************************)
EXTENDS RIPRouter, FiniteSets

CONSTANTS
  MaxWire,                \* packets on the way to one interface
  MaxLoss, MaxDown, MaxUp, MaxCrash, MaxShutdown, MaxStart, MaxRefresh,
  MaxEvents               \* how many of these bounded events may happen in all

ASSUME BoundsAssumption ==
  {MaxWire, MaxLoss, MaxDown, MaxUp, MaxCrash, MaxShutdown, MaxStart, MaxRefresh, MaxEvents}
    \subseteq Nat

VARIABLES
  router,                 \* the RIPRouting module of each node, with its routing table
  wire,                   \* the packets on their way to each interface
  up,                     \* the interfaces that are up
  updated,                \* the routers that have sent their update in this period
  used                    \* how much of each bounded event has happened

vars == <<router, wire, up, updated, used>>

Bound == [loss |-> MaxLoss, down |-> MaxDown, up |-> MaxUp, crash |-> MaxCrash,
          shutdown |-> MaxShutdown, start |-> MaxStart, refresh |-> MaxRefresh]

\* A failed ASSERT and a stray iterator end the simulation
Running == \A r \in Router : ~router[r].failed /\ ~router[r].astray
On(r) == router[r].status = "on"

Init ==
  /\ router = [r \in Router |-> BootState(r)]
  /\ wire = [a \in Addr |-> <<>>]
  /\ up = Addr
  /\ updated = {}
  /\ used = [k \in DOMAIN Bound |-> 0]

-----------------------------------------------------------------------------
(* The shell around every handler *)

\* Who a packet from router r reaches: a multicast those that have joined the group, a unicast its
\* destination, if r has the route of the network (a detour ends at a router that is no neighbour)
Reaches(r, rt, o, a, alive) ==
  /\ a \in alive /\ On(a[1])
  /\ a[2] = o.on /\ a[1] # r /\ <<r, o.on>> \in alive
  /\ IF o.to = None THEN Mode[a] # "NoRIP" ELSE o.to = a /\ NetmaskRoute(r, o.on) \in rt

\* The wire after r has sent what its handler collected in s, with the interfaces up that are alive
Transmitted(r, s, w, alive) ==
  [a \in Addr |-> LET reach == Chosen(s.out, LAMBDA o : Reaches(r, s.rt, o, a, alive))
                  IN w[a] \o [k \in DOMAIN reach |-> reach[k].packet]]

\* r runs a handler that leaves s, with the wire at w.  triggerUpdate() leaves the timer alone
\* when it runs, or if the next regular update comes first.
Run(r, s, w, regularSoon) ==
  /\ router' = [router EXCEPT ![r] = [s EXCEPT !.out = <<>>, !.pending = FALSE,
                                               !.triggered = @ \/ (s.pending /\ ~regularSoon)]]
  /\ wire' = Transmitted(r, s, w, up)
  /\ \A a \in Addr : Len(wire'[a]) <= MaxWire

Event(r, handled, w) == \E s \in {handled}, regularSoon \in BOOLEAN : Run(r, s, w, regularSoon)

Spend(k) ==
  /\ Running /\ used[k] < Bound[k] /\ SumFunction(used) < MaxEvents
  /\ used' = [used EXCEPT ![k] = @ + 1]

-----------------------------------------------------------------------------
(* Timers *)

\* startupTimer; the update timer is set for the next period
StartUp(r) ==
  /\ Running /\ router[r].status = "starting"
  /\ Event(r, StartRIP(r, router[r]), wire)
  /\ updated' = updated \cup {r}
  /\ UNCHANGED <<up, used>>

\* updateTimer, which is not scheduled while its handler runs.  A triggered update is only
\* scheduled before the next regular one.
Update(r) ==
  /\ Running /\ On(r) /\ r \notin updated /\ ~router[r].triggered
  /\ \E s \in {ProcessUpdate(r, router[r], FALSE)} : Run(r, s, wire, FALSE)
  /\ updated' = updated \cup {r}
  /\ UNCHANGED <<up, used>>

TriggeredUpdate(r) ==
  /\ Running /\ On(r) /\ router[r].triggered
  /\ Event(r, ProcessUpdate(r, [router[r] EXCEPT !.triggered = FALSE], TRUE), wire)
  /\ UNCHANGED <<up, updated, used>>

Older(q) == IF q.type = "RTE" /\ q.age < MaxAge THEN [q EXCEPT !.age = @ + 1] ELSE q

\* The next period begins
Tick ==
  /\ Running
  /\ \A r \in Router : router[r].status = "off" \/ (On(r) /\ r \in updated)
  /\ \A a \in Addr : wire[a] = <<>>
  /\ router' = [r \in Router |-> [router[r] EXCEPT !.ripRoutes = [k \in DOMAIN @ |-> Older(@[k])]]]
  /\ updated' = {}
  /\ UNCHANGED <<wire, up, used>>

-----------------------------------------------------------------------------
(* Packets *)

Receive(a) ==
  /\ Running /\ wire[a] # <<>>
  /\ LET packet == Head(wire[a])
         s == IF packet.command = "request" THEN ProcessRequest(a[1], router[a[1]], a[2], packet)
                                             ELSE ProcessResponse(a[1], router[a[1]], a[2], packet)
     IN Event(a[1], s, [wire EXCEPT ![a] = Tail(@)])
  /\ UNCHANGED <<up, updated, used>>

Lose(a) ==
  /\ wire[a] # <<>>
  /\ wire' = [wire EXCEPT ![a] = Tail(@)]
  /\ Spend("loss")
  /\ UNCHANGED <<router, up, updated>>

-----------------------------------------------------------------------------
(* Interfaces and nodes come and go *)

\* NF_INTERFACE_STATE_CHANGED: the carrier is lost, with what is on the wire
InterfaceDown(a) ==
  /\ a \in up /\ On(a[1])
  /\ LET lost == {q \in ToSet(router[a[1]].ripRoutes) : q.ie = a[2]}
     IN Event(a[1], InvalidateRoutes(router[a[1]], lost), [wire EXCEPT ![a] = <<>>])
  /\ up' = up \ {a}
  /\ Spend("down")
  /\ UNCHANGED updated

\* and is back
InterfaceUp(a) ==
  /\ a \notin up /\ On(a[1])
  /\ up' = up \cup {a}
  /\ LET s == IF Mode[a] = "NoRIP" THEN router[a[1]] ELSE SendRequest(a[1], router[a[1]], a[2])
     IN wire' = Transmitted(a[1], s, wire, up')
  /\ \A b \in Addr : Len(wire'[b]) <= MaxWire
  /\ Spend("up")
  /\ UNCHANGED <<router, updated>>

\* The addresses of some interface change, and the netmask routes are made anew
RefreshRoutes(r) ==
  /\ On(r)
  /\ Event(r, RefreshNetmaskRoutes(r, router[r]), wire)
  /\ Spend("refresh")
  /\ UNCHANGED <<up, updated>>

\* Nothing arrives at a node that is down
Stop(r, handled) ==
  /\ \E s \in {handled} : Run(r, s, [a \in Addr |-> IF a[1] = r THEN <<>> ELSE wire[a]], FALSE)
  /\ updated' = updated \ {r}
  /\ UNCHANGED up

Crash(r) == router[r].status # "off" /\ Stop(r, OffState) /\ Spend("crash")

ShutdownNode(r) == On(r) /\ Stop(r, Shutdown(r, router[r])) /\ Spend("shutdown")

NodeStart(r) ==
  /\ router[r].status = "off"
  /\ router' = [router EXCEPT ![r] = BootState(r)]
  /\ Spend("start")
  /\ UNCHANGED <<wire, up, updated>>

Next ==
  \/ Tick
  \/ \E r \in Router : \/ StartUp(r) \/ Update(r) \/ TriggeredUpdate(r) \/ RefreshRoutes(r)
                       \/ Crash(r) \/ ShutdownNode(r) \/ NodeStart(r)
  \/ \E a \in Addr : Receive(a) \/ Lose(a) \/ InterfaceDown(a) \/ InterfaceUp(a)

Spec == Init /\ [][Next]_vars

\* The kernel always goes on to a next event while a timer is set, and one is in every router
\* that is not off.  Nothing is asked of faults, which are the steps that change "used".  Beside
\* the events stands Never, which no step of the system is: the formula means the same, and TLC
\* finds ENABLED from the guard.
Busy == Running /\ \E r \in Router : router[r].status # "off"
Never == used' = [used EXCEPT !["loss"] = MaxLoss + 1] /\ UNCHANGED <<router, wire, up, updated>>
FairSpec == Spec /\ WF_vars(Busy /\ (Never \/ used' = used))

-----------------------------------------------------------------------------
(* Types *)

TypeOK ==
  /\ \A r \in Router :
       /\ DOMAIN router[r] = DOMAIN OffState
       /\ router[r].status \in {"off", "starting", "on"}
       /\ router[r].rt \subseteq IPv4Route
       /\ \A k \in DOMAIN router[r].ripRoutes : router[r].ripRoutes[k] \in RIPRoute
       /\ router[r].triggered \in BOOLEAN
       /\ router[r].out = <<>> /\ ~router[r].pending
  /\ DOMAIN wire = Addr
  /\ \A a \in Addr : \A k \in DOMAIN wire[a] : wire[a][k].src \in Addr
  /\ up \subseteq Addr
  /\ updated \subseteq Router
  /\ used \in [DOMAIN Bound -> Nat]

-----------------------------------------------------------------------------
(* Safety *)

\* The routing table and RIP's own table tell the same story: a route of RIP's is valid exactly
\* if it has a route in the routing table, to the same network, over the same interface and
\* gateway, and with the same metric if RIP made it; and every route of the routing table is one
\* of RIP's, none left behind by a route that was invalidated, replaced, purged or made anew.
TablesAgree ==
  \A r \in Router : On(r) =>
    LET routes == ToSet(router[r].ripRoutes)
    IN /\ \A q \in routes : q.metric = RIP_INFINITE_METRIC <=> q.route = None
       /\ \A q \in routes : q.route # None =>
            /\ q.route \in router[r].rt
            /\ q.route.dest = q.dest /\ q.route.ie = q.ie /\ q.route.gateway = q.from
            /\ q.route.source = "rip" => q.route.metric = q.metric
       /\ \A e \in router[r].rt : \E q \in routes : q.route = e

Least(S) == CHOOSE m \in S : \A x \in S : m <= x

\* The ways of at most one hop per router: a way <<r, d, m>> takes router r to network d at metric
\* m.  "direct" are those of no hop, <<r, a>> \in hears says that r hears the router at address a.
\* No way to a network leads over that network to a router that is on it: poisoned reverse.
Ways(direct, hears) ==
  LET ways[h \in 0 .. Cardinality(Router)] ==
        IF h = 0 THEN direct
        ELSE LET near == ways[h-1]
             IN near \cup {<<p[1][1], p[2][2], p[2][3] + Cost[<<p[1][1], p[1][2][2]>>]>>
                           : p \in {x \in hears \X near : x[1][2][1] = x[2][1] /\ x[1][2][2] # x[2][2]}}
  IN ways[Cardinality(Router)]

Distance(ways, r, d) ==
  Least({RIP_INFINITE_METRIC} \cup {w[3] : w \in {x \in ways : x[1] = r /\ x[2] = d}})

InitialMetric(r, e) == IF e.source = "interface" THEN Cost[<<r, e.ie>>] ELSE 1
Direct(tables) ==
  UNION {{<<r, e.dest, InitialMetric(r, e)>> : e \in {f \in tables[r] : f.source # "rip"}}
         : r \in Router}

AllWays ==
  Ways(Direct([r \in Router |-> NetmaskRoutes(r) \cup StaticRoutes(r)]),
       {p \in Router \X Addr : p[1] # p[2][1] /\ <<p[1], p[2][2]>> \in Addr})

\* A router keeps what it has learned on the interface at address a from what it says there.
Splits(a) == Mode[a] \in {"SplitHorizon", "SplitHorizonPoisonedReverse"}

\* Ways <<r, d, i, m>> from router r to network d, over interface i, at metric m: all that routers
\* may come to believe by what they are configured with and told.
Learnable(W) ==
  /\ \A a \in Addr : <<a[1], a[2], a[2], Cost[a]>> \in W
  /\ \A t \in Static : <<t[1], t[2], t[3], 1>> \in W
  /\ \A w \in W, a \in Addr :
       LET teller == <<w[1], a[2]>>
           metric == w[4] + Cost[a]
       IN a[1] # w[1] /\ teller \in Addr /\ (w[3] = a[2] => ~Splits(teller))
            /\ metric < RIP_INFINITE_METRIC => <<a[1], w[2], a[2], metric>> \in W

\* There is one way to every network, as far as routers can learn.
OneWay(W) == Learnable(W) /\ \A w \in W : w[4] = Distance(AllWays, w[1], w[2])

\* Where there is one way to every network, lost, late and crossing packets, restarts and routes
\* that come back never make a router believe in another: it has the length of that way or none.
\* Poisoned reverse is for this; a route offered back is a way that counts to infinity.
NoCountingToInfinity ==
  \A r \in Router : \A k \in DOMAIN router[r].ripRoutes :
    LET q == router[r].ripRoutes[k]
    IN q.metric \in {Distance(AllWays, r, q.dest), RIP_INFINITE_METRIC}

\* The router at address a sends to r, and is heard
Hears(r, a) == /\ r # a[1] /\ On(r) /\ On(a[1]) /\ {a, <<r, a[2]>>} \subseteq up
               /\ Mode[a] # "NoRIP" /\ Mode[<<r, a[2]>>] # "NoRIP"

\* What the last packet to the router at address a says, if this step sent it one
Told(a) == IF Len(wire'[a]) > Len(wire[a]) THEN ToSet(Last(wire'[a]).entries) ELSE {}
Expired(q) == q.type = "RTE" /\ q.age >= ExpiryPeriods

\* The regular update of r tells the router at address a of every route of the table that it keeps
\* but for the expired ones.
WholeTableIsSent ==
  [][\A r \in Router : Update(r) => \A a \in Addr : Hears(a[1], <<r, a[2]>>) =>
       \A q \in ToSet(router'[r].ripRoutes) :
         \/ Expired(q) \/ HidesRoute(r, a[2], q)
         \/ \E e \in Told(a) : e.address = q.dest]_vars

-----------------------------------------------------------------------------
(* Liveness *)

PresentWays ==
  Ways(Direct([r \in Router |-> IF On(r) THEN router[r].rt ELSE {}]),
       {p \in Router \X Addr : Hears(p[1], p[2])})
Believed(r, d) ==
  LET k == FindRoute(router[r], d)
  IN IF k = 0 THEN RIP_INFINITE_METRIC ELSE router[r].ripRoutes[k].metric
Converged ==
  LET ways == PresentWays
  IN \A r \in Router : On(r) => \A d \in Net : Believed(r, d) = Distance(ways, r, d)

\* When the faults are over, every router comes to know the length of the shortest way to every
\* network that can be reached, and that there is none to the others.  If there was one fault, and
\* no packet lost, it does so before the first purge, which may send an iterator astray.
OneFault == used["loss"] = 0 /\ SumFunction(used) <= 1
Converges == <>((OneFault => Running) /\ [](Running => Converged))
=============================================================================
