----------------------------- MODULE RIPRouter ------------------------------
(***************************************************************************)
(* One RIP router of src/inet/src/networklayer/routing/rip, as operators   *)
(* on a router record: every handler of RIPRouting is an operator from     *)
(* records to records that collects what it sends in the field "out",      *)
(* empty between handlers.  RIP.tla joins the routers by networks.         *)
(*                                                                         *)
(* Data.  A destination is the network it stands for.  A router has one    *)
(* interface to a network, named by the network, and the address of an     *)
(* interface is the pair <<router, network>>.  Responses never carry a     *)
(* next hop, so the next hop of a route is the address it was learned      *)
(* from.  The time since lastUpdateTime is counted in update intervals, in *)
(* the field "age", and only of routes that may expire.                    *)
(***************************************************************************)
EXTENDS Integers, Sequences, FiniteSets, SequencesExt

CONSTANTS
  Router, Net,
  Ifaces,                 \* the interface table: for each router a sequence of networks
  Cost,                   \* metric that RIP gives an interface, for each address
  LinkMetric,             \* metric that IPv4 gives it: a cost of its data rate
  Mode,                   \* mode of an interface, for each address
  Static,                 \* the static routes: <<router, destination, interface, IPv4 metric>>
  RIP_INFINITE_METRIC,
  ExpiryPeriods, PurgePeriods,     \* routeExpiryTime and routePurgeTime in update intervals
  None

Addr == UNION {{<<r, n>> : n \in ToSet(Ifaces[r])} : r \in Router}
Modes == {"NoRIP", "NoSplitHorizon", "SplitHorizon", "SplitHorizonPoisonedReverse"}
Metric == 1 .. RIP_INFINITE_METRIC

\* A route of the routing table, with the module that is its source.  Its metric is the source's.
IPv4Route == [dest : Net, ie : Net, gateway : Addr \cup {None}, metric : Nat,
              source : {"interface", "static", "rip"}]

ASSUME RouterAssumption ==
  /\ Ifaces \in [Router -> Seq(Net)]
  /\ \A r \in Router : \A i, j \in DOMAIN Ifaces[r] : Ifaces[r][i] = Ifaces[r][j] => i = j
  /\ RIP_INFINITE_METRIC \in Nat /\ RIP_INFINITE_METRIC > 1
  /\ Cost \in [Addr -> 1 .. RIP_INFINITE_METRIC - 1]
  /\ LinkMetric \in [Addr -> Nat]
  /\ Mode \in [Addr -> Modes]
  /\ IsFiniteSet(Static) /\ \A t \in Static : <<t[1], t[3]>> \in Addr /\ t[2] \in Net /\ t[4] \in Nat
  /\ ExpiryPeriods \in Nat \ {0} /\ PurgePeriods \in Nat \ {0}
  /\ None \notin Addr \cup IPv4Route

\* A loop over a sequence.  Each round starts from the value of the one before, which TLC has to
\* be told: it evaluates arguments where they are used.
Through(Round(_, _), start, seq) ==
  LET after[k \in 0 .. Len(seq)] ==
        IF k = 0 THEN start ELSE CHOOSE t \in {Round(s, seq[k]) : s \in {after[k-1]}} : TRUE
  IN after[Len(seq)]

\* What a loop keeps of a sequence
Chosen(seq, Test(_)) ==
  Through(LAMBDA kept, x : IF Test(x) THEN Append(kept, x) ELSE kept, <<>>, seq)

-----------------------------------------------------------------------------
(* Messages and the router record *)

MaxAge == ExpiryPeriods + PurgePeriods

\* REDISTRIBUTE is never used, DEFAULT is a static route to another destination
RIPRoute == [type : {"RTE", "STATIC", "INTERFACE"}, route : IPv4Route \cup {None}, dest : Net,
             ie : Net, from : Addr \cup {None}, metric : Metric, changed : BOOLEAN, age : 0 .. MaxAge]

RIPEntry == [address : Net, metric : Metric]
RIPPacket == [command : {"request", "response"}, src : Addr, entries : Seq(RIPEntry)]

RouterState ==
  [status : {"off", "starting", "on"},
   rt : SUBSET IPv4Route,             \* the routing table
   ripRoutes : Seq(RIPRoute),
   triggered : BOOLEAN,               \* triggeredUpdateTimer is scheduled
   pending : BOOLEAN,                 \* triggerUpdate() was called, in a handler
   failed : BOOLEAN,                  \* an ASSERT of updateRoute() failed
   astray : BOOLEAN,                  \* an iterator ran past the end of ripRoutes
   out : Seq([on : Net, to : Addr \cup {None}, packet : RIPPacket])]

\* RIP's metric is not that of the route it imports
Import(route, type, metric) ==
  [type |-> type, route |-> route, dest |-> route.dest, ie |-> route.ie, from |-> None,
   metric |-> metric, changed |-> FALSE, age |-> 0]

\* updateNetmaskRoutes()
NetmaskRoute(r, n) ==
  [dest |-> n, ie |-> n, gateway |-> None, metric |-> LinkMetric[<<r, n>>], source |-> "interface"]
NetmaskRoutes(r) == {NetmaskRoute(r, n) : n \in ToSet(Ifaces[r])}
StaticRoutes(r) ==
  {[dest |-> t[2], ie |-> t[3], gateway |-> None, metric |-> t[4], source |-> "static"]
   : t \in {u \in Static : u[1] = r}}

OffState ==
  [status |-> "off", rt |-> {}, ripRoutes |-> <<>>, triggered |-> FALSE, pending |-> FALSE,
   failed |-> FALSE, astray |-> FALSE, out |-> <<>>]

\* The routing table is filled before the routing protocols start
BootState(r) == [OffState EXCEPT !.status = "starting", !.rt = NetmaskRoutes(r) \cup StaticRoutes(r)]

TriggerUpdate(s) == [s EXCEPT !.pending = TRUE]
SendTo(s, n, to, packet) == [s EXCEPT !.out = Append(@, [on |-> n, to |-> to, packet |-> packet])]

\* findRoute(destination): the first, or 0
FindRoute(s, dest) == SelectInSeq(s.ripRoutes, LAMBDA q : q.dest = dest)
FindInterfaceRoute(s, n) == SelectInSeq(s.ripRoutes, LAMBDA q : q.type = "INTERFACE" /\ q.ie = n)

-----------------------------------------------------------------------------
(* Invalid and expired routes *)

\* Mutant: the route stays in the routing table
InvalidateRouteKept(s, k) ==
  TriggerUpdate([s EXCEPT !.ripRoutes[k] = [@ EXCEPT !.route = None, !.changed = TRUE,
                                                     !.metric = RIP_INFINITE_METRIC]])

InvalidateRoute(s, k) ==
  TriggerUpdate([s EXCEPT !.rt = @ \ {s.ripRoutes[k].route},
                          !.ripRoutes[k] = [@ EXCEPT !.route = None, !.changed = TRUE,
                                                     !.metric = RIP_INFINITE_METRIC]])

\* Erasing leaves the iterator of the caller on the next route
PurgeRoute(s, k) ==
  [s EXCEPT !.rt = @ \ {s.ripRoutes[k].route}, !.ripRoutes = RemoveAt(@, k),
            !.astray = @ \/ k = Len(s.ripRoutes)]

InvalidateRoutes(s, lost) ==
  Through(LAMBDA t, k : IF t.ripRoutes[k] \in lost THEN InvalidateRoute(t, k) ELSE t,
           s, [k \in DOMAIN s.ripRoutes |-> k])

-----------------------------------------------------------------------------
(* Sending routes *)

HidesRoute(r, n, q) == q.ie = n /\ Mode[<<r, n>>] = "SplitHorizon"
\* Mutant: no poisoned reverse
AdvertisedMetricPlain(r, n, q) == q.metric
AdvertisedMetric(r, n, q) ==
  IF q.ie = n /\ Mode[<<r, n>>] = "SplitHorizonPoisonedReverse" THEN RIP_INFINITE_METRIC ELSE q.metric

\* One round of the loop of sendRoutes(): w has the router, the index and the entries so far
SendRoute(r, n, changedOnly, w) ==
  IF w.k > Len(w.s.ripRoutes) THEN w ELSE
  LET q == w.s.ripRoutes[w.k]
  IN CASE q.type = "RTE" /\ q.age >= ExpiryPeriods + PurgePeriods ->
            [w EXCEPT !.s = PurgeRoute(w.s, w.k), !.k = @ + 1]
       [] q.type = "RTE" /\ q.age >= ExpiryPeriods /\ q.age < ExpiryPeriods + PurgePeriods ->
            [w EXCEPT !.s = InvalidateRoute(w.s, w.k), !.k = @ + 1]
       [] OTHER ->
            [w EXCEPT !.k = @ + 1,
                      !.entries = IF (changedOnly /\ ~q.changed) \/ HidesRoute(r, n, q) THEN @
                                  ELSE Append(@, [address |-> q.dest,
                                                  metric |-> AdvertisedMetric(r, n, q)])]

SendRoutes(r, s, n, to, changedOnly) ==
  LET w == Through(LAMBDA v, k : SendRoute(r, n, changedOnly, v),
                    [s |-> s, k |-> 1, entries |-> <<>>], s.ripRoutes)
  IN IF w.entries = <<>> THEN w.s
     ELSE SendTo(w.s, n, to, [command |-> "response", src |-> <<r, n>>, entries |-> w.entries])

SendRoutesOn(r, s, nets, changedOnly) ==
  Through(LAMBDA t, n : SendRoutes(r, t, n, None, changedOnly), s, nets)

RIPIfaces(r) == Chosen(Ifaces[r], LAMBDA n : Mode[<<r, n>>] # "NoRIP")

ProcessUpdate(r, s, changedOnly) ==
  LET t == SendRoutesOn(r, s, RIPIfaces(r), changedOnly)
  IN [t EXCEPT !.ripRoutes = [k \in DOMAIN @ |-> [@[k] EXCEPT !.changed = FALSE]]]

SendRequest(r, s, n) ==
  SendTo(s, n, None, [command |-> "request", src |-> <<r, n>>, entries |-> <<>>])

-----------------------------------------------------------------------------
(* Receiving *)

LearnedRoute(dest, n, metric, from) ==
  [dest |-> dest, ie |-> n, gateway |-> from, metric |-> metric, source |-> "rip"]

AddRoute(s, dest, n, metric, from) ==
  LET route == LearnedRoute(dest, n, metric, from)
  IN TriggerUpdate([s EXCEPT !.rt = @ \cup {route},
                             !.ripRoutes = Append(@, [Import(route, "RTE", metric) EXCEPT
                                                        !.from = from, !.changed = TRUE])])

\* The ASSERTs: a route of the routing table belongs to every valid route and to no other
UpdateRoute(s, k, n, metric, from) ==
  LET q == s.ripRoutes[k]
      valid == q.metric # RIP_INFINITE_METRIC
      route == IF metric < RIP_INFINITE_METRIC THEN LearnedRoute(q.dest, n, metric, from) ELSE None
  IN TriggerUpdate(
       [s EXCEPT !.failed = @ \/ valid # (q.route # None),
                 !.rt = (@ \ {q.route}) \cup ({route} \ {None}),
                 !.ripRoutes[k] = [q EXCEPT !.type = IF valid THEN @ ELSE "RTE",
                                            !.route = route, !.ie = n, !.from = from,
                                            !.metric = metric, !.changed = TRUE, !.age = 0]])

\* Mutant: bad news from the next hop is not taken
PrefersBetter(q, metric, from) == metric < q.metric
\* The rule of Bellman and Ford, with the word of the next hop taken whatever it is
Prefers(q, metric, from) == (q.from = from /\ q.metric # metric) \/ metric < q.metric

\* Mutant: infinity is exceeded
HeardMetricUnbounded(r, n, e) == e.metric + Cost[<<r, n>>]
HeardMetric(r, n, e) ==
  LET sum == e.metric + Cost[<<r, n>>]
  IN IF sum < RIP_INFINITE_METRIC THEN sum ELSE RIP_INFINITE_METRIC

ProcessEntry(r, n, from, s, e) ==
  LET metric == HeardMetric(r, n, e)
      k == FindRoute(s, e.address)
      q == s.ripRoutes[k]
      t == IF q.from = from THEN [s EXCEPT !.ripRoutes[k].age = 0] ELSE s
  IN CASE k = 0 /\ metric = RIP_INFINITE_METRIC -> s
       [] k = 0 /\ metric # RIP_INFINITE_METRIC -> AddRoute(s, e.address, n, metric, from)
       [] k # 0 /\ q.type = "STATIC" /\ q.metric # RIP_INFINITE_METRIC -> s
       [] OTHER -> IF Prefers(q, metric, from) THEN UpdateRoute(t, k, n, metric, from) ELSE t

ProcessResponse(r, s, n, packet) ==
  Through(LAMBDA t, e : ProcessEntry(r, n, packet.src, t, e), s, packet.entries)

\* A request for the whole table, the only one a router sends
ProcessRequest(r, s, n, packet) == SendRoutes(r, s, n, packet.src, FALSE)

-----------------------------------------------------------------------------
(* Interfaces and netmask routes change *)

\* NF_IPv4_ROUTE_DELETED
RouteDeleted(s, route) ==
  InvalidateRoutes([s EXCEPT !.rt = @ \ {route}], {q \in ToSet(s.ripRoutes) : q.route = route})

ImportInterface(r, n) == Import(NetmaskRoute(r, n), "INTERFACE", Cost[<<r, n>>])

\* NF_IPv4_ROUTE_ADDED, with the route of an interface
RouteAdded(r, s, n) ==
  LET route == NetmaskRoute(r, n)
      k == FindInterfaceRoute(s, n)
      t == [s EXCEPT !.rt = @ \cup {route}]
  IN IF k = 0 THEN [t EXCEPT !.ripRoutes = Append(@, ImportInterface(r, n))]
     ELSE TriggerUpdate([t EXCEPT !.ripRoutes[k] = [@ EXCEPT !.route = route, !.changed = TRUE,
                                                             !.metric = Cost[<<r, n>>]]])

\* RoutingTable::updateNetmaskRoutes(), heard by a running RIP
RefreshNetmaskRoutes(r, s) ==
  LET deleted == Through(LAMBDA t, n : RouteDeleted(t, NetmaskRoute(r, n)), s, Ifaces[r])
  IN Through(LAMBDA t, n : RouteAdded(r, t, n), deleted, Ifaces[r])

-----------------------------------------------------------------------------
(* Start and stop *)

ImportRoutes(r) ==
  [k \in DOMAIN Ifaces[r] |-> ImportInterface(r, Ifaces[r][k])]
    \o SetToSeq({Import(route, "STATIC", 1) : route \in StaticRoutes(r)})

StartRIP(r, s) ==
  Through(LAMBDA t, n : SendRequest(r, t, n),
           [s EXCEPT !.status = "on", !.ripRoutes = ImportRoutes(r)], RIPIfaces(r))

\* Routes become invalid and all interfaces hear of it; then the node stops
Shutdown(r, s) ==
  LET told == SendRoutesOn(r, InvalidateRoutes(s, ToSet(s.ripRoutes)), Ifaces[r], FALSE)
  IN [OffState EXCEPT !.out = told.out, !.astray = told.astray]
=============================================================================
