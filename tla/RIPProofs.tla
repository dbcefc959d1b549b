------------------------------ MODULE RIPProofs ------------------------------
(***************************************************************************)
(* Proofs about RIP.tla, for every net, every configuration of it and any  *)
(* number of faults.  The operators of RIPRouter.tla are gone through one  *)
(* by one.  Three of them are loops that change the tables they go through *)
(* and so are unrolled, one round after the other (LoopUnrolls).  Each is  *)
(* shown to keep what is true of a running router between two events       *)
(* (Well): its RIP table agrees with its routing table, and the ways that  *)
(* it believes in and tells others of are ways that routers can learn, W.  *)
(* The inductive invariant IInv says this of all routers (Idles) and of    *)
(* the packets on the wire (Carries).                                      *)
(***************************************************************************)
EXTENDS RIP, FiniteSetTheorems, SequenceTheorems, TLAPS

-----------------------------------------------------------------------------
(* Loops *)

\* The order of the natural numbers.
Before == {p \in Nat \X Nat : p[1] < p[2]}

\* A set of natural numbers has a least one,
LEMMA LeastElement ==
  ASSUME NEW T, T \subseteq Nat, T # {}
  PROVE  \E x \in T : \A y \in T : x <= y
<1>1. IsWellFoundedOn(Before, Nat)
  BY NatLessThanWellFounded DEF OpToRel, Before
<1>2. PICK x \in T : \A y \in T : <<y, x>> \notin Before
  BY <1>1, WFMin
<1>3. ASSUME NEW y \in T
      PROVE  x <= y
  <2>1. x \in Nat /\ y \in Nat /\ <<y, x>> \notin Before
    BY <1>2
  <2>2. <<y, x>> \in Nat \X Nat /\ <<y, x>>[1] = y /\ <<y, x>>[2] = x
    BY <2>1
  <2>3. ~(y < x)
    BY <2>1, <2>2 DEF Before
  <2> QED
    BY <2>1, <2>3
<1> QED
  BY <1>3

\* so that what holds at 0 and goes from one number to the next holds up to n.
LEMMA Upwards ==
  ASSUME NEW n \in Nat, NEW T, 0 \in T, \A k \in 1 .. n : k - 1 \in T => k \in T
  PROVE  0 .. n \subseteq T
<1> DEFINE U == {k \in 0 .. n : k \notin T}
<1>1. CASE U # {}
  <2>1. PICK x \in U : \A y \in U : x <= y
    <3>1. U \subseteq Nat
      OBVIOUS
    <3> HIDE DEF U
    <3> QED
      BY <1>1, <3>1, LeastElement
  <2>2. x \in 1 .. n
    OBVIOUS
  <2>3. x - 1 \in 0 .. n /\ x - 1 \notin U
    BY <2>1, <2>2
  <2> QED
    BY <2>2, <2>3
<1>2. CASE U = {}
  BY <1>2
<1> QED
  BY <1>1, <1>2

\* f has the values of the loop with the round G before the first and after each of n rounds.
Runs(f, G, S, n, start) ==
  f \in [0 .. n -> S] /\ f[0] = start /\ \A k \in 1 .. n : f[k] = G[<<f[k - 1], k>>]

\* There is such a function.
LEMMA LoopRuns ==
  ASSUME NEW n \in Nat, NEW S, NEW G \in [S \X (1 .. n) -> S], NEW start \in S
  PROVE  \E f : Runs(f, G, S, n, start)
<1> DEFINE T == {m \in 0 .. n : \E f : Runs(f, G, S, m, start)}
<1>1. 0 \in T
  <2>1. Runs([k \in 0 .. 0 |-> start], G, S, 0, start)
    BY DEF Runs
  <2> QED
    BY <2>1
<1>2. ASSUME NEW m \in 1 .. n, m - 1 \in T
      PROVE  m \in T
  <2>1. PICK f : Runs(f, G, S, m - 1, start)
    BY <1>2
  <2>2. f[m - 1] \in S /\ G[<<f[m - 1], m>>] \in S
    BY <2>1 DEF Runs
  <2> DEFINE g == [k \in 0 .. m |-> IF k = m THEN G[<<f[m - 1], m>>] ELSE f[k]]
  <2>3. g \in [0 .. m -> S]
    BY <2>1, <2>2 DEF Runs
  <2>4. g[m] = G[<<f[m - 1], m>>] /\ \A k \in 0 .. m - 1 : g[k] = f[k]
    OBVIOUS
  <2> HIDE DEF g
  <2>5. \A k \in 1 .. m : g[k] = G[<<g[k - 1], k>>]
    <3> TAKE k \in 1 .. m
    <3>1. CASE k = m
      BY <3>1, <2>4
    <3>2. CASE k # m
      BY <3>2, <2>4, <2>1 DEF Runs
    <3> QED
      BY <3>1, <3>2
  <2>6. Runs(g, G, S, m, start)
    BY <2>1, <2>3, <2>4, <2>5 DEF Runs
  <2> QED
    BY <2>6
<1>3. n \in T
  <2> HIDE DEF T
  <2> QED
    BY <1>1, <1>2, Upwards
<1> QED
  BY <1>3

\* What is in S at first and after a round if it was before is in S all along.
LEMMA LoopStays ==
  ASSUME NEW n \in Nat, NEW S, NEW f, f[0] \in S, \A k \in 1 .. n : f[k - 1] \in S => f[k] \in S
  PROVE  \A k \in 0 .. n : f[k] \in S
<1> DEFINE T == {k \in 0 .. n : f[k] \in S}
<1>1. 0 \in T /\ \A k \in 1 .. n : k - 1 \in T => k \in T
  OBVIOUS
<1>2. 0 .. n \subseteq T
  <2> HIDE DEF T
  <2> QED
    BY <1>1, Upwards
<1> QED
  BY <1>2

-----------------------------------------------------------------------------
(* Addresses, routes and metrics *)

\* What the assumptions say of addresses.
LEMMA Addresses ==
  /\ \A r \in Router : \A n \in ToSet(Ifaces[r]) : <<r, n>> \in Addr /\ n \in Net
  /\ \A a \in Addr : /\ a = <<a[1], a[2]>> /\ a[1] \in Router /\ a[2] \in Net
                     /\ a[2] \in ToSet(Ifaces[a[1]])
  /\ \A a \in Addr : Cost[a] \in Metric /\ Cost[a] # RIP_INFINITE_METRIC /\ LinkMetric[a] \in Nat
<1>1. \A r \in Router : \A n \in ToSet(Ifaces[r]) : <<r, n>> \in Addr
  BY DEF Addr
<1>2. ASSUME NEW r \in Router, NEW n \in ToSet(Ifaces[r])
      PROVE  n \in Net
  BY <1>2, RouterAssumption DEF ToSet
<1>3. ASSUME NEW a \in Addr
      PROVE  /\ a = <<a[1], a[2]>> /\ a[1] \in Router /\ a[2] \in Net
             /\ a[2] \in ToSet(Ifaces[a[1]])
  <2>1. PICK r \in Router : a \in {<<r, n>> : n \in ToSet(Ifaces[r])}
    BY DEF Addr
  <2>2. PICK n \in ToSet(Ifaces[r]) : a = <<r, n>>
    BY <2>1
  <2> QED
    BY <1>2, <2>2
<1>4. \A a \in Addr : Cost[a] \in Metric /\ Cost[a] # RIP_INFINITE_METRIC /\ LinkMetric[a] \in Nat
  BY RouterAssumption DEF Metric
<1> QED
  BY <1>1, <1>2, <1>3, <1>4

\* Infinity is a metric,
LEMMA Metrics ==
  /\ RIP_INFINITE_METRIC \in Metric /\ 1 \in Metric /\ 1 # RIP_INFINITE_METRIC
  /\ \A m \in Metric : m \in Nat /\ m >= 1 /\ m <= RIP_INFINITE_METRIC
  /\ \A m \in Nat : m >= 1 /\ m <= RIP_INFINITE_METRIC => m \in Metric
BY RouterAssumption DEF Metric

\* and "none" is no route.
LEMMA NoneIsNone == None \notin IPv4Route /\ None \notin Addr
BY RouterAssumption

\* An interface is never worse by more than one than a neighbour behind another: RIP then keeps
\* the routes of its interfaces.
LevelCosts ==
  \A r \in Router : \A m, n \in ToSet(Ifaces[r]) : Cost[<<r, m>>] <= Cost[<<r, n>>] + 1

\* The route of an interface is that of its network, at its metric or invalid.
Plain(r, f) ==
  \A k \in DOMAIN f : f[k].type = "INTERFACE" =>
    /\ f[k].dest = f[k].ie /\ f[k].from = None /\ f[k].ie \in ToSet(Ifaces[r])
    /\ f[k].metric \in {Cost[<<r, f[k].ie>>], RIP_INFINITE_METRIC}
    /\ f[k].route \in {NetmaskRoute(r, f[k].ie), None}

\* The module that is the source of a route of this type
Source(type) == IF type = "INTERFACE" THEN "interface" ELSE IF type = "STATIC" THEN "static" ELSE "rip"

\* A route of RIP's and its route in the routing table tell the same, the metric only if RIP made it.
Matches(q, rt) ==
  /\ q.metric = RIP_INFINITE_METRIC <=> q.route = None
  /\ q.route # None =>
       /\ q.route \in rt
       /\ q.route.dest = q.dest /\ q.route.ie = q.ie /\ q.route.gateway = q.from
       /\ q.route.source = "rip" => q.route.metric = q.metric
       /\ q.route.source = Source(q.type)

\* A learned route is the first to its destination, an interface has one route, and static routes
\* are different.
Ordered(f) ==
  \A j, k \in DOMAIN f :
    /\ f[k].type = "RTE" /\ j < k => f[j].dest # f[k].dest
    /\ j # k /\ f[j].type = "INTERFACE" /\ f[k].type = "INTERFACE" => f[j].ie # f[k].ie
    /\ j # k /\ f[j].type = "STATIC" /\ f[k].type = "STATIC" /\ f[j].route # None
         => f[j].route # f[k].route

\* The table of RIP, and the routing table, of router r agree.
Agreed(r, f, rt) ==
  /\ Plain(r, f) /\ Ordered(f)
  /\ \A k \in DOMAIN f : Matches(f[k], rt)
  /\ \A e \in rt : \E k \in DOMAIN f : f[k].route = e

\* What a router believes, and says, is one of the ways W, or that there is none.
Known(W, r, q) == q.metric = RIP_INFINITE_METRIC \/ <<r, q.dest, q.ie, q.metric>> \in W
\* that an entry of a packet sent from address a tells a way that routers can learn.
Says(W, a, e) ==
  \/ e.metric = RIP_INFINITE_METRIC
  \/ \E i \in Net : /\ <<a[1], e.address, i, e.metric>> \in W
                    /\ i = a[2] => ~Splits(a)

\* The tables are right.
Right(W, r, f, rt) ==
  /\ LevelCosts => Agreed(r, f, rt)
  /\ OneWay(W) => Plain(r, f) /\ \A k \in DOMAIN f : Known(W, r, f[k])

\* No two routes of RIP's have one route in the routing table.
LEMMA OneEach ==
  ASSUME NEW r, NEW f \in Seq(RIPRoute), NEW rt, Agreed(r, f, rt), NEW j \in DOMAIN f, NEW k \in DOMAIN f,
         j # k, f[j].route # None
  PROVE  f[j].route # f[k].route
<1> SUFFICES ASSUME f[j].route = f[k].route
             PROVE  FALSE
  OBVIOUS
<1>1. Matches(f[j], rt) /\ Matches(f[k], rt) /\ Ordered(f)
  BY DEF Agreed
<1>2. f[j].dest = f[k].dest /\ f[j].ie = f[k].ie /\ Source(f[j].type) = Source(f[k].type)
  BY <1>1 DEF Matches
<1>3. f[j] \in RIPRoute /\ f[k] \in RIPRoute /\ j \in Nat /\ k \in Nat
  OBVIOUS
<1>4. f[j].type = f[k].type /\ f[j].type \in {"INTERFACE", "STATIC", "RTE"}
  BY <1>2, <1>3 DEF Source, RIPRoute
<1>5. j < k \/ k < j
  BY <1>3
<1> QED
  BY <1>1, <1>2, <1>4, <1>5 DEF Ordered

\* A route that has become invalid
Gone(q) == [q EXCEPT !.route = None, !.metric = RIP_INFINITE_METRIC, !.changed = TRUE]

\* What is left of it.
LEMMA GoneFields ==
  ASSUME NEW q \in RIPRoute
  PROVE  /\ Gone(q) \in RIPRoute /\ Gone(q).route = None /\ Gone(q).metric = RIP_INFINITE_METRIC
         /\ Gone(q).dest = q.dest /\ Gone(q).ie = q.ie /\ Gone(q).from = q.from
         /\ Gone(q).type = q.type
BY Metrics DEF Gone, RIPRoute

\* Some routes become invalid.
LEMMA RightGone ==
  ASSUME NEW W, NEW r, NEW f \in Seq(RIPRoute), NEW rt, Right(W, r, f, rt),
         NEW K, K \subseteq DOMAIN f, NEW g \in Seq(RIPRoute), DOMAIN g = DOMAIN f,
         \A k \in DOMAIN f : g[k] = IF k \in K THEN Gone(f[k]) ELSE f[k]
  PROVE  Right(W, r, g, rt \ {f[k].route : k \in K})
<1>1. \A k \in DOMAIN f : /\ f[k] \in RIPRoute
                          /\ g[k].dest = f[k].dest /\ g[k].ie = f[k].ie /\ g[k].from = f[k].from
                          /\ g[k].type = f[k].type
                          /\ g[k] = f[k] \/ (g[k].route = None /\ g[k].metric = RIP_INFINITE_METRIC)
  BY GoneFields
<1>2. Plain(r, f) => Plain(r, g)
  BY <1>1 DEF Plain
<1>3. ASSUME LevelCosts
      PROVE  Agreed(r, g, rt \ {f[k].route : k \in K})
  <2>1. Agreed(r, f, rt)
    BY <1>3 DEF Right
  <2>2. Ordered(g)
    BY <2>1, <1>1 DEF Agreed, Ordered
  <2>3. ASSUME NEW j \in DOMAIN f
        PROVE  Matches(g[j], rt \ {f[k].route : k \in K})
    <3>1. Matches(f[j], rt)
      BY <2>1 DEF Agreed
    <3>2. CASE j \in K
      <4>1. g[j].route = None /\ g[j].metric = RIP_INFINITE_METRIC
        BY <3>2, GoneFields
      <4> QED
        BY <4>1 DEF Matches
    <3>3. CASE j \notin K
      <4>1. g[j] = f[j]
        BY <3>3
      <4>2. ASSUME f[j].route # None, NEW k \in K
            PROVE  f[j].route # f[k].route
        BY <2>1, <3>3, <4>2, OneEach
      <4> QED
        BY <3>1, <4>1, <4>2 DEF Matches
    <3> QED
      BY <3>2, <3>3
  <2>4. ASSUME NEW e \in rt \ {f[k].route : k \in K}
        PROVE  \E k \in DOMAIN g : g[k].route = e
    <3>1. PICK k \in DOMAIN f : f[k].route = e
      BY <2>1 DEF Agreed
    <3>2. k \notin K
      BY <3>1
    <3> QED
      BY <3>1, <3>2
  <2> QED
    BY <2>1, <2>2, <2>3, <2>4, <1>2 DEF Agreed
<1>4. ASSUME OneWay(W)
      PROVE  Plain(r, g) /\ \A k \in DOMAIN g : Known(W, r, g[k])
  BY <1>1, <1>2, <1>4 DEF Right, Known
<1> QED
  BY <1>3, <1>4 DEF Right

\* What a route that takes the place of f[k], or is added behind f, must be for the tables of r to
\* stay right.
Fits(W, r, q, rt) ==
  /\ q.type = "INTERFACE" =>
       /\ q.dest = q.ie /\ q.from = None /\ q.ie \in ToSet(Ifaces[r])
       /\ q.metric \in {Cost[<<r, q.ie>>], RIP_INFINITE_METRIC}
       /\ q.route \in {NetmaskRoute(r, q.ie), None}
  /\ LevelCosts => Matches(q, rt)
  /\ OneWay(W) => Known(W, r, q)

\* A route changes.
LEMMA RightChanged ==
  ASSUME NEW W, NEW r, NEW f \in Seq(RIPRoute), NEW rt, Right(W, r, f, rt),
         NEW k \in DOMAIN f, NEW q \in RIPRoute, NEW rt2,
         \A e : e \in rt2 <=> (e \in rt /\ e # f[k].route) \/ (e = q.route /\ q.route # None),
         Fits(W, r, q, rt2), q.dest = f[k].dest,
         q.type = "RTE" => \A j \in DOMAIN f : j < k => f[j].dest # q.dest,
         q.type = "INTERFACE" => f[k].type = "INTERFACE" /\ f[k].ie = q.ie,
         q.type = "STATIC" => q.route = None \/ (f[k].type = "STATIC" /\ f[k].route = q.route)
  PROVE  Right(W, r, [f EXCEPT ![k] = q], rt2)
<1> DEFINE g == [f EXCEPT ![k] = q]
<1>1. DOMAIN g = DOMAIN f /\ g[k] = q /\ \A j \in DOMAIN f : j # k => g[j] = f[j]
  OBVIOUS
<1> HIDE DEF g
<1>2. Plain(r, f) => Plain(r, g)
  BY <1>1 DEF Plain, Fits
<1>3. ASSUME LevelCosts
      PROVE  Agreed(r, g, rt2)
  <2>1. Agreed(r, f, rt)
    BY <1>3 DEF Right
  <2>2. Ordered(g)
    <3>1. Ordered(f)
      BY <2>1 DEF Agreed
    <3> SUFFICES ASSUME NEW i \in DOMAIN f, NEW j \in DOMAIN f
                 PROVE  /\ g[j].type = "RTE" /\ i < j => g[i].dest # g[j].dest
                        /\ i # j /\ g[i].type = "INTERFACE" /\ g[j].type = "INTERFACE"
                             => g[i].ie # g[j].ie
                        /\ i # j /\ g[i].type = "STATIC" /\ g[j].type = "STATIC"
                             /\ g[i].route # None => g[i].route # g[j].route
      BY <1>1 DEF Ordered
    <3>2. i \in Nat /\ j \in Nat
      OBVIOUS
    <3>3. CASE i # k /\ j # k
      BY <1>1, <3>1, <3>3 DEF Ordered
    <3>4. CASE i = k /\ j # k
      BY <1>1, <3>1, <3>2, <3>4 DEF Ordered
    <3>5. CASE i # k /\ j = k
      BY <1>1, <3>1, <3>2, <3>5 DEF Ordered
    <3>6. CASE i = k /\ j = k
      BY <3>2, <3>6
    <3> QED
      BY <3>3, <3>4, <3>5, <3>6
  <2>3. ASSUME NEW j \in DOMAIN f
        PROVE  Matches(g[j], rt2)
    <3>1. CASE j = k
      BY <1>1, <1>3, <3>1 DEF Fits
    <3>2. CASE j # k
      <4>1. Matches(f[j], rt) /\ g[j] = f[j]
        BY <1>1, <2>1, <3>2 DEF Agreed
      <4>2. f[j].route # None => f[j].route # f[k].route
        BY <2>1, <3>2, OneEach
      <4> QED
        BY <4>1, <4>2 DEF Matches
    <3> QED
      BY <3>1, <3>2
  <2>4. ASSUME NEW e \in rt2
        PROVE  \E j \in DOMAIN g : g[j].route = e
    <3>1. CASE e = q.route
      BY <1>1, <3>1
    <3>2. CASE e # q.route
      <4>1. PICK j \in DOMAIN f : f[j].route = e
        BY <2>1, <3>2 DEF Agreed
      <4>2. j # k
        BY <3>2, <4>1
      <4> QED
        BY <1>1, <4>1, <4>2
    <3> QED
      BY <3>1, <3>2
  <2> QED
    BY <1>1, <1>2, <2>1, <2>2, <2>3, <2>4 DEF Agreed
<1>4. ASSUME OneWay(W)
      PROVE  Plain(r, g) /\ \A j \in DOMAIN g : Known(W, r, g[j])
  BY <1>1, <1>2, <1>4 DEF Right, Fits
<1> QED
  BY <1>3, <1>4 DEF Right, g

\* A route is added.
LEMMA RightAppended ==
  ASSUME NEW W, NEW r, NEW f \in Seq(RIPRoute), NEW rt, Right(W, r, f, rt),
         NEW q \in RIPRoute, Fits(W, r, q, rt \cup {q.route}),
         q.type = "RTE" => \A j \in DOMAIN f : f[j].dest # q.dest,
         q.type = "INTERFACE" => \A j \in DOMAIN f : f[j].type = "INTERFACE" => f[j].ie # q.ie,
         q.type # "STATIC"
  PROVE  Right(W, r, Append(f, q), rt \cup {q.route})
<1> DEFINE g == Append(f, q)
           n == Len(f)
<1>1. /\ DOMAIN f = 1 .. n /\ n \in Nat /\ DOMAIN g = 1 .. n + 1 /\ g[n + 1] = q
      /\ \A j \in 1 .. n : g[j] = f[j]
  OBVIOUS
<1> HIDE DEF g, n
<1>2. \A j \in 1 .. n + 1 : j \in 1 .. n \/ j = n + 1
  BY <1>1
<1>3. Plain(r, f) => Plain(r, g)
  BY <1>1, <1>2 DEF Plain, Fits
<1>4. ASSUME LevelCosts
      PROVE  Agreed(r, g, rt \cup {q.route})
  <2>1. Agreed(r, f, rt)
    BY <1>4 DEF Right
  <2>2. Ordered(g)
    <3>1. Ordered(f)
      BY <2>1 DEF Agreed
    <3> SUFFICES ASSUME NEW i \in 1 .. n + 1, NEW j \in 1 .. n + 1
                 PROVE  /\ g[j].type = "RTE" /\ i < j => g[i].dest # g[j].dest
                        /\ i # j /\ g[i].type = "INTERFACE" /\ g[j].type = "INTERFACE"
                             => g[i].ie # g[j].ie
                        /\ i # j /\ g[i].type = "STATIC" /\ g[j].type = "STATIC"
                             /\ g[i].route # None => g[i].route # g[j].route
      BY <1>1 DEF Ordered
    <3>2. CASE i \in 1 .. n /\ j \in 1 .. n
      BY <1>1, <3>1, <3>2 DEF Ordered
    <3>3. CASE i \in 1 .. n /\ j = n + 1
      BY <1>1, <3>3
    <3>4. CASE i = n + 1 /\ j \in 1 .. n
      <4>1. ~(i < j)
        BY <1>1, <3>4
      <4> QED
        BY <1>1, <3>4, <4>1
    <3>5. CASE i = n + 1 /\ j = n + 1
      BY <1>1, <3>5
    <3> QED
      BY <1>2, <3>2, <3>3, <3>4, <3>5
  <2>3. ASSUME NEW j \in 1 .. n + 1
        PROVE  Matches(g[j], rt \cup {q.route})
    <3>1. CASE j = n + 1
      BY <1>1, <1>4, <3>1 DEF Fits
    <3>2. CASE j \in 1 .. n
      <4>1. Matches(f[j], rt) /\ g[j] = f[j]
        BY <1>1, <2>1, <3>2 DEF Agreed
      <4> QED
        BY <4>1 DEF Matches
    <3> QED
      BY <1>2, <3>1, <3>2
  <2>4. ASSUME NEW e \in rt \cup {q.route}
        PROVE  \E j \in DOMAIN g : g[j].route = e
    <3>1. CASE e = q.route
      BY <1>1, <3>1
    <3>2. CASE e \in rt
      <4>1. PICK j \in 1 .. n : f[j].route = e
        BY <1>1, <2>1, <3>2 DEF Agreed
      <4> QED
        BY <1>1, <4>1
    <3> QED
      BY <3>1, <3>2
  <2> QED
    BY <1>1, <1>3, <2>1, <2>2, <2>3, <2>4 DEF Agreed
<1>5. ASSUME OneWay(W)
      PROVE  Plain(r, g) /\ \A j \in DOMAIN g : Known(W, r, g[j])
  BY <1>1, <1>2, <1>3, <1>5 DEF Right, Fits
<1> QED
  BY <1>4, <1>5 DEF Right, g

\* A sequence without its element k.
LEMMA RemoveAtIs ==
  ASSUME NEW S, NEW f \in Seq(S), NEW k \in 1 .. Len(f)
  PROVE  /\ RemoveAt(f, k) \in Seq(S) /\ Len(RemoveAt(f, k)) = Len(f) - 1
         /\ \A j \in 1 .. Len(f) - 1 : RemoveAt(f, k)[j] = IF j < k THEN f[j] ELSE f[j + 1]
<1> DEFINE a == SubSeq(f, 1, k - 1)
           b == SubSeq(f, k + 1, Len(f))
<1>1. /\ a \in Seq(S) /\ Len(a) = k - 1 /\ \A j \in 1 .. k - 1 : a[j] = f[j]
      /\ b \in Seq(S) /\ Len(b) = Len(f) - k /\ \A j \in 1 .. Len(f) - k : b[j] = f[j + k]
  OBVIOUS
<1>2. RemoveAt(f, k) = a \o b
  BY DEF RemoveAt
<1> HIDE DEF a, b
<1>3. a \o b \in Seq(S) /\ Len(a \o b) = Len(a) + Len(b)
      /\ \A j \in 1 .. Len(a) + Len(b) : (a \o b)[j] = IF j <= Len(a) THEN a[j] ELSE b[j - Len(a)]
  BY <1>1, ConcatProperties
<1>4. RemoveAt(f, k) \in Seq(S) /\ Len(RemoveAt(f, k)) = Len(f) - 1
  BY <1>1, <1>2, <1>3
<1>5. ASSUME NEW j \in 1 .. Len(f) - 1
      PROVE  RemoveAt(f, k)[j] = IF j < k THEN f[j] ELSE f[j + 1]
  <2>1. RemoveAt(f, k)[j] = IF j <= k - 1 THEN a[j] ELSE b[j - (k - 1)]
    BY <1>1, <1>2, <1>3
  <2>2. CASE j < k
    BY <1>1, <2>1, <2>2
  <2>3. CASE j >= k
    <3>1. j - (k - 1) \in 1 .. Len(f) - k /\ j - (k - 1) + k = j + 1 /\ ~(j <= k - 1)
      BY <2>3
    <3> QED
      BY <1>1, <2>1, <2>3, <3>1
  <2> QED
    BY <2>2, <2>3
<1> QED
  BY <1>4, <1>5

\* A route is removed.
LEMMA RightRemoved ==
  ASSUME NEW W, NEW r, NEW f \in Seq(RIPRoute), NEW rt, Right(W, r, f, rt), NEW k \in DOMAIN f
  PROVE  Right(W, r, RemoveAt(f, k), rt \ {f[k].route})
<1> DEFINE g == RemoveAt(f, k)
           n == Len(f)
           at == [j \in 1 .. n - 1 |-> IF j < k THEN j ELSE j + 1]
<1>1. n \in Nat /\ DOMAIN f = 1 .. n /\ k \in 1 .. n
  OBVIOUS
<1>2. DOMAIN g = 1 .. n - 1 /\ \A j \in 1 .. n - 1 : g[j] = f[at[j]]
  <2>1. /\ g \in Seq(RIPRoute) /\ Len(g) = n - 1
        /\ \A j \in 1 .. n - 1 : g[j] = IF j < k THEN f[j] ELSE f[j + 1]
    BY <1>1, RemoveAtIs
  <2> HIDE DEF g
  <2> QED
    BY <2>1
<1>3. /\ \A j \in 1 .. n - 1 : at[j] \in 1 .. n /\ at[j] # k
      /\ \A i, j \in 1 .. n - 1 : (i < j => at[i] < at[j]) /\ (i # j => at[i] # at[j])
  BY <1>1
<1>4. ASSUME NEW i \in 1 .. n, i # k
      PROVE  \E j \in 1 .. n - 1 : at[j] = i
  <2>1. CASE i < k
    <3>1. i \in 1 .. n - 1 /\ at[i] = i
      BY <1>1, <2>1
    <3> QED
      BY <3>1
  <2>2. CASE i > k
    <3>1. i - 1 \in 1 .. n - 1 /\ at[i - 1] = i
      BY <1>1, <2>2
    <3> QED
      BY <3>1
  <2> QED
    BY <1>1, <1>4, <2>1, <2>2
<1> HIDE DEF g, n, at
<1>5. Plain(r, f) => Plain(r, g)
  BY <1>1, <1>2, <1>3 DEF Plain
<1>6. ASSUME LevelCosts
      PROVE  Agreed(r, g, rt \ {f[k].route})
  <2>1. Agreed(r, f, rt)
    BY <1>6 DEF Right
  <2>2. Ordered(g)
    <3>1. Ordered(f)
      BY <2>1 DEF Agreed
    <3> QED
      BY <1>1, <1>2, <1>3, <3>1 DEF Ordered
  <2>3. ASSUME NEW j \in 1 .. n - 1
        PROVE  Matches(g[j], rt \ {f[k].route})
    <3>1. Matches(f[at[j]], rt) /\ g[j] = f[at[j]]
      BY <1>1, <1>2, <1>3, <2>1 DEF Agreed
    <3>2. f[at[j]].route # None => f[at[j]].route # f[k].route
      BY <1>1, <1>3, <2>1, OneEach
    <3> QED
      BY <3>1, <3>2 DEF Matches
  <2>4. ASSUME NEW e \in rt \ {f[k].route}
        PROVE  \E j \in DOMAIN g : g[j].route = e
    <3>1. PICK i \in 1 .. n : f[i].route = e
      BY <1>1, <2>1 DEF Agreed
    <3>2. PICK j \in 1 .. n - 1 : at[j] = i
      BY <1>4, <3>1
    <3> QED
      BY <1>2, <3>1, <3>2
  <2> QED
    BY <1>2, <1>5, <2>1, <2>2, <2>3, <2>4 DEF Agreed
<1>7. ASSUME OneWay(W)
      PROVE  Plain(r, g) /\ \A j \in DOMAIN g : Known(W, r, g[j])
  BY <1>1, <1>2, <1>3, <1>5, <1>7 DEF Right
<1> QED
  BY <1>6, <1>7 DEF Right, g

-----------------------------------------------------------------------------
(* Invalid and expired routes *)

\* What a router sends, it sends on an interface of its own, and says only what it may believe.
Sent(W, r, o) ==
  /\ o.packet.src = <<r, o.on>> /\ <<r, o.on>> \in Addr
  /\ OneWay(W) => \A k \in DOMAIN o.packet.entries : Says(W, <<r, o.on>>, o.packet.entries[k])
\* All it has sent in a handler
AllSent(W, r, out) == \A j \in DOMAIN out : Sent(W, r, out[j])

\* Router r in a handler: its tables are right, no ASSERT has failed, and so it speaks.
Well(W, r, s) ==
  /\ s \in RouterState /\ s.status = "on"
  /\ Right(W, r, s.ripRoutes, s.rt)
  /\ LevelCosts => ~s.failed
  /\ AllSent(W, r, s.out)

\* The fields of a router.
LEMMA RouterFields ==
  ASSUME NEW s \in RouterState
  PROVE  /\ s.ripRoutes \in Seq(RIPRoute) /\ s.rt \subseteq IPv4Route
         /\ s.out \in Seq([on : Net, to : Addr \cup {None}, packet : RIPPacket])
         /\ s.status \in {"off", "starting", "on"}
         /\ s.triggered \in BOOLEAN /\ s.pending \in BOOLEAN /\ s.failed \in BOOLEAN
         /\ s.astray \in BOOLEAN
BY DEF RouterState

\* A call of triggerUpdate() changes nothing else.
LEMMA TriggerFields ==
  ASSUME NEW s \in RouterState
  PROVE  /\ TriggerUpdate(s) \in RouterState
         /\ TriggerUpdate(s).ripRoutes = s.ripRoutes /\ TriggerUpdate(s).rt = s.rt
         /\ TriggerUpdate(s).out = s.out /\ TriggerUpdate(s).failed = s.failed
         /\ TriggerUpdate(s).status = s.status
BY DEF TriggerUpdate, RouterState

\* invalidateRoute()
LEMMA InvalidateRouteIs ==
  ASSUME NEW s \in RouterState, NEW k \in DOMAIN s.ripRoutes
  PROVE  LET t == InvalidateRoute(s, k)
         IN /\ t \in RouterState
            /\ t.ripRoutes = [s.ripRoutes EXCEPT ![k] = Gone(s.ripRoutes[k])]
            /\ t.rt = s.rt \ {s.ripRoutes[k].route}
            /\ t.out = s.out /\ t.failed = s.failed /\ t.status = s.status
<1> DEFINE q == s.ripRoutes[k]
           f == [s.ripRoutes EXCEPT ![k] = Gone(q)]
           u == [s EXCEPT !.rt = @ \ {q.route}, !.ripRoutes = f]
<1>1. q \in RIPRoute /\ Gone(q) \in RIPRoute /\ s.ripRoutes \in Seq(RIPRoute)
  BY RouterFields, GoneFields
<1>2. f \in Seq(RIPRoute)
  BY <1>1
<1>3. InvalidateRoute(s, k) = TriggerUpdate(u)
  BY DEF InvalidateRoute, Gone
<1> HIDE DEF f
<1>4. /\ u \in RouterState /\ u.ripRoutes = f /\ u.rt = s.rt \ {q.route}
      /\ u.out = s.out /\ u.failed = s.failed /\ u.status = s.status
  BY <1>2 DEF RouterState
<1> HIDE DEF u
<1> QED
  BY <1>3, <1>4, TriggerFields DEF f

\* purgeRoute()
LEMMA PurgeRouteIs ==
  ASSUME NEW s \in RouterState, NEW k \in DOMAIN s.ripRoutes
  PROVE  LET t == PurgeRoute(s, k)
         IN /\ t \in RouterState
            /\ t.ripRoutes = RemoveAt(s.ripRoutes, k)
            /\ t.rt = s.rt \ {s.ripRoutes[k].route}
            /\ t.out = s.out /\ t.failed = s.failed /\ t.status = s.status
<1> DEFINE f == RemoveAt(s.ripRoutes, k)
<1>1. s.ripRoutes \in Seq(RIPRoute) /\ k \in 1 .. Len(s.ripRoutes)
  BY RouterFields
<1>2. f \in Seq(RIPRoute)
  BY <1>1, RemoveAtIs
<1> HIDE DEF f
<1> QED
  BY <1>2 DEF PurgeRoute, RouterState, f

\* Both leave a router well.
LEMMA InvalidateRouteWell ==
  ASSUME NEW W, NEW r, NEW s, Well(W, r, s), NEW k \in DOMAIN s.ripRoutes
  PROVE  Well(W, r, InvalidateRoute(s, k))
<1> DEFINE f == s.ripRoutes
           g == [f EXCEPT ![k] = Gone(f[k])]
           t == InvalidateRoute(s, k)
<1>1. f \in Seq(RIPRoute) /\ Gone(f[k]) \in RIPRoute /\ s \in RouterState
  BY RouterFields, GoneFields DEF Well
<1>2. /\ g \in Seq(RIPRoute) /\ DOMAIN g = DOMAIN f
      /\ \A j \in DOMAIN f : g[j] = IF j \in {k} THEN Gone(f[j]) ELSE f[j]
  BY <1>1
<1>3. Right(W, r, f, s.rt)
  BY DEF Well
<1>7. {k} \subseteq DOMAIN f
  OBVIOUS
<1>4. Right(W, r, g, s.rt \ {f[j].route : j \in {k}})
  <2> HIDE DEF g, f
  <2> QED
    BY <1>1, <1>2, <1>3, <1>7, RightGone
<1>5. /\ t \in RouterState /\ t.ripRoutes = g /\ t.rt = s.rt \ {f[k].route}
      /\ t.out = s.out /\ t.failed = s.failed /\ t.status = s.status
  BY <1>1, InvalidateRouteIs
<1>6. {f[j].route : j \in {k}} = {f[k].route}
  OBVIOUS
<1> HIDE DEF t, g, f
<1> QED
  BY <1>4, <1>5, <1>6 DEF Well, t

\* (the second)
LEMMA PurgeRouteWell ==
  ASSUME NEW W, NEW r, NEW s, Well(W, r, s), NEW k \in DOMAIN s.ripRoutes
  PROVE  Well(W, r, PurgeRoute(s, k))
<1> DEFINE f == s.ripRoutes
           t == PurgeRoute(s, k)
<1>1. f \in Seq(RIPRoute) /\ s \in RouterState /\ Right(W, r, f, s.rt)
  BY RouterFields DEF Well
<1>2. Right(W, r, RemoveAt(f, k), s.rt \ {f[k].route})
  BY <1>1, RightRemoved
<1>3. /\ t \in RouterState /\ t.ripRoutes = RemoveAt(f, k) /\ t.rt = s.rt \ {f[k].route}
      /\ t.out = s.out /\ t.failed = s.failed /\ t.status = s.status
  BY <1>1, PurgeRouteIs
<1> HIDE DEF t, f
<1> QED
  BY <1>2, <1>3 DEF Well, t

\* What the equation of a loop says of its solution f, once it has one, as far as it is about S.
Solves(f, G, S, n, start) ==
  (\E g : Runs(g, G, S, n, start)) =>
    f[0] = start /\ \A k \in 1 .. n : f[k - 1] \in S => f[k] = G[<<f[k - 1], k>>]
\* Then it is one for all rounds.
Unrolls(f, G, S, n, start) ==
  /\ f[0] = start /\ \A k \in 0 .. n : f[k] \in S
  /\ \A k \in 1 .. n : f[k - 1] \in S /\ f[k] = G[<<f[k - 1], k>>]

\* (by induction)
LEMMA LoopUnrolls ==
  ASSUME NEW n \in Nat, NEW S, NEW G \in [S \X (1 .. n) -> S], NEW start \in S, NEW after,
         Solves(after, G, S, n, start)
  PROVE  Unrolls(after, G, S, n, start)
<1>1. PICK f : Runs(f, G, S, n, start)
  BY LoopRuns
<1>2. /\ after[0] = start
      /\ \A k \in 1 .. n : after[k - 1] \in S => after[k] = G[<<after[k - 1], k>>]
  BY <1>1 DEF Solves
<1>3. ASSUME NEW k \in 1 .. n, after[k - 1] \in S
      PROVE  after[k] \in S
  BY <1>2, <1>3
<1>4. \A k \in 0 .. n : after[k] \in S
  BY <1>2, <1>3, LoopStays
<1>5. \A k \in 1 .. n : k - 1 \in 0 .. n
  OBVIOUS
<1> QED
  BY <1>2, <1>4, <1>5 DEF Unrolls

\* The loop that invalidates routes changes each that is lost, and no other.
LEMMA InvalidateRoutesIs ==
  ASSUME NEW s \in RouterState, NEW lost
  PROVE  LET t == InvalidateRoutes(s, lost)
             f == s.ripRoutes
             K == {k \in DOMAIN f : f[k] \in lost}
         IN /\ t \in RouterState /\ DOMAIN t.ripRoutes = DOMAIN f
            /\ \A k \in DOMAIN f : t.ripRoutes[k] = IF k \in K THEN Gone(f[k]) ELSE f[k]
            /\ t.rt = s.rt \ {f[k].route : k \in K}
            /\ t.out = s.out /\ t.failed = s.failed /\ t.status = s.status
<1> DEFINE f == s.ripRoutes
           n == Len(f)
           K == {k \in DOMAIN f : f[k] \in lost}
           seq == [k \in DOMAIN f |-> k]
           R(t, k) == IF t.ripRoutes[k] \in lost THEN InvalidateRoute(t, k) ELSE t
           Eq(g) == g = [k \in 0 .. Len(seq) |->
                          IF k = 0 THEN s
                          ELSE CHOOSE t \in {R(x, seq[k]) : x \in {g[k - 1]}} : TRUE]
           after == CHOOSE g : Eq(g)
           S == {t \in RouterState : DOMAIN t.ripRoutes = 1 .. n}
           G == [p \in S \X (1 .. n) |-> R(p[1], p[2])]
<1>1. InvalidateRoutes(s, lost) = after[Len(seq)]
  BY DEF InvalidateRoutes, Through
<1>2. n \in Nat /\ DOMAIN f = 1 .. n /\ Len(seq) = n /\ (\A k \in 1 .. n : seq[k] = k) /\ s \in S
  BY RouterFields
<1>3. ASSUME NEW t \in S, NEW k \in 1 .. n
      PROVE  /\ R(t, k) \in S
             /\ R(t, k).ripRoutes =
                  IF t.ripRoutes[k] \in lost THEN [t.ripRoutes EXCEPT ![k] = Gone(t.ripRoutes[k])]
                  ELSE t.ripRoutes
             /\ R(t, k).rt = IF t.ripRoutes[k] \in lost THEN t.rt \ {t.ripRoutes[k].route} ELSE t.rt
             /\ R(t, k).out = t.out /\ R(t, k).failed = t.failed /\ R(t, k).status = t.status
  <2>1. k \in DOMAIN t.ripRoutes /\ t \in RouterState
    OBVIOUS
  <2>2. CASE t.ripRoutes[k] \in lost
    BY <2>1, <2>2, InvalidateRouteIs
  <2>3. CASE t.ripRoutes[k] \notin lost
    BY <2>3
  <2> QED
    BY <2>2, <2>3
<1> HIDE DEF R, S, seq
<1>4. G \in [S \X (1 .. n) -> S] /\ \A t \in S : \A k \in 1 .. n : G[<<t, k>>] = R(t, k)
  BY <1>3
<1> HIDE DEF G, n, f
<1>5. Solves(after, G, S, n, s)
  <2> SUFFICES ASSUME NEW g, Runs(g, G, S, n, s)
               PROVE  /\ after[0] = s
                      /\ \A k \in 1 .. n : after[k - 1] \in S => after[k] = G[<<after[k - 1], k>>]
    BY DEF Solves
  <2>1. \A k \in 1 .. n : g[k - 1] \in S /\ g[k] = R(g[k - 1], seq[k])
    <3> TAKE k \in 1 .. n
    <3>1. g[k - 1] \in S /\ g[k] = G[<<g[k - 1], k>>]
      BY <1>2 DEF Runs
    <3> QED
      BY <1>2, <1>4, <3>1
  <2>2. Eq(g)
    BY <1>2, <2>1 DEF Runs
  <2>3. Eq(after)
    <3> HIDE DEF Eq
    <3> QED
      BY <2>2
  <2> HIDE DEF after
  <2>4. after[0] = s /\ \A k \in 1 .. n : after[k] = R(after[k - 1], seq[k])
    BY <1>2, <2>3
  <2> QED
    BY <1>2, <1>4, <2>4
<1> HIDE DEF after
<1>6. /\ after[0] = s /\ \A k \in 0 .. n : after[k] \in S
      /\ \A k \in 1 .. n : after[k - 1] \in S /\ after[k] = R(after[k - 1], k)
  <2>1. /\ after[0] = s /\ \A k \in 0 .. n : after[k] \in S
        /\ \A k \in 1 .. n : after[k - 1] \in S /\ after[k] = G[<<after[k - 1], k>>]
    <3>1. Unrolls(after, G, S, n, s)
      BY <1>2, <1>4, <1>5, LoopUnrolls
    <3> QED
      BY <3>1 DEF Unrolls
  <2>2. ASSUME NEW k \in 1 .. n
        PROVE  after[k] = R(after[k - 1], k)
    <3>1. after[k - 1] \in S /\ after[k] = G[<<after[k - 1], k>>]
      BY <2>1
    <3> QED
      BY <1>4, <3>1
  <2> QED
    BY <2>1, <2>2
<1> DEFINE T == {m \in 0 .. n :
                   /\ \A k \in 1 .. n : after[m].ripRoutes[k] =
                        IF k \in K /\ k <= m THEN Gone(f[k]) ELSE f[k]
                   /\ after[m].rt = s.rt \ {f[k].route : k \in {j \in K : j <= m}}
                   /\ after[m].out = s.out /\ after[m].failed = s.failed
                   /\ after[m].status = s.status}
<1>7. 0 \in T
  <2>1. \A k \in 1 .. n : ~(k <= 0)
    BY <1>2
  <2> QED
    BY <1>2, <1>6, <2>1 DEF f
<1>8. ASSUME NEW m \in 1 .. n, m - 1 \in T
      PROVE  m \in T
  <2> DEFINE t == after[m - 1]
  <2>1. t \in S /\ after[m] = R(t, m) /\ m \in Nat
    BY <1>2, <1>6
  <2>2. t.ripRoutes[m] = f[m]
    <3>1. ~(m <= m - 1)
      BY <2>1
    <3> QED
      BY <1>8, <3>1
  <2>3. m \in K <=> t.ripRoutes[m] \in lost
    BY <1>2, <2>2
  <2>4. DOMAIN t.ripRoutes = 1 .. n
    BY <2>1 DEF S
  <2>9. \A k \in 1 .. n : t.ripRoutes[k] = IF k \in K /\ k <= m - 1 THEN Gone(f[k]) ELSE f[k]
    BY <1>8
  <2>10. t.rt = s.rt \ {f[k].route : k \in {j \in K : j <= m - 1}}
    BY <1>8
  <2>11. t.out = s.out /\ t.failed = s.failed /\ t.status = s.status
    BY <1>8
  <2>12. /\ after[m].ripRoutes = IF m \in K THEN [t.ripRoutes EXCEPT ![m] = Gone(f[m])]
                                 ELSE t.ripRoutes
         /\ after[m].rt = IF m \in K THEN t.rt \ {f[m].route} ELSE t.rt
         /\ after[m].out = t.out /\ after[m].failed = t.failed /\ after[m].status = t.status
    <3> HIDE DEF t, K, T
    <3> QED
      BY <1>3, <2>1, <2>2, <2>3
  <2> HIDE DEF t
  <2>5. \A k \in 1 .. n : k <= m <=> k <= m - 1 \/ k = m
    BY <2>1
  <2>6. ASSUME NEW k \in 1 .. n
        PROVE  after[m].ripRoutes[k] = IF k \in K /\ k <= m THEN Gone(f[k]) ELSE f[k]
    <3> HIDE DEF K, T
    <3>1. CASE k = m
      BY <2>2, <2>4, <2>5, <2>9, <2>12, <3>1
    <3>2. CASE k # m
      BY <2>4, <2>5, <2>9, <2>12, <3>2
    <3> QED
      BY <3>1, <3>2
  <2>7. after[m].rt = s.rt \ {f[k].route : k \in {j \in K : j <= m}}
    <3>1. {j \in K : j <= m} = {j \in K : j <= m - 1} \cup (IF m \in K THEN {m} ELSE {})
      BY <1>2, <2>5
    <3> HIDE DEF K, T
    <3> QED
      BY <2>10, <2>12, <3>1
  <2>8. after[m].out = s.out /\ after[m].failed = s.failed /\ after[m].status = s.status
    BY <2>11, <2>12
  <2> QED
    BY <2>6, <2>7, <2>8
<1>9. n \in T
  <2> HIDE DEF T
  <2> QED
    BY <1>2, <1>7, <1>8, Upwards
<1>10. \A k \in K : k <= n
  BY <1>2
<1>11. {j \in K : j <= n} = K
  BY <1>10
<1>12. after[n] \in RouterState /\ DOMAIN after[n].ripRoutes = 1 .. n
  BY <1>2, <1>6 DEF S
<1> QED
  BY <1>1, <1>2, <1>9, <1>10, <1>11, <1>12 DEF f

-----------------------------------------------------------------------------
(* Sending routes *)

\* sendPacket() adds a packet to what was sent.
LEMMA SendToWell ==
  ASSUME NEW W, NEW r, NEW s, Well(W, r, s), NEW n, NEW to \in Addr \cup {None},
         NEW packet \in RIPPacket, Sent(W, r, [on |-> n, to |-> to, packet |-> packet])
  PROVE  Well(W, r, SendTo(s, n, to, packet))
<1> DEFINE o == [on |-> n, to |-> to, packet |-> packet]
           t == SendTo(s, n, to, packet)
           Packets == [on : Net, to : Addr \cup {None}, packet : RIPPacket]
<1>1. n \in Net
  BY Addresses DEF Sent
<1>2. s \in RouterState /\ s.out \in Seq(Packets) /\ o \in Packets
  BY <1>1, RouterFields DEF Well
<1>3. Append(s.out, o) \in Seq(Packets)
  BY <1>2
<1>4. /\ t \in RouterState /\ t.ripRoutes = s.ripRoutes /\ t.rt = s.rt /\ t.failed = s.failed
      /\ t.status = s.status /\ t.out = Append(s.out, o)
  BY <1>2, <1>3 DEF SendTo, RouterState
<1>5. ASSUME NEW j \in DOMAIN Append(s.out, o)
      PROVE  Sent(W, r, Append(s.out, o)[j])
  <2>1. CASE j \in 1 .. Len(s.out)
    <3>1. Append(s.out, o)[j] = s.out[j] /\ j \in DOMAIN s.out
      BY <1>2, <2>1
    <3> QED
      BY <3>1 DEF Well, AllSent
  <2>2. CASE j = Len(s.out) + 1
    <3>1. Append(s.out, o)[j] = o
      BY <1>2, <2>2
    <3> QED
      BY <3>1
  <2> QED
    BY <1>2, <2>1, <2>2
<1> HIDE DEF t, o
<1> QED
  BY <1>4, <1>5 DEF Well, AllSent, t

\* A route that a router knows, it may say, where it does not hide it.
LEMMA SaysKnown ==
  ASSUME NEW W, NEW r \in Router, NEW n, <<r, n>> \in Addr, NEW q \in RIPRoute, Known(W, r, q),
         ~HidesRoute(r, n, q)
  PROVE  /\ [address |-> q.dest, metric |-> AdvertisedMetric(r, n, q)] \in RIPEntry
         /\ Says(W, <<r, n>>, [address |-> q.dest, metric |-> AdvertisedMetric(r, n, q)])
<1> DEFINE m == AdvertisedMetric(r, n, q)
           e == [address |-> q.dest, metric |-> m]
<1>1. q.dest \in Net /\ q.ie \in Net /\ q.metric \in Metric
  BY DEF RIPRoute
<1>2. m = RIP_INFINITE_METRIC \/ (m = q.metric /\ (q.ie = n => ~Splits(<<r, n>>)))
  BY DEF AdvertisedMetric, HidesRoute, Splits
<1> HIDE DEF m
<1>3. m \in Metric
  BY <1>1, <1>2, Metrics
<1>4. CASE m = RIP_INFINITE_METRIC
  BY <1>1, <1>3, <1>4 DEF RIPEntry, Says, m
<1>5. CASE m # RIP_INFINITE_METRIC
  <2>1. <<r, q.dest, q.ie, m>> \in W
    BY <1>2, <1>5 DEF Known
  <2>2. Says(W, <<r, n>>, e)
    BY <1>1, <1>2, <1>5, <2>1 DEF Says
  <2> QED
    BY <1>1, <1>3, <2>2 DEF RIPEntry, m
<1> QED
  BY <1>4, <1>5

\* The loop of sendRoutes(), with interface n.
Round(W, r, n) ==
  {w \in [s : RouterState, k : Nat \ {0}, entries : Seq(RIPEntry)] :
     /\ Well(W, r, w.s)
     /\ OneWay(W) => \A j \in DOMAIN w.entries : Says(W, <<r, n>>, w.entries[j])}

\* Its variables,
LEMMA RoundFields ==
  ASSUME NEW W, NEW r, NEW n, NEW w \in Round(W, r, n)
  PROVE  /\ w \in [s : RouterState, k : Nat \ {0}, entries : Seq(RIPEntry)]
         /\ Well(W, r, w.s)
         /\ OneWay(W) => \A j \in DOMAIN w.entries : Says(W, <<r, n>>, w.entries[j])
         /\ w.s \in RouterState /\ w.k \in Nat /\ w.k >= 1 /\ w.entries \in Seq(RIPEntry)
         /\ w.s.ripRoutes \in Seq(RIPRoute)
<1>1. /\ w \in [s : RouterState, k : Nat \ {0}, entries : Seq(RIPEntry)]
      /\ Well(W, r, w.s)
      /\ OneWay(W) => \A j \in DOMAIN w.entries : Says(W, <<r, n>>, w.entries[j])
  BY DEF Round
<1>2. w.s \in RouterState /\ w.k \in Nat /\ w.k >= 1 /\ w.entries \in Seq(RIPEntry)
  BY <1>1
<1>3. w.s.ripRoutes \in Seq(RIPRoute)
  BY <1>2, RouterFields
<1> QED
  BY <1>1, <1>2, <1>3

\* and how they change.
LEMMA RoundMoves ==
  ASSUME NEW W, NEW r, NEW n, NEW w \in Round(W, r, n), NEW t, Well(W, r, t),
         NEW x, x = [w EXCEPT !.s = t, !.k = @ + 1]
  PROVE  x \in Round(W, r, n)
<1> DEFINE Kind == [s : RouterState, k : Nat \ {0}, entries : Seq(RIPEntry)]
<1>1. w \in Kind /\ t \in RouterState /\ w.k + 1 \in Nat \ {0}
  <2>1. w \in Kind /\ w.k \in Nat
    BY RoundFields
  <2> QED
    BY <2>1 DEF Well
<1>2. x \in Kind /\ x.s = t /\ x.entries = w.entries
  BY <1>1
<1>3. OneWay(W) => \A j \in DOMAIN w.entries : Says(W, <<r, n>>, w.entries[j])
  BY RoundFields
<1> QED
  BY <1>2, <1>3 DEF Round

\* (the entries)
LEMMA RoundSays ==
  ASSUME NEW W, NEW r, NEW n, NEW w \in Round(W, r, n),
         NEW es \in Seq(RIPEntry), OneWay(W) => \A j \in DOMAIN es : Says(W, <<r, n>>, es[j]),
         NEW x, x = [w EXCEPT !.k = @ + 1, !.entries = es]
  PROVE  x \in Round(W, r, n)
<1> DEFINE Kind == [s : RouterState, k : Nat \ {0}, entries : Seq(RIPEntry)]
<1>1. w \in Kind /\ w.k + 1 \in Nat \ {0}
  BY RoundFields
<1>2. x \in Kind /\ x.s = w.s /\ x.entries = es
  BY <1>1
<1>3. Well(W, r, w.s)
  BY RoundFields
<1> QED
  BY <1>2, <1>3 DEF Round

\* A round of it
LEMMA SendRouteWell ==
  ASSUME NEW W, NEW r \in Router, NEW n, <<r, n>> \in Addr, NEW changedOnly \in BOOLEAN,
         NEW w \in Round(W, r, n)
  PROVE  SendRoute(r, n, changedOnly, w) \in Round(W, r, n)
<1> DEFINE q == w.s.ripRoutes[w.k]
           x == SendRoute(r, n, changedOnly, w)
<1>1. /\ w \in [s : RouterState, k : Nat \ {0}, entries : Seq(RIPEntry)] /\ Well(W, r, w.s)
      /\ OneWay(W) => \A j \in DOMAIN w.entries : Says(W, <<r, n>>, w.entries[j])
      /\ w.s \in RouterState /\ w.k \in Nat /\ w.k >= 1 /\ w.entries \in Seq(RIPEntry)
      /\ w.s.ripRoutes \in Seq(RIPRoute)
  BY RoundFields
<1>2. CASE w.k > Len(w.s.ripRoutes)
  BY <1>2 DEF SendRoute
<1>3. CASE ~(w.k > Len(w.s.ripRoutes))
  <2>1. w.k \in DOMAIN w.s.ripRoutes /\ q \in RIPRoute /\ w.k + 1 \in Nat \ {0}
    BY <1>1, <1>3
  <2>4. CASE q.type = "RTE" /\ q.age >= ExpiryPeriods + PurgePeriods
    <3>1. x = [w EXCEPT !.s = PurgeRoute(w.s, w.k), !.k = @ + 1]
      <4>1. ~(q.type = "RTE" /\ q.age >= ExpiryPeriods /\ q.age < ExpiryPeriods + PurgePeriods)
        BY <2>1, <2>4, RouterAssumption DEF RIPRoute, MaxAge
      <4> QED
        BY <1>3, <2>4, <4>1 DEF SendRoute
    <3>2. Well(W, r, PurgeRoute(w.s, w.k))
      BY <1>1, <2>1, PurgeRouteWell
    <3> QED
      BY <1>1, <3>1, <3>2, RoundMoves
  <2>5. CASE q.type = "RTE" /\ q.age >= ExpiryPeriods /\ q.age < ExpiryPeriods + PurgePeriods
    <3>1. ~(q.type = "RTE" /\ q.age >= ExpiryPeriods + PurgePeriods)
      BY <2>1, <2>5, RouterAssumption DEF RIPRoute, MaxAge
    <3>2. x = [w EXCEPT !.s = InvalidateRoute(w.s, w.k), !.k = @ + 1]
      BY <1>3, <2>5, <3>1 DEF SendRoute
    <3>3. Well(W, r, InvalidateRoute(w.s, w.k))
      BY <1>1, <2>1, InvalidateRouteWell
    <3> QED
      BY <1>1, <3>2, <3>3, RoundMoves
  <2>6. CASE /\ ~(q.type = "RTE" /\ q.age >= ExpiryPeriods + PurgePeriods)
             /\ ~(q.type = "RTE" /\ q.age >= ExpiryPeriods /\ q.age < ExpiryPeriods + PurgePeriods)
    <3> DEFINE e == [address |-> q.dest, metric |-> AdvertisedMetric(r, n, q)]
               es == IF (changedOnly /\ ~q.changed) \/ HidesRoute(r, n, q) THEN w.entries
                     ELSE Append(w.entries, e)
    <3>1. x = [w EXCEPT !.k = @ + 1, !.entries = es]
      BY <1>3, <2>6 DEF SendRoute
    <3>2. CASE (changedOnly /\ ~q.changed) \/ HidesRoute(r, n, q)
      <4>1. x = [w EXCEPT !.k = @ + 1, !.entries = w.entries]
        BY <3>1, <3>2
      <4>2. x \in Round(W, r, n)
        <5> HIDE DEF x, q
        <5> QED
          BY <1>1, <4>1, RoundSays
      <4> QED
        BY <4>2
    <3>3. CASE ~((changedOnly /\ ~q.changed) \/ HidesRoute(r, n, q))
      <4>1. e \in RIPEntry
        BY <2>1, Metrics DEF RIPEntry, RIPRoute, AdvertisedMetric
      <4>2. OneWay(W) => Says(W, <<r, n>>, e)
        <5>1. OneWay(W) => Known(W, r, q)
          BY <1>1, <2>1 DEF Well, Right
        <5> QED
          BY <2>1, <3>3, <5>1, SaysKnown
      <4> HIDE DEF e, q
      <4>3. Append(w.entries, e) \in Seq(RIPEntry)
        BY <1>1, <4>1
      <4>4. ASSUME OneWay(W), NEW j \in DOMAIN Append(w.entries, e)
            PROVE  Says(W, <<r, n>>, Append(w.entries, e)[j])
        <5>1. j \in 1 .. Len(w.entries) \/ j = Len(w.entries) + 1
          BY <1>1
        <5>2. Append(w.entries, e)[j] = IF j = Len(w.entries) + 1 THEN e ELSE w.entries[j]
          BY <1>1
        <5>3. j \in 1 .. Len(w.entries) => j \in DOMAIN w.entries /\ j # Len(w.entries) + 1
          BY <1>1
        <5> QED
          BY <1>1, <4>2, <4>4, <5>1, <5>2, <5>3
      <4>5. x = [w EXCEPT !.k = @ + 1, !.entries = Append(w.entries, e)]
        BY <3>1, <3>3
      <4>6. x \in Round(W, r, n)
        <5> HIDE DEF x
        <5> QED
          BY <1>1, <4>3, <4>4, <4>5, RoundSays
      <4> QED
        BY <4>6
    <3> QED
      BY <3>2, <3>3
  <2> QED
    BY <2>4, <2>5, <2>6
<1> QED
  BY <1>2, <1>3

\* The loop leaves a router well, and says what it may.
LEMMA SendRoutesRounds ==
  ASSUME NEW W, NEW r \in Router, NEW n, <<r, n>> \in Addr, NEW changedOnly \in BOOLEAN,
         NEW s, Well(W, r, s)
  PROVE  Through(LAMBDA v, k : SendRoute(r, n, changedOnly, v),
                 [s |-> s, k |-> 1, entries |-> <<>>], s.ripRoutes) \in Round(W, r, n)
<1> DEFINE start == [s |-> s, k |-> 1, entries |-> <<>>]
           seq == s.ripRoutes
           m == Len(seq)
           S == Round(W, r, n)
           R(v) == SendRoute(r, n, changedOnly, v)
           Eq(g) == g = [k \in 0 .. Len(seq) |->
                          IF k = 0 THEN start
                          ELSE CHOOSE t \in {R(x) : x \in {g[k - 1]}} : TRUE]
           after == CHOOSE g : Eq(g)
           G == [p \in S \X (1 .. m) |-> R(p[1])]
<1>1. Through(LAMBDA v, k : SendRoute(r, n, changedOnly, v), start, seq) = after[Len(seq)]
  BY DEF Through
<1>2. m \in Nat /\ start \in S
  <2>1. s \in RouterState /\ m \in Nat
    BY RouterFields DEF Well
  <2>2. start \in [s : RouterState, k : Nat \ {0}, entries : Seq(RIPEntry)]
    BY <2>1
  <2> QED
    BY <2>1, <2>2 DEF Round
<1>3. \A v \in S : R(v) \in S
  BY SendRouteWell
<1> HIDE DEF R, S, start, seq
<1>4. G \in [S \X (1 .. m) -> S] /\ \A v \in S : \A k \in 1 .. m : G[<<v, k>>] = R(v)
  BY <1>3
<1> HIDE DEF G
<1>5. Solves(after, G, S, m, start)
  <2> SUFFICES ASSUME NEW g, Runs(g, G, S, m, start)
               PROVE  /\ after[0] = start
                      /\ \A k \in 1 .. m : after[k - 1] \in S => after[k] = G[<<after[k - 1], k>>]
    BY DEF Solves
  <2>1. \A k \in 1 .. m : g[k - 1] \in S /\ g[k] = R(g[k - 1])
    <3> TAKE k \in 1 .. m
    <3>1. g[k - 1] \in S /\ g[k] = G[<<g[k - 1], k>>]
      BY <1>2 DEF Runs
    <3> QED
      BY <1>4, <3>1
  <2>2. Eq(g)
    BY <1>2, <2>1 DEF Runs
  <2>3. Eq(after)
    <3> HIDE DEF Eq
    <3> QED
      BY <2>2
  <2> HIDE DEF after
  <2>4. after[0] = start /\ \A k \in 1 .. m : after[k] = R(after[k - 1])
    BY <1>2, <2>3
  <2> QED
    BY <1>2, <1>4, <2>4
<1> HIDE DEF after
<1>6. Unrolls(after, G, S, m, start)
  BY <1>2, <1>4, <1>5, LoopUnrolls
<1>7. after[m] \in S
  BY <1>2, <1>6 DEF Unrolls
<1> QED
  BY <1>1, <1>7 DEF S, start, seq

\* sendRoutes()
LEMMA SendRoutesWell ==
  ASSUME NEW W, NEW r \in Router, NEW n, <<r, n>> \in Addr, NEW changedOnly \in BOOLEAN,
         NEW s, Well(W, r, s), NEW to \in Addr \cup {None}
  PROVE  Well(W, r, SendRoutes(r, s, n, to, changedOnly))
<1> DEFINE w == Through(LAMBDA v, k : SendRoute(r, n, changedOnly, v),
                        [s |-> s, k |-> 1, entries |-> <<>>], s.ripRoutes)
           packet == [command |-> "response", src |-> <<r, n>>, entries |-> w.entries]
           o == [on |-> n, to |-> to, packet |-> packet]
<1>1. SendRoutes(r, s, n, to, changedOnly) =
        IF w.entries = <<>> THEN w.s ELSE SendTo(w.s, n, to, packet)
  BY DEF SendRoutes
<1>2. w \in Round(W, r, n)
  BY SendRoutesRounds
<1> HIDE DEF w
<1>3. /\ Well(W, r, w.s) /\ w.entries \in Seq(RIPEntry)
      /\ OneWay(W) => \A j \in DOMAIN w.entries : Says(W, <<r, n>>, w.entries[j])
  BY <1>2, RoundFields
<1>4. packet \in RIPPacket
  BY <1>3 DEF RIPPacket
<1>5. Sent(W, r, o)
  BY <1>3 DEF Sent
<1> HIDE DEF packet
<1>6. Well(W, r, SendTo(w.s, n, to, packet))
  BY <1>3, <1>4, <1>5, SendToWell
<1> QED
  BY <1>1, <1>3, <1>6

\* sendRoutes() on one interface after the other
LEMMA SendRoutesOnWell ==
  ASSUME NEW W, NEW r \in Router, NEW nets \in Seq(Net), \A j \in DOMAIN nets : <<r, nets[j]>> \in Addr,
         NEW changedOnly \in BOOLEAN, NEW s, Well(W, r, s)
  PROVE  Well(W, r, SendRoutesOn(r, s, nets, changedOnly))
<1> DEFINE m == Len(nets)
           S == {t \in RouterState : Well(W, r, t)}
           R(t, n) == SendRoutes(r, t, n, None, changedOnly)
           Eq(g) == g = [k \in 0 .. Len(nets) |->
                          IF k = 0 THEN s
                          ELSE CHOOSE t \in {R(x, nets[k]) : x \in {g[k - 1]}} : TRUE]
           after == CHOOSE g : Eq(g)
           G == [p \in S \X (1 .. m) |-> R(p[1], nets[p[2]])]
<1>1. SendRoutesOn(r, s, nets, changedOnly) = after[m]
  BY DEF SendRoutesOn, Through
<1>2. m \in Nat /\ s \in S /\ DOMAIN nets = 1 .. m
  BY DEF Well
<1>3. ASSUME NEW t \in S, NEW k \in 1 .. m
      PROVE  R(t, nets[k]) \in S
  <2>1. Well(W, r, R(t, nets[k]))
    BY <1>2, SendRoutesWell
  <2> QED
    BY <2>1 DEF Well
<1> HIDE DEF R, S
<1>4. G \in [S \X (1 .. m) -> S] /\ \A t \in S : \A k \in 1 .. m : G[<<t, k>>] = R(t, nets[k])
  BY <1>3
<1> HIDE DEF G
<1>5. Solves(after, G, S, m, s)
  <2> SUFFICES ASSUME NEW g, Runs(g, G, S, m, s)
               PROVE  /\ after[0] = s
                      /\ \A k \in 1 .. m : after[k - 1] \in S => after[k] = G[<<after[k - 1], k>>]
    BY DEF Solves
  <2>1. \A k \in 1 .. m : g[k - 1] \in S /\ g[k] = R(g[k - 1], nets[k])
    <3> TAKE k \in 1 .. m
    <3>1. g[k - 1] \in S /\ g[k] = G[<<g[k - 1], k>>]
      BY <1>2 DEF Runs
    <3> QED
      BY <1>4, <3>1
  <2>2. Eq(g)
    BY <1>2, <2>1 DEF Runs
  <2>3. Eq(after)
    <3> HIDE DEF Eq
    <3> QED
      BY <2>2
  <2> HIDE DEF after
  <2>4. after[0] = s /\ \A k \in 1 .. m : after[k] = R(after[k - 1], nets[k])
    BY <1>2, <2>3
  <2> QED
    BY <1>2, <1>4, <2>4
<1> HIDE DEF after
<1>6. Unrolls(after, G, S, m, s)
  BY <1>2, <1>4, <1>5, LoopUnrolls
<1>7. after[m] \in S
  BY <1>2, <1>6 DEF Unrolls
<1> QED
  BY <1>1, <1>7 DEF S

\* The interfaces that speak RIP are some of the router's.
LEMMA RIPIfacesAre ==
  ASSUME NEW r \in Router
  PROVE  RIPIfaces(r) \in Seq(Net) /\ \A j \in DOMAIN RIPIfaces(r) : <<r, RIPIfaces(r)[j]>> \in Addr
<1> DEFINE nets == Ifaces[r]
           m == Len(nets)
           S == {q \in Seq(Net) : \A j \in DOMAIN q : <<r, q[j]>> \in Addr}
           R(kept, n) == IF Mode[<<r, n>>] # "NoRIP" THEN Append(kept, n) ELSE kept
           Eq(g) == g = [k \in 0 .. Len(nets) |->
                          IF k = 0 THEN <<>>
                          ELSE CHOOSE t \in {R(x, nets[k]) : x \in {g[k - 1]}} : TRUE]
           after == CHOOSE g : Eq(g)
           G == [p \in S \X (1 .. m) |-> R(p[1], nets[p[2]])]
<1>1. RIPIfaces(r) = after[m]
  BY DEF RIPIfaces, Chosen, Through
<1>2. m \in Nat /\ <<>> \in S /\ nets \in Seq(Net) /\ \A k \in 1 .. m : <<r, nets[k]>> \in Addr
  BY RouterAssumption, Addresses DEF ToSet
<1>3. ASSUME NEW kept \in S, NEW k \in 1 .. m
      PROVE  R(kept, nets[k]) \in S
  <2>1. kept \in Seq(Net) /\ (\A j \in DOMAIN kept : <<r, kept[j]>> \in Addr) /\ nets[k] \in Net
    BY <1>2
  <2>2. Append(kept, nets[k]) \in Seq(Net)
    BY <2>1
  <2>3. ASSUME NEW j \in DOMAIN Append(kept, nets[k])
        PROVE  <<r, Append(kept, nets[k])[j]>> \in Addr
    <3>1. j \in 1 .. Len(kept) \/ j = Len(kept) + 1
      BY <2>1
    <3>2. Append(kept, nets[k])[j] = IF j = Len(kept) + 1 THEN nets[k] ELSE kept[j]
      BY <2>1
    <3>3. j \in 1 .. Len(kept) => j \in DOMAIN kept /\ j # Len(kept) + 1
      BY <2>1
    <3> QED
      BY <1>2, <2>1, <3>1, <3>2, <3>3
  <2> QED
    BY <2>1, <2>2, <2>3
<1> HIDE DEF R, nets
<1>4. G \in [S \X (1 .. m) -> S] /\ \A t \in S : \A k \in 1 .. m : G[<<t, k>>] = R(t, nets[k])
  BY <1>3
<1> HIDE DEF G, S
<1>5. Solves(after, G, S, m, <<>>)
  <2> SUFFICES ASSUME NEW g, Runs(g, G, S, m, <<>>)
               PROVE  /\ after[0] = <<>>
                      /\ \A k \in 1 .. m : after[k - 1] \in S => after[k] = G[<<after[k - 1], k>>]
    BY DEF Solves
  <2>1. \A k \in 1 .. m : g[k - 1] \in S /\ g[k] = R(g[k - 1], nets[k])
    <3> TAKE k \in 1 .. m
    <3>1. g[k - 1] \in S /\ g[k] = G[<<g[k - 1], k>>]
      BY <1>2 DEF Runs
    <3> QED
      BY <1>4, <3>1
  <2>2. Eq(g)
    BY <1>2, <2>1 DEF Runs
  <2>3. Eq(after)
    <3> HIDE DEF Eq
    <3> QED
      BY <2>2
  <2> HIDE DEF after
  <2>4. after[0] = <<>> /\ \A k \in 1 .. m : after[k] = R(after[k - 1], nets[k])
    BY <1>2, <2>3
  <2> QED
    BY <1>2, <1>4, <2>4
<1> HIDE DEF after
<1>6. Unrolls(after, G, S, m, <<>>)
  BY <1>2, <1>4, <1>5, LoopUnrolls
<1>7. after[m] \in S
  BY <1>2, <1>6 DEF Unrolls
<1> QED
  BY <1>1, <1>7 DEF S

\* Whether a route has changed, and how old it is, is nothing to the tables.
LEMMA RightAlike ==
  ASSUME NEW W, NEW r, NEW f \in Seq(RIPRoute), NEW g \in Seq(RIPRoute), NEW rt, Right(W, r, f, rt),
         DOMAIN g = DOMAIN f,
         \A k \in DOMAIN f : /\ g[k].type = f[k].type /\ g[k].route = f[k].route
                             /\ g[k].dest = f[k].dest /\ g[k].ie = f[k].ie
                             /\ g[k].from = f[k].from /\ g[k].metric = f[k].metric
  PROVE  Right(W, r, g, rt)
<1>1. Plain(r, f) => Plain(r, g)
  BY DEF Plain
<1>2. ASSUME LevelCosts
      PROVE  Agreed(r, g, rt)
  <2>1. Agreed(r, f, rt)
    BY <1>2 DEF Right
  <2>2. Ordered(g)
    BY <2>1 DEF Agreed, Ordered
  <2>3. ASSUME NEW k \in DOMAIN g
        PROVE  Matches(g[k], rt)
    <3>1. Matches(f[k], rt)
      BY <2>1 DEF Agreed
    <3> QED
      BY <3>1 DEF Matches
  <2> QED
    BY <1>1, <2>1, <2>2, <2>3 DEF Agreed
<1>3. ASSUME OneWay(W)
      PROVE  Plain(r, g) /\ \A k \in DOMAIN g : Known(W, r, g[k])
  BY <1>1, <1>3 DEF Right, Known
<1> QED
  BY <1>2, <1>3 DEF Right

\* The update timer
LEMMA ProcessUpdateWell ==
  ASSUME NEW W, NEW r \in Router, NEW s, Well(W, r, s), NEW changedOnly \in BOOLEAN
  PROVE  Well(W, r, ProcessUpdate(r, s, changedOnly))
<1> DEFINE t == SendRoutesOn(r, s, RIPIfaces(r), changedOnly)
           f == t.ripRoutes
           g == [k \in DOMAIN f |-> [f[k] EXCEPT !.changed = FALSE]]
           u == ProcessUpdate(r, s, changedOnly)
<1>1. Well(W, r, t)
  BY RIPIfacesAre, SendRoutesOnWell
<1>2. u = [t EXCEPT !.ripRoutes = g]
  BY DEF ProcessUpdate
<1> HIDE DEF t, u
<1>3. t \in RouterState /\ f \in Seq(RIPRoute)
  BY <1>1, RouterFields DEF Well
<1>4. \A k \in DOMAIN f : f[k] \in RIPRoute
  BY <1>3
<1>5. /\ DOMAIN g = DOMAIN f
      /\ \A k \in DOMAIN f : /\ g[k] \in RIPRoute
                             /\ g[k].type = f[k].type /\ g[k].route = f[k].route
                             /\ g[k].dest = f[k].dest /\ g[k].ie = f[k].ie
                             /\ g[k].from = f[k].from /\ g[k].metric = f[k].metric
  BY <1>4 DEF RIPRoute
<1>6. g \in Seq(RIPRoute)
  <2>1. Len(f) \in Nat /\ DOMAIN f = 1 .. Len(f)
    BY <1>3
  <2>2. g \in [1 .. Len(f) -> RIPRoute]
    BY <1>5, <2>1
  <2> HIDE DEF g
  <2> QED
    BY <2>1, <2>2
<1> HIDE DEF g
<1>7. Right(W, r, g, t.rt)
  BY <1>1, <1>3, <1>5, <1>6, RightAlike DEF Well
<1>8. /\ u \in RouterState /\ u.ripRoutes = g /\ u.rt = t.rt /\ u.out = t.out
      /\ u.failed = t.failed /\ u.status = t.status
  BY <1>2, <1>3, <1>6 DEF RouterState
<1> QED
  BY <1>1, <1>7, <1>8 DEF Well, u

-----------------------------------------------------------------------------
(* Receiving *)

\* findRoute() finds the first route to a destination.
LEMMA FindRouteIs ==
  ASSUME NEW s \in RouterState, NEW dest
  PROVE  LET k == FindRoute(s, dest)
             f == s.ripRoutes
         IN \/ k = 0 /\ \A j \in DOMAIN f : f[j].dest # dest
            \/ k \in DOMAIN f /\ k # 0 /\ f[k].dest = dest /\ \A j \in DOMAIN f : j < k => f[j].dest # dest
<1> DEFINE f == s.ripRoutes
           I == {i \in 1 .. Len(f) : f[i].dest = dest}
           k == FindRoute(s, dest)
<1>1. k = IF I # {} THEN Min(I) ELSE 0
  BY DEF FindRoute, SelectInSeq
<1>2. DOMAIN f = 1 .. Len(f) /\ Len(f) \in Nat
  BY RouterFields
<1>3. CASE I = {}
  BY <1>1, <1>2, <1>3
<1>4. CASE I # {}
  <2>1. I \subseteq Nat
    BY <1>2
  <2>2. \E x \in I : \A y \in I : x <= y
    <3> HIDE DEF I
    <3> QED
      BY <1>4, <2>1, LeastElement
  <2>3. Min(I) \in I /\ \A y \in I : Min(I) <= y
    <3> HIDE DEF I
    <3> QED
      BY <2>2 DEF Min
  <2>4. k \in I /\ \A y \in I : k <= y
    BY <1>1, <1>4, <2>3
  <2> HIDE DEF k
  <2>5. ASSUME NEW j \in DOMAIN f, j < k
        PROVE  f[j].dest # dest
    BY <1>2, <2>1, <2>4, <2>5
  <2>6. k \in DOMAIN f /\ k # 0 /\ f[k].dest = dest
    BY <1>2, <2>4
  <2> QED
    BY <2>5, <2>6 DEF k
<1> QED
  BY <1>3, <1>4

\* So does the search for the route of an interface.
LEMMA FindInterfaceRouteIs ==
  ASSUME NEW s \in RouterState, NEW n
  PROVE  LET k == FindInterfaceRoute(s, n)
             f == s.ripRoutes
         IN \/ k = 0 /\ \A j \in DOMAIN f : f[j].type = "INTERFACE" => f[j].ie # n
            \/ k \in DOMAIN f /\ k # 0 /\ f[k].type = "INTERFACE" /\ f[k].ie = n
<1> DEFINE f == s.ripRoutes
           I == {i \in 1 .. Len(f) : f[i].type = "INTERFACE" /\ f[i].ie = n}
           k == FindInterfaceRoute(s, n)
<1>1. k = IF I # {} THEN Min(I) ELSE 0
  BY DEF FindInterfaceRoute, SelectInSeq
<1>2. DOMAIN f = 1 .. Len(f) /\ Len(f) \in Nat
  BY RouterFields
<1>3. CASE I = {}
  BY <1>1, <1>2, <1>3
<1>4. CASE I # {}
  <2>1. I \subseteq Nat
    BY <1>2
  <2>2. \E x \in I : \A y \in I : x <= y
    <3> HIDE DEF I
    <3> QED
      BY <1>4, <2>1, LeastElement
  <2>3. Min(I) \in I
    <3> HIDE DEF I
    <3> QED
      BY <2>2 DEF Min
  <2>4. k \in I
    BY <1>1, <1>4, <2>3
  <2> HIDE DEF k
  <2>5. k \in DOMAIN f /\ k # 0 /\ f[k].type = "INTERFACE" /\ f[k].ie = n
    BY <1>2, <2>4
  <2> QED
    BY <2>5 DEF k
<1> QED
  BY <1>3, <1>4

\* What comes with an entry for destination d at interface n of router r, from "from", at metric m.
Heard(W, r, d, n, m, from) ==
  /\ r \in Router /\ d \in Net /\ n \in Net /\ <<r, n>> \in Addr /\ m \in Metric /\ from \in Addr
  /\ LevelCosts => m > Cost[<<r, n>>] \/ m = RIP_INFINITE_METRIC
  /\ OneWay(W) => m = RIP_INFINITE_METRIC \/ <<r, d, n, m>> \in W

\* A route that is learned is a route of the routing table.
LEMMA LearnedIs ==
  ASSUME NEW W, NEW r, NEW d, NEW n, NEW m, NEW from, Heard(W, r, d, n, m, from)
  PROVE  LET route == LearnedRoute(d, n, m, from)
         IN /\ route \in IPv4Route /\ route # None
            /\ route.dest = d /\ route.ie = n /\ route.metric = m /\ route.gateway = from
            /\ route.source = "rip"
<1>1. LearnedRoute(d, n, m, from) \in IPv4Route
  BY Metrics DEF Heard, LearnedRoute, IPv4Route
<1> QED
  BY <1>1, NoneIsNone DEF LearnedRoute

\* addRoute()
LEMMA AddRouteWell ==
  ASSUME NEW W, NEW r, NEW d, NEW n, NEW m, NEW from, Heard(W, r, d, n, m, from),
         m # RIP_INFINITE_METRIC, NEW s, Well(W, r, s), \A j \in DOMAIN s.ripRoutes : s.ripRoutes[j].dest # d
  PROVE  Well(W, r, AddRoute(s, d, n, m, from))
<1> DEFINE route == LearnedRoute(d, n, m, from)
           q == [Import(route, "RTE", m) EXCEPT !.from = from, !.changed = TRUE]
           f == s.ripRoutes
           g == Append(f, q)
           u == [s EXCEPT !.rt = @ \cup {route}, !.ripRoutes = g]
<1>1. /\ route \in IPv4Route /\ route # None
      /\ route.dest = d /\ route.ie = n /\ route.metric = m /\ route.gateway = from
      /\ route.source = "rip"
  BY LearnedIs
<1>2. AddRoute(s, d, n, m, from) = TriggerUpdate(u)
  BY DEF AddRoute
<1> HIDE DEF route
<1>3. /\ q.type = "RTE" /\ q.route = route /\ q.dest = d /\ q.ie = n /\ q.from = from /\ q.metric = m
      /\ q.changed = TRUE /\ q.age = 0
      /\ q = [type |-> "RTE", route |-> route, dest |-> d, ie |-> n, from |-> from, metric |-> m,
              changed |-> TRUE, age |-> 0]
  <2>1. Import(route, "RTE", m) = [type |-> "RTE", route |-> route, dest |-> d, ie |-> n, from |-> None,
                                metric |-> m, changed |-> FALSE, age |-> 0]
    <3>1. route.dest = d /\ route.ie = n /\ route.metric = m
      BY <1>1
    <3> QED
      BY <3>1, Zenon DEF Import
  <2>2. q = [type |-> "RTE", route |-> route, dest |-> d, ie |-> n, from |-> from, metric |-> m,
             changed |-> TRUE, age |-> 0]
    <3> DEFINE i == Import(route, "RTE", m)
    <3>1. i = [type |-> "RTE", route |-> route, dest |-> d, ie |-> n, from |-> None,
               metric |-> m, changed |-> FALSE, age |-> 0]
      BY <2>1
    <3>2. q = [i EXCEPT !.from = from, !.changed = TRUE]
      OBVIOUS
    <3> HIDE DEF i, q
    <3> QED
      BY <3>1, <3>2
  <2> HIDE DEF q
  <2> QED
    BY <2>2
<1> HIDE DEF q
<1>4. q \in RIPRoute
  <2>1. 0 \in 0 .. MaxAge
    BY RouterAssumption DEF MaxAge
  <2> QED
    BY <1>1, <1>3, <2>1 DEF RIPRoute, Heard
<1>5. s \in RouterState /\ f \in Seq(RIPRoute) /\ s.rt \subseteq IPv4Route /\ Right(W, r, f, s.rt)
  BY RouterFields DEF Well
<1>6. Fits(W, r, q, s.rt \cup {q.route})
  <2>1. Matches(q, s.rt \cup {q.route})
    BY <1>1, <1>3 DEF Matches, Source
  <2>2. OneWay(W) => Known(W, r, q)
    BY <1>3 DEF Known, Heard
  <2> QED
    BY <1>3, <2>1, <2>2 DEF Fits
<1>7. Right(W, r, g, s.rt \cup {q.route})
  BY <1>3, <1>4, <1>5, <1>6, RightAppended
<1>8. g \in Seq(RIPRoute)
  BY <1>4, <1>5
<1> HIDE DEF g
<1>9. /\ u \in RouterState /\ u.ripRoutes = g /\ u.rt = s.rt \cup {route}
      /\ u.out = s.out /\ u.failed = s.failed /\ u.status = s.status
  BY <1>1, <1>5, <1>8 DEF RouterState
<1> HIDE DEF u
<1>10. Well(W, r, TriggerUpdate(u))
  BY <1>3, <1>7, <1>9, TriggerFields DEF Well
<1> QED
  BY <1>2, <1>10

\* updateRoute() of the first route to its destination
LEMMA UpdateRouteWell ==
  ASSUME NEW W, NEW r, NEW s, Well(W, r, s), NEW k \in DOMAIN s.ripRoutes, NEW n, NEW m, NEW from,
         Heard(W, r, s.ripRoutes[k].dest, n, m, from),
         \A j \in DOMAIN s.ripRoutes : j < k => s.ripRoutes[j].dest # s.ripRoutes[k].dest,
         s.ripRoutes[k].type = "STATIC" => s.ripRoutes[k].metric = RIP_INFINITE_METRIC,
         (LevelCosts \/ OneWay(W)) /\ s.ripRoutes[k].type = "INTERFACE"
           => s.ripRoutes[k].metric = RIP_INFINITE_METRIC
  PROVE  Well(W, r, UpdateRoute(s, k, n, m, from))
<1> DEFINE f == s.ripRoutes
           q == f[k]
           valid == q.metric # RIP_INFINITE_METRIC
           learned == LearnedRoute(q.dest, n, m, from)
           route == IF m < RIP_INFINITE_METRIC THEN learned ELSE None
           x == [q EXCEPT !.type = IF valid THEN @ ELSE "RTE", !.route = route, !.ie = n,
                          !.from = from, !.metric = m, !.changed = TRUE, !.age = 0]
           g == [f EXCEPT ![k] = x]
           rt == (s.rt \ {q.route}) \cup ({route} \ {None})
           failed == s.failed \/ valid # (q.route # None)
           u == [s EXCEPT !.failed = failed, !.rt = rt, !.ripRoutes = g]
<1>1. UpdateRoute(s, k, n, m, from) = TriggerUpdate(u)
  BY DEF UpdateRoute
<1>2. /\ s \in RouterState /\ f \in Seq(RIPRoute) /\ s.rt \subseteq IPv4Route /\ q \in RIPRoute
      /\ s.failed \in BOOLEAN /\ Right(W, r, f, s.rt)
  BY RouterFields DEF Well
<1>3. /\ learned \in IPv4Route /\ learned # None
      /\ learned.dest = q.dest /\ learned.ie = n /\ learned.metric = m /\ learned.gateway = from
      /\ learned.source = "rip"
  BY LearnedIs
<1>4. m \in Nat /\ (m < RIP_INFINITE_METRIC <=> m # RIP_INFINITE_METRIC) /\ m \in Metric
      /\ n \in Net /\ from \in Addr
  BY Metrics, RouterAssumption DEF Heard
<1> HIDE DEF learned
<1>5. /\ route = IF m # RIP_INFINITE_METRIC THEN learned ELSE None
      /\ route \in IPv4Route \cup {None}
  BY <1>3, <1>4
<1> HIDE DEF route, valid
<1>6. /\ x \in RIPRoute /\ x.type = IF valid THEN q.type ELSE "RTE"
      /\ x.route = route /\ x.dest = q.dest /\ x.ie = n /\ x.from = from /\ x.metric = m
  <2>1. 0 \in 0 .. MaxAge
    BY RouterAssumption DEF MaxAge
  <2> HIDE DEF q
  <2> QED
    BY <1>2, <1>4, <1>5, <2>1 DEF RIPRoute
<1> HIDE DEF x
<1>7. g \in Seq(RIPRoute)
  BY <1>2, <1>6
<1>8. Right(W, r, g, rt)
  <2>1. CASE LevelCosts \/ OneWay(W)
    <3>1. x.type = "RTE"
      BY <1>2, <1>6, <2>1 DEF valid, RIPRoute
    <3>2. \A e : e \in rt <=> (e \in s.rt /\ e # q.route) \/ (e = x.route /\ x.route # None)
      BY <1>6
    <3>3. Matches(x, rt)
      <4>1. x.metric = RIP_INFINITE_METRIC <=> x.route = None
        BY <1>3, <1>5, <1>6
      <4>2. x.route # None => x.route = learned /\ x.route \in rt
        BY <1>5, <1>6
      <4> HIDE DEF rt
      <4> QED
        BY <1>3, <1>6, <3>1, <4>1, <4>2 DEF Matches, Source
    <3>4. OneWay(W) => Known(W, r, x)
      BY <1>6 DEF Known, Heard
    <3>5. Fits(W, r, x, rt)
      BY <3>1, <3>3, <3>4 DEF Fits
    <3>6. \A j \in DOMAIN f : j < k => f[j].dest # x.dest
      BY <1>6
    <3> HIDE DEF rt
    <3> QED
      BY <1>2, <1>6, <3>1, <3>2, <3>5, <3>6, RightChanged
  <2>2. CASE ~(LevelCosts \/ OneWay(W))
    BY <2>2 DEF Right
  <2> QED
    BY <2>1, <2>2
<1>9. /\ failed \in BOOLEAN
      /\ LevelCosts => ~failed
  <2>1. ASSUME LevelCosts
        PROVE  ~failed
    <3>1. Matches(q, s.rt) /\ ~s.failed
      BY <1>2, <2>1 DEF Well, Right, Agreed
    <3> QED
      BY <3>1 DEF Matches, valid
  <2> QED
    BY <1>2, <2>1
<1>10. rt \subseteq IPv4Route
  BY <1>2, <1>5
<1> HIDE DEF g, rt, failed
<1>11. /\ u \in RouterState /\ u.ripRoutes = g /\ u.rt = rt
      /\ u.out = s.out /\ u.failed = failed /\ u.status = s.status
  BY <1>2, <1>7, <1>9, <1>10 DEF RouterState
<1> HIDE DEF u
<1>12. Well(W, r, TriggerUpdate(u))
  BY <1>8, <1>9, <1>11, TriggerFields DEF Well
<1> QED
  BY <1>1, <1>12

\* The metric of an entry and what is known with it.
LEMMA HeardMetricIs ==
  ASSUME NEW W, NEW r \in Router, NEW n, <<r, n>> \in Addr, NEW from \in Addr, from = <<from[1], n>>,
         from[1] # r, NEW e \in RIPEntry, OneWay(W) => Says(W, from, e)
  PROVE  Heard(W, r, e.address, n, HeardMetric(r, n, e), from)
<1> DEFINE m == HeardMetric(r, n, e)
           c == Cost[<<r, n>>]
<1>1. c \in Metric /\ e.metric \in Metric /\ e.address \in Net /\ n \in Net
  BY Addresses DEF RIPEntry
<1>2. c \in Nat /\ e.metric \in Nat /\ c >= 1 /\ e.metric >= 1 /\ RIP_INFINITE_METRIC \in Nat
  BY <1>1, Metrics, RouterAssumption
<1>3. m = IF e.metric + c < RIP_INFINITE_METRIC THEN e.metric + c ELSE RIP_INFINITE_METRIC
  BY DEF HeardMetric
<1> HIDE DEF m, c
<1>4. m \in Metric
  BY <1>2, <1>3, Metrics
<1>5. m > c \/ m = RIP_INFINITE_METRIC
  BY <1>2, <1>3
<1>6. ASSUME OneWay(W), m # RIP_INFINITE_METRIC
      PROVE  <<r, e.address, n, m>> \in W
  <2>1. m = e.metric + c /\ m < RIP_INFINITE_METRIC /\ e.metric # RIP_INFINITE_METRIC
    BY <1>2, <1>3, <1>6
  <2>2. PICK i \in Net : <<from[1], e.address, i, e.metric>> \in W /\ (i = from[2] => ~Splits(from))
    BY <1>6, <2>1 DEF Says
  <2> DEFINE w == <<from[1], e.address, i, e.metric>>
             a == <<r, n>>
  <2>3. \A v \in W, b \in Addr :
          LET teller == <<v[1], b[2]>>
              metric == v[4] + Cost[b]
          IN b[1] # v[1] /\ teller \in Addr /\ (v[3] = b[2] => ~Splits(teller))
               /\ metric < RIP_INFINITE_METRIC => <<b[1], v[2], b[2], metric>> \in W
    BY <1>6 DEF OneWay, Learnable
  <2>4. /\ w \in W /\ a \in Addr /\ a[1] = r /\ a[2] = n /\ w[1] = from[1] /\ w[2] = e.address
        /\ w[3] = i /\ w[4] = e.metric /\ from[2] = n /\ <<from[1], n>> \in Addr
    BY <2>2
  <2> HIDE DEF w, a
  <2>5. /\ a[1] # w[1] /\ <<w[1], a[2]>> \in Addr /\ (w[3] = a[2] => ~Splits(<<w[1], a[2]>>))
        /\ w[4] + Cost[a] < RIP_INFINITE_METRIC
    BY <2>1, <2>2, <2>4 DEF c, a
  <2>6. <<a[1], w[2], a[2], w[4] + Cost[a]>> \in W
    BY <2>3, <2>4, <2>5
  <2> QED
    BY <2>1, <2>4, <2>6 DEF c, a
<1> QED
  BY <1>1, <1>4, <1>5, <1>6 DEF Heard, m, c

\* A valid route of an interface is better than what is heard.
LEMMA InterfaceIsBetter ==
  ASSUME NEW W, NEW r, NEW f \in Seq(RIPRoute), NEW rt, Right(W, r, f, rt), NEW k \in DOMAIN f,
         LevelCosts \/ OneWay(W), f[k].type = "INTERFACE", f[k].metric # RIP_INFINITE_METRIC,
         NEW n, NEW m, NEW from, Heard(W, r, f[k].dest, n, m, from)
  PROVE  ~Prefers(f[k], m, from)
<1> DEFINE q == f[k]
<1>1. /\ Plain(r, f)
      /\ OneWay(W) => Known(W, r, q)
  BY DEF Right, Agreed
<1>2. q.dest = q.ie /\ q.from = None /\ q.ie \in ToSet(Ifaces[r]) /\ q.metric = Cost[<<r, q.ie>>]
  BY <1>1 DEF Plain
<1>3. q.from # from
  BY <1>2, NoneIsNone DEF Heard
<1>4. /\ q.metric \in Nat /\ m \in Nat /\ q.metric <= RIP_INFINITE_METRIC
      /\ RIP_INFINITE_METRIC \in Nat /\ Cost[<<r, n>>] \in Nat
  <2>1. q.metric \in Metric /\ Cost[<<r, n>>] \in Metric /\ m \in Metric
    <3>1. q \in RIPRoute /\ <<r, n>> \in Addr /\ m \in Metric
      BY DEF Heard
    <3>2. q.metric \in Metric
      BY <3>1 DEF RIPRoute
    <3> QED
      BY <3>1, <3>2, Addresses
  <2> QED
    BY <2>1, Metrics, RouterAssumption
<1>5. CASE m = RIP_INFINITE_METRIC
  BY <1>3, <1>4, <1>5 DEF Prefers
<1>6. CASE m # RIP_INFINITE_METRIC /\ LevelCosts
  <2>1. m > Cost[<<r, n>>]
    BY <1>6 DEF Heard
  <2>2. n \in ToSet(Ifaces[r])
    <3>1. <<r, n>> \in Addr
      BY DEF Heard
    <3> QED
      BY <3>1, Addresses
  <2>3. q.metric <= Cost[<<r, n>>] + 1
    BY <1>2, <1>6, <2>2 DEF LevelCosts, Heard
  <2> QED
    BY <1>3, <1>4, <2>1, <2>3 DEF Prefers
<1>7. CASE m # RIP_INFINITE_METRIC /\ OneWay(W)
  <2>1. <<r, q.dest, n, m>> \in W /\ <<r, q.dest, q.ie, q.metric>> \in W
    BY <1>1, <1>7 DEF Heard, Known
  <2>2. \A w \in W : w[4] = Distance(AllWays, w[1], w[2])
    BY <1>7 DEF OneWay
  <2>3. m = Distance(AllWays, r, q.dest) /\ q.metric = Distance(AllWays, r, q.dest)
    <3> DEFINE v == <<r, q.dest, n, m>>
               w == <<r, q.dest, q.ie, q.metric>>
    <3>1. v \in W /\ w \in W /\ v[4] = m /\ v[1] = r /\ v[2] = q.dest /\ w[4] = q.metric /\ w[1] = r
          /\ w[2] = q.dest
      BY <2>1
    <3> HIDE DEF v, w
    <3> QED
      BY <2>2, <3>1
  <2>4. m = q.metric
    BY <2>3
  <2> QED
    BY <1>3, <1>4, <2>4 DEF Prefers
<1> QED
  BY <1>5, <1>6, <1>7

\* A route that is heard of again is fresh.
LEMMA FreshWell ==
  ASSUME NEW W, NEW r, NEW s, Well(W, r, s), NEW k \in DOMAIN s.ripRoutes
  PROVE  LET t == [s EXCEPT !.ripRoutes[k].age = 0]
             f == s.ripRoutes
         IN /\ Well(W, r, t) /\ DOMAIN t.ripRoutes = DOMAIN f
            /\ \A j \in DOMAIN f : /\ t.ripRoutes[j].type = f[j].type /\ t.ripRoutes[j].dest = f[j].dest
                                   /\ t.ripRoutes[j].metric = f[j].metric
<1> DEFINE f == s.ripRoutes
           x == [f[k] EXCEPT !.age = 0]
           g == [f EXCEPT ![k] = x]
           t == [s EXCEPT !.ripRoutes[k].age = 0]
<1>1. s \in RouterState /\ f \in Seq(RIPRoute) /\ f[k] \in RIPRoute /\ Right(W, r, f, s.rt)
  BY RouterFields DEF Well
<1>2. /\ x \in RIPRoute /\ x.type = f[k].type /\ x.route = f[k].route /\ x.dest = f[k].dest
      /\ x.ie = f[k].ie /\ x.from = f[k].from /\ x.metric = f[k].metric
  <2>1. 0 \in 0 .. MaxAge
    BY RouterAssumption DEF MaxAge
  <2> HIDE DEF f
  <2> QED
    BY <1>1, <2>1 DEF RIPRoute
<1>3. t = [s EXCEPT !.ripRoutes = g]
  BY <1>1 DEF RouterState
<1> HIDE DEF x, t
<1>4. /\ g \in Seq(RIPRoute) /\ DOMAIN g = DOMAIN f
      /\ \A j \in DOMAIN f : /\ g[j].type = f[j].type /\ g[j].route = f[j].route
                             /\ g[j].dest = f[j].dest /\ g[j].ie = f[j].ie
                             /\ g[j].from = f[j].from /\ g[j].metric = f[j].metric
  BY <1>1, <1>2
<1> HIDE DEF g
<1>5. Right(W, r, g, s.rt)
  BY <1>1, <1>4, RightAlike
<1>6. /\ t \in RouterState /\ t.ripRoutes = g /\ t.rt = s.rt /\ t.out = s.out
      /\ t.failed = s.failed /\ t.status = s.status
  BY <1>1, <1>3, <1>4 DEF RouterState
<1>7. Well(W, r, t)
  BY <1>5, <1>6 DEF Well
<1> QED
  BY <1>4, <1>6, <1>7 DEF t

\* One entry of a response
LEMMA ProcessEntryWell ==
  ASSUME NEW W, NEW r \in Router, NEW n, <<r, n>> \in Addr, NEW from \in Addr, from = <<from[1], n>>,
         from[1] # r, NEW s, Well(W, r, s), NEW e \in RIPEntry, OneWay(W) => Says(W, from, e)
  PROVE  Well(W, r, ProcessEntry(r, n, from, s, e))
<1> DEFINE m == HeardMetric(r, n, e)
           k == FindRoute(s, e.address)
           f == s.ripRoutes
           q == f[k]
           t == IF q.from = from THEN [s EXCEPT !.ripRoutes[k].age = 0] ELSE s
           p == ProcessEntry(r, n, from, s, e)
<1>1. Heard(W, r, e.address, n, m, from)
  BY HeardMetricIs
<1>2. s \in RouterState /\ f \in Seq(RIPRoute) /\ Right(W, r, f, s.rt)
  BY RouterFields DEF Well
<1>3. \/ k = 0 /\ \A j \in DOMAIN f : f[j].dest # e.address
      \/ /\ k \in DOMAIN f /\ k # 0 /\ q.dest = e.address
         /\ \A j \in DOMAIN f : j < k => f[j].dest # e.address
  BY <1>2, FindRouteIs
<1>4. CASE k = 0
  <2>1. \A j \in DOMAIN f : f[j].dest # e.address
    BY <1>2, <1>3, <1>4
  <2>2. CASE m = RIP_INFINITE_METRIC
    BY <1>4, <2>2 DEF ProcessEntry
  <2>3. CASE m # RIP_INFINITE_METRIC
    <3>1. p = AddRoute(s, e.address, n, m, from)
      BY <1>4, <2>3 DEF ProcessEntry
    <3>2. Well(W, r, AddRoute(s, e.address, n, m, from))
      BY <1>1, <2>1, <2>3, AddRouteWell
    <3> QED
      BY <3>1, <3>2
  <2> QED
    BY <2>2, <2>3
<1>5. CASE k # 0
  <2>1. /\ k \in DOMAIN f /\ q.dest = e.address
        /\ \A j \in DOMAIN f : j < k => f[j].dest # e.address
    BY <1>3, <1>5
  <2>2. CASE q.type = "STATIC" /\ q.metric # RIP_INFINITE_METRIC
    BY <1>5, <2>2 DEF ProcessEntry
  <2>3. CASE ~(q.type = "STATIC" /\ q.metric # RIP_INFINITE_METRIC)
    <3>1. p = IF Prefers(q, m, from) THEN UpdateRoute(t, k, n, m, from) ELSE t
      BY <1>5, <2>3 DEF ProcessEntry
    <3>2. /\ Well(W, r, t) /\ DOMAIN t.ripRoutes = DOMAIN f
          /\ \A j \in DOMAIN f : /\ t.ripRoutes[j].type = f[j].type /\ t.ripRoutes[j].dest = f[j].dest
                                 /\ t.ripRoutes[j].metric = f[j].metric
      BY <2>1, FreshWell
    <3> HIDE DEF t, m, k, q, f, p
    <3>3. CASE ~Prefers(q, m, from)
      BY <3>1, <3>2, <3>3 DEF p
    <3>4. CASE Prefers(q, m, from)
      <4>1. (LevelCosts \/ OneWay(W)) /\ q.type = "INTERFACE" => q.metric = RIP_INFINITE_METRIC
        BY <1>1, <1>2, <2>1, <3>4, InterfaceIsBetter DEF q
      <4>2. t.ripRoutes[k].type = q.type /\ t.ripRoutes[k].dest = q.dest /\ t.ripRoutes[k].metric = q.metric
        BY <2>1, <3>2 DEF q
      <4>3. Well(W, r, UpdateRoute(t, k, n, m, from))
        BY <1>1, <2>1, <2>3, <3>2, <4>1, <4>2, UpdateRouteWell
      <4> QED
        BY <3>1, <3>4, <4>3 DEF p
    <3> QED
      BY <3>3, <3>4
  <2> QED
    BY <2>2, <2>3
<1> QED
  BY <1>4, <1>5

\* A response
LEMMA ProcessResponseWell ==
  ASSUME NEW W, NEW r \in Router, NEW n, <<r, n>> \in Addr, NEW packet \in RIPPacket,
         packet.src = <<packet.src[1], n>>, packet.src[1] # r,
         OneWay(W) => \A j \in DOMAIN packet.entries : Says(W, packet.src, packet.entries[j]),
         NEW s, Well(W, r, s)
  PROVE  Well(W, r, ProcessResponse(r, s, n, packet))
<1> DEFINE seq == packet.entries
           m == Len(seq)
           S == {t \in RouterState : Well(W, r, t)}
           R(t, e) == ProcessEntry(r, n, packet.src, t, e)
           Eq(g) == g = [k \in 0 .. Len(seq) |->
                          IF k = 0 THEN s
                          ELSE CHOOSE t \in {R(x, seq[k]) : x \in {g[k - 1]}} : TRUE]
           after == CHOOSE g : Eq(g)
           G == [p \in S \X (1 .. m) |-> R(p[1], seq[p[2]])]
<1>1. ProcessResponse(r, s, n, packet) = after[m]
  BY DEF ProcessResponse, Through
<1>2. /\ m \in Nat /\ s \in S /\ packet.src \in Addr /\ DOMAIN seq = 1 .. m
      /\ \A k \in 1 .. m : seq[k] \in RIPEntry
  BY DEF Well, RIPPacket
<1>3. ASSUME NEW t \in S, NEW k \in 1 .. m
      PROVE  R(t, seq[k]) \in S
  <2>1. seq[k] \in RIPEntry /\ (OneWay(W) => Says(W, packet.src, seq[k])) /\ Well(W, r, t)
    BY <1>2
  <2> HIDE DEF seq
  <2>2. Well(W, r, R(t, seq[k]))
    BY <1>2, <2>1, ProcessEntryWell
  <2> QED
    BY <2>2 DEF Well
<1> HIDE DEF R, S, seq
<1>4. G \in [S \X (1 .. m) -> S] /\ \A t \in S : \A k \in 1 .. m : G[<<t, k>>] = R(t, seq[k])
  BY <1>3
<1> HIDE DEF G, m
<1>5. Solves(after, G, S, m, s)
  <2> SUFFICES ASSUME NEW g, Runs(g, G, S, m, s)
               PROVE  /\ after[0] = s
                      /\ \A k \in 1 .. m : after[k - 1] \in S => after[k] = G[<<after[k - 1], k>>]
    BY DEF Solves
  <2>1. \A k \in 1 .. m : g[k - 1] \in S /\ g[k] = R(g[k - 1], seq[k])
    <3> TAKE k \in 1 .. m
    <3>1. g[k - 1] \in S /\ g[k] = G[<<g[k - 1], k>>]
      BY <1>2 DEF Runs
    <3> QED
      BY <1>4, <3>1
  <2>2. Eq(g)
    BY <1>2, <2>1 DEF Runs, m
  <2>3. Eq(after)
    <3> HIDE DEF Eq
    <3> QED
      BY <2>2
  <2> HIDE DEF after
  <2>4. after[0] = s /\ \A k \in 1 .. m : after[k] = R(after[k - 1], seq[k])
    BY <1>2, <2>3 DEF m
  <2> QED
    BY <1>2, <1>4, <2>4
<1> HIDE DEF after
<1>6. Unrolls(after, G, S, m, s)
  BY <1>2, <1>4, <1>5, LoopUnrolls
<1>7. after[m] \in S
  BY <1>2, <1>6 DEF Unrolls
<1> QED
  BY <1>1, <1>7 DEF S

-----------------------------------------------------------------------------
(* Interfaces and netmask routes change *)

\* A table that is right with a routing table is so with the same one, however it is described.
LEMMA RightTable ==
  ASSUME NEW W, NEW r, NEW f, NEW rt, Right(W, r, f, rt), NEW rt2, LevelCosts => rt2 = rt
  PROVE  Right(W, r, f, rt2)
BY DEF Right

\* Routes that are lost become invalid.
LEMMA InvalidateRoutesRight ==
  ASSUME NEW W, NEW r, NEW s \in RouterState, NEW rt, Right(W, r, s.ripRoutes, rt), NEW lost,
         NEW gone,
         gone = {s.ripRoutes[k].route : k \in {j \in DOMAIN s.ripRoutes : s.ripRoutes[j] \in lost}}
  PROVE  Right(W, r, InvalidateRoutes(s, lost).ripRoutes, rt \ gone)
<1> DEFINE f == s.ripRoutes
           K == {j \in DOMAIN f : f[j] \in lost}
           t == InvalidateRoutes(s, lost)
           g == t.ripRoutes
<1>1. /\ t \in RouterState /\ DOMAIN g = DOMAIN f
      /\ \A k \in DOMAIN f : g[k] = IF k \in K THEN Gone(f[k]) ELSE f[k]
  BY InvalidateRoutesIs
<1>2. f \in Seq(RIPRoute) /\ g \in Seq(RIPRoute)
  <2> HIDE DEF t
  <2> QED
    BY <1>1, RouterFields
<1>3. K \subseteq DOMAIN f
  OBVIOUS
<1>4. Right(W, r, f, rt)
  OBVIOUS
<1> HIDE DEF f, g, K
<1>5. Right(W, r, g, rt \ {f[k].route : k \in K})
  BY <1>1, <1>2, <1>3, <1>4, RightGone
<1>6. gone = {f[k].route : k \in K}
  BY DEF f, K
<1> QED
  BY <1>5, <1>6 DEF g

\* and the router stays well.
LEMMA InvalidateRoutesWell ==
  ASSUME NEW W, NEW r, NEW s, Well(W, r, s), NEW lost
  PROVE  Well(W, r, InvalidateRoutes(s, lost))
<1> DEFINE f == s.ripRoutes
           gone == {f[k].route : k \in {j \in DOMAIN f : f[j] \in lost}}
           t == InvalidateRoutes(s, lost)
<1>1. s \in RouterState /\ Right(W, r, f, s.rt)
  BY DEF Well
<1>2. Right(W, r, t.ripRoutes, s.rt \ gone)
  BY <1>1, InvalidateRoutesRight
<1>3. /\ t \in RouterState /\ t.rt = s.rt \ gone
      /\ t.out = s.out /\ t.failed = s.failed /\ t.status = s.status
  BY <1>1, InvalidateRoutesIs
<1> HIDE DEF t, gone, f
<1> QED
  BY <1>2, <1>3 DEF Well, t

\* A route of the routing table is deleted.
LEMMA RouteDeletedWell ==
  ASSUME NEW W, NEW r, NEW s, Well(W, r, s), NEW route
  PROVE  Well(W, r, RouteDeleted(s, route))
<1> DEFINE f == s.ripRoutes
           u == [s EXCEPT !.rt = @ \ {route}]
           lost == {q \in ToSet(f) : q.route = route}
           K == {j \in DOMAIN f : f[j] \in lost}
           gone == {f[k].route : k \in K}
           t == InvalidateRoutes(u, lost)
<1>1. RouteDeleted(s, route) = t
  BY DEF RouteDeleted
<1>2. s \in RouterState /\ Right(W, r, f, s.rt)
  BY DEF Well
<1>3. /\ u \in RouterState /\ u.ripRoutes = f /\ u.rt = s.rt \ {route} /\ u.out = s.out
      /\ u.failed = s.failed /\ u.status = s.status
  BY <1>2 DEF RouterState
<1>4. K = {j \in DOMAIN f : f[j].route = route}
  BY DEF ToSet
<1> HIDE DEF u, lost, f
<1>5. Right(W, r, t.ripRoutes, s.rt \ gone)
  <2>1. /\ gone = {u.ripRoutes[k].route : k \in {j \in DOMAIN u.ripRoutes : u.ripRoutes[j] \in lost}}
        /\ Right(W, r, u.ripRoutes, s.rt)
    BY <1>2, <1>3
  <2> HIDE DEF gone
  <2> QED
    BY <1>3, <2>1, InvalidateRoutesRight
<1>6. /\ t \in RouterState /\ t.rt = u.rt \ gone
      /\ t.out = u.out /\ t.failed = u.failed /\ t.status = u.status
  BY <1>3, InvalidateRoutesIs
<1>7. LevelCosts => t.rt = s.rt \ gone
  <2>1. ASSUME LevelCosts, route \in s.rt
        PROVE  route \in gone
    <3>1. PICK k \in DOMAIN f : f[k].route = route
      BY <1>2, <2>1 DEF Right, Agreed
    <3> HIDE DEF K
    <3> QED
      BY <1>4, <3>1
  <2> HIDE DEF gone, t
  <2> QED
    BY <1>3, <1>6, <2>1
<1> HIDE DEF t, gone
<1>8. Right(W, r, t.ripRoutes, t.rt)
  BY <1>5, <1>7, RightTable
<1> QED
  BY <1>1, <1>3, <1>6, <1>8 DEF Well

\* The route of an interface
LEMMA NetmaskRouteIs ==
  ASSUME NEW r \in Router, NEW n \in ToSet(Ifaces[r])
  PROVE  LET route == NetmaskRoute(r, n)
         IN /\ route \in IPv4Route /\ route # None /\ <<r, n>> \in Addr /\ n \in Net
            /\ Cost[<<r, n>>] \in Metric /\ Cost[<<r, n>>] # RIP_INFINITE_METRIC
            /\ route.dest = n /\ route.ie = n /\ route.gateway = None /\ route.source = "interface"
<1>1. <<r, n>> \in Addr /\ n \in Net
  BY Addresses
<1>2. /\ Cost[<<r, n>>] \in Metric /\ Cost[<<r, n>>] # RIP_INFINITE_METRIC
      /\ LinkMetric[<<r, n>>] \in Nat
  BY <1>1, Addresses
<1>3. NetmaskRoute(r, n) \in IPv4Route
  BY <1>1, <1>2 DEF NetmaskRoute, IPv4Route
<1> QED
  BY <1>1, <1>2, <1>3, NoneIsNone DEF NetmaskRoute

\* is one of the ways.
LEMMA InterfaceKnown ==
  ASSUME NEW W, OneWay(W), NEW r \in Router, NEW n \in ToSet(Ifaces[r])
  PROVE  <<r, n, n, Cost[<<r, n>>]>> \in W
<1> DEFINE a == <<r, n>>
<1>1. a \in Addr /\ a[1] = r /\ a[2] = n
  BY Addresses
<1>2. \A b \in Addr : <<b[1], b[2], b[2], Cost[b]>> \in W
  BY DEF OneWay, Learnable
<1> HIDE DEF a
<1>3. <<a[1], a[2], a[2], Cost[a]>> \in W
  BY <1>1, <1>2
<1> QED
  BY <1>1, <1>3 DEF a

\* What is imported from the routing table
LEMMA ImportIs ==
  ASSUME NEW route \in IPv4Route, NEW type \in {"RTE", "STATIC", "INTERFACE"}, NEW m \in Metric
  PROVE  LET q == Import(route, type, m)
         IN /\ q \in RIPRoute
            /\ q.type = type /\ q.route = route /\ q.dest = route.dest /\ q.ie = route.ie
            /\ q.from = None /\ q.metric = m
<1>1. 0 \in 0 .. MaxAge
  BY RouterAssumption DEF MaxAge
<1>2. route.dest \in Net /\ route.ie \in Net
  BY DEF IPv4Route
<1> QED
  BY <1>1, <1>2 DEF Import, RIPRoute

\* The route of an interface is added.
LEMMA RouteAddedWell ==
  ASSUME NEW W, NEW r \in Router, NEW s, Well(W, r, s), NEW n \in ToSet(Ifaces[r])
  PROVE  Well(W, r, RouteAdded(r, s, n))
<1> DEFINE route == NetmaskRoute(r, n)
           k == FindInterfaceRoute(s, n)
           f == s.ripRoutes
           rt == s.rt \cup {route}
           t == [s EXCEPT !.rt = @ \cup {route}]
           c == Cost[<<r, n>>]
<1>1. /\ s \in RouterState /\ f \in Seq(RIPRoute) /\ Right(W, r, f, s.rt) /\ s.rt \subseteq IPv4Route
  BY RouterFields DEF Well
<1>2. /\ route \in IPv4Route /\ route # None /\ <<r, n>> \in Addr /\ n \in Net
      /\ c \in Metric /\ c # RIP_INFINITE_METRIC
      /\ route.dest = n /\ route.ie = n /\ route.gateway = None /\ route.source = "interface"
  BY NetmaskRouteIs
<1>3. /\ t \in RouterState /\ t.ripRoutes = f /\ t.rt = rt /\ t.out = s.out
      /\ t.failed = s.failed /\ t.status = s.status
  BY <1>1, <1>2 DEF RouterState
<1>4. OneWay(W) => <<r, n, n, c>> \in W
  BY InterfaceKnown
<1>5. RouteAdded(r, s, n) =
        IF k = 0 THEN [t EXCEPT !.ripRoutes = Append(@, Import(route, "INTERFACE", c))]
        ELSE TriggerUpdate([t EXCEPT !.ripRoutes[k] = [@ EXCEPT !.route = route, !.changed = TRUE,
                                                                !.metric = c]])
  BY DEF RouteAdded, ImportInterface
<1>6. \/ k = 0 /\ \A j \in DOMAIN f : f[j].type = "INTERFACE" => f[j].ie # n
      \/ k \in DOMAIN f /\ k # 0 /\ f[k].type = "INTERFACE" /\ f[k].ie = n
  BY <1>1, FindInterfaceRouteIs
<1> HIDE DEF route, k, f, t, c
<1>7. CASE k = 0
  <2> DEFINE q == Import(route, "INTERFACE", c)
             g == Append(f, q)
             u == [t EXCEPT !.ripRoutes = g]
  <2>1. /\ q \in RIPRoute /\ q.type = "INTERFACE" /\ q.route = route /\ q.dest = n /\ q.ie = n
        /\ q.from = None /\ q.metric = c
    BY <1>2, ImportIs
  <2> HIDE DEF q
  <2>2. \A j \in DOMAIN f : f[j].type = "INTERFACE" => f[j].ie # q.ie
    BY <1>1, <1>6, <1>7, <2>1
  <2>3. Matches(q, rt)
    BY <1>2, <2>1 DEF Matches, Source
  <2>4. Fits(W, r, q, s.rt \cup {q.route})
    BY <1>2, <1>4, <2>1, <2>3 DEF Fits, Known, c, route
  <2>5. Right(W, r, g, s.rt \cup {q.route})
    BY <1>1, <2>1, <2>2, <2>4, RightAppended
  <2>6. g \in Seq(RIPRoute)
    BY <1>1, <2>1
  <2> HIDE DEF g
  <2>7. RouteAdded(r, s, n) = u
    BY <1>3, <1>5, <1>7 DEF g, q
  <2>8. /\ u \in RouterState /\ u.ripRoutes = g /\ u.rt = rt /\ u.out = s.out
        /\ u.failed = s.failed /\ u.status = s.status
    BY <1>3, <2>6 DEF RouterState
  <2> HIDE DEF u
  <2> QED
    BY <2>1, <2>5, <2>7, <2>8 DEF Well
<1>8. CASE k # 0
  <2> DEFINE q == f[k]
             x == [q EXCEPT !.route = route, !.changed = TRUE, !.metric = c]
             g == [f EXCEPT ![k] = x]
             u == [t EXCEPT !.ripRoutes = g]
             rt2 == (s.rt \ {q.route}) \cup {route}
  <2>1. k \in DOMAIN f /\ q \in RIPRoute /\ q.type = "INTERFACE" /\ q.ie = n
    BY <1>1, <1>6, <1>8
  <2>2. RouteAdded(r, s, n) = TriggerUpdate(u)
    BY <1>3, <1>5, <1>8
  <2>3. /\ x \in RIPRoute /\ x.route = route /\ x.metric = c /\ x.type = "INTERFACE"
        /\ x.dest = q.dest /\ x.ie = n /\ x.from = q.from
    <3> HIDE DEF q
    <3> QED
      BY <1>2, <2>1 DEF RIPRoute
  <2> HIDE DEF x
  <2>4. g \in Seq(RIPRoute)
    BY <1>1, <2>1, <2>3
  <2>5. Right(W, r, g, rt)
    <3>1. CASE LevelCosts \/ OneWay(W)
      <4>1. Plain(r, f)
        BY <1>1, <3>1 DEF Right, Agreed
      <4>2. /\ q.dest = n /\ q.from = None /\ q.metric \in {c, RIP_INFINITE_METRIC}
            /\ q.route \in {route, None}
        BY <2>1, <4>1 DEF Plain, c, route
      <4>3. \A e : e \in rt2 <=> (e \in s.rt /\ e # q.route) \/ (e = x.route /\ x.route # None)
        BY <1>2, <2>3
      <4>4. Matches(x, rt2)
        <5>1. route \in rt2
          OBVIOUS
        <5> HIDE DEF rt2
        <5> QED
          BY <1>2, <2>3, <4>2, <5>1 DEF Matches, Source
      <4>5. OneWay(W) => Known(W, r, x)
        BY <1>4, <2>3, <4>2 DEF Known
      <4>6. Fits(W, r, x, rt2)
        BY <2>3, <4>2, <4>4, <4>5 DEF Fits, c, route
      <4>7. LevelCosts => rt = rt2
        <5> SUFFICES ASSUME LevelCosts
                     PROVE  rt = rt2
          OBVIOUS
        <5>1. None \notin s.rt
          BY <1>1, NoneIsNone
        <5>2. q.route = route \/ q.route = None
          BY <4>2
        <5> QED
          BY <5>1, <5>2
      <4> HIDE DEF rt2, rt
      <4>8. Right(W, r, g, rt2)
        BY <1>1, <2>1, <2>3, <4>3, <4>6, RightChanged
      <4> HIDE DEF g
      <4> QED
        BY <4>7, <4>8, RightTable
    <3>2. CASE ~(LevelCosts \/ OneWay(W))
      BY <3>2 DEF Right
    <3> QED
      BY <3>1, <3>2
  <2> HIDE DEF g
  <2>6. /\ u \in RouterState /\ u.ripRoutes = g /\ u.rt = rt /\ u.out = s.out
        /\ u.failed = s.failed /\ u.status = s.status
    BY <1>3, <2>4 DEF RouterState
  <2> HIDE DEF u
  <2>7. Well(W, r, TriggerUpdate(u))
    BY <2>5, <2>6, TriggerFields DEF Well
  <2> QED
    BY <2>2, <2>7
<1> QED
  BY <1>7, <1>8

\* The netmask routes are deleted,
LEMMA DeletedWell ==
  ASSUME NEW W, NEW r \in Router, NEW s, Well(W, r, s)
  PROVE  Well(W, r, Through(LAMBDA t, n : RouteDeleted(t, NetmaskRoute(r, n)), s, Ifaces[r]))
<1> DEFINE seq == Ifaces[r]
           m == Len(seq)
           S == {t \in RouterState : Well(W, r, t)}
           R(t, x) == RouteDeleted(t, NetmaskRoute(r, x))
           Eq(g) == g = [k \in 0 .. Len(seq) |->
                          IF k = 0 THEN s
                          ELSE CHOOSE t \in {R(x, seq[k]) : x \in {g[k - 1]}} : TRUE]
           after == CHOOSE g : Eq(g)
           G == [p \in S \X (1 .. m) |-> R(p[1], seq[p[2]])]
<1>1. Through(LAMBDA t, n : RouteDeleted(t, NetmaskRoute(r, n)), s, Ifaces[r]) = after[m]
  BY DEF Through
<1>2. m \in Nat /\ s \in S /\ \A k \in 1 .. m : seq[k] \in ToSet(Ifaces[r])
  BY RouterAssumption DEF Well, ToSet
<1>3. ASSUME NEW t \in S, NEW k \in 1 .. m
      PROVE  R(t, seq[k]) \in S
  <2>1. Well(W, r, R(t, seq[k]))
    BY <1>2, RouteDeletedWell
  <2> QED
    BY <2>1 DEF Well
<1> HIDE DEF R, S, seq
<1>4. G \in [S \X (1 .. m) -> S] /\ \A t \in S : \A k \in 1 .. m : G[<<t, k>>] = R(t, seq[k])
  BY <1>3
<1> HIDE DEF G, m
<1>5. Solves(after, G, S, m, s)
  <2> SUFFICES ASSUME NEW g, Runs(g, G, S, m, s)
               PROVE  /\ after[0] = s
                      /\ \A k \in 1 .. m : after[k - 1] \in S => after[k] = G[<<after[k - 1], k>>]
    BY DEF Solves
  <2>1. \A k \in 1 .. m : g[k - 1] \in S /\ g[k] = R(g[k - 1], seq[k])
    <3> TAKE k \in 1 .. m
    <3>1. g[k - 1] \in S /\ g[k] = G[<<g[k - 1], k>>]
      BY <1>2 DEF Runs
    <3> QED
      BY <1>4, <3>1
  <2>2. Eq(g)
    BY <1>2, <2>1 DEF Runs, m
  <2>3. Eq(after)
    <3> HIDE DEF Eq
    <3> QED
      BY <2>2
  <2> HIDE DEF after
  <2>4. after[0] = s /\ \A k \in 1 .. m : after[k] = R(after[k - 1], seq[k])
    BY <1>2, <2>3 DEF m
  <2> QED
    BY <1>2, <1>4, <2>4
<1> HIDE DEF after
<1>6. Unrolls(after, G, S, m, s)
  BY <1>2, <1>4, <1>5, LoopUnrolls
<1>7. after[m] \in S
  BY <1>2, <1>6 DEF Unrolls
<1> QED
  BY <1>1, <1>7 DEF S

\* and added.
LEMMA AddedWell ==
  ASSUME NEW W, NEW r \in Router, NEW s, Well(W, r, s)
  PROVE  Well(W, r, Through(LAMBDA t, n : RouteAdded(r, t, n), s, Ifaces[r]))
<1> DEFINE seq == Ifaces[r]
           m == Len(seq)
           S == {t \in RouterState : Well(W, r, t)}
           R(t, x) == RouteAdded(r, t, x)
           Eq(g) == g = [k \in 0 .. Len(seq) |->
                          IF k = 0 THEN s
                          ELSE CHOOSE t \in {R(x, seq[k]) : x \in {g[k - 1]}} : TRUE]
           after == CHOOSE g : Eq(g)
           G == [p \in S \X (1 .. m) |-> R(p[1], seq[p[2]])]
<1>1. Through(LAMBDA t, n : RouteAdded(r, t, n), s, Ifaces[r]) = after[m]
  BY DEF Through
<1>2. m \in Nat /\ s \in S /\ \A k \in 1 .. m : seq[k] \in ToSet(Ifaces[r])
  BY RouterAssumption DEF Well, ToSet
<1>3. ASSUME NEW t \in S, NEW k \in 1 .. m
      PROVE  R(t, seq[k]) \in S
  <2>1. Well(W, r, R(t, seq[k]))
    BY <1>2, RouteAddedWell
  <2> QED
    BY <2>1 DEF Well
<1> HIDE DEF R, S, seq
<1>4. G \in [S \X (1 .. m) -> S] /\ \A t \in S : \A k \in 1 .. m : G[<<t, k>>] = R(t, seq[k])
  BY <1>3
<1> HIDE DEF G, m
<1>5. Solves(after, G, S, m, s)
  <2> SUFFICES ASSUME NEW g, Runs(g, G, S, m, s)
               PROVE  /\ after[0] = s
                      /\ \A k \in 1 .. m : after[k - 1] \in S => after[k] = G[<<after[k - 1], k>>]
    BY DEF Solves
  <2>1. \A k \in 1 .. m : g[k - 1] \in S /\ g[k] = R(g[k - 1], seq[k])
    <3> TAKE k \in 1 .. m
    <3>1. g[k - 1] \in S /\ g[k] = G[<<g[k - 1], k>>]
      BY <1>2 DEF Runs
    <3> QED
      BY <1>4, <3>1
  <2>2. Eq(g)
    BY <1>2, <2>1 DEF Runs, m
  <2>3. Eq(after)
    <3> HIDE DEF Eq
    <3> QED
      BY <2>2
  <2> HIDE DEF after
  <2>4. after[0] = s /\ \A k \in 1 .. m : after[k] = R(after[k - 1], seq[k])
    BY <1>2, <2>3 DEF m
  <2> QED
    BY <1>2, <1>4, <2>4
<1> HIDE DEF after
<1>6. Unrolls(after, G, S, m, s)
  BY <1>2, <1>4, <1>5, LoopUnrolls
<1>7. after[m] \in S
  BY <1>2, <1>6 DEF Unrolls
<1> QED
  BY <1>1, <1>7 DEF S

\* updateNetmaskRoutes()
LEMMA RefreshNetmaskRoutesWell ==
  ASSUME NEW W, NEW r \in Router, NEW s, Well(W, r, s)
  PROVE  Well(W, r, RefreshNetmaskRoutes(r, s))
<1> DEFINE deleted == Through(LAMBDA t, n : RouteDeleted(t, NetmaskRoute(r, n)), s, Ifaces[r])
<1>1. RefreshNetmaskRoutes(r, s) = Through(LAMBDA t, n : RouteAdded(r, t, n), deleted, Ifaces[r])
  BY DEF RefreshNetmaskRoutes
<1>2. Well(W, r, deleted)
  BY DeletedWell
<1> HIDE DEF deleted
<1> QED
  BY <1>1, <1>2, AddedWell

-----------------------------------------------------------------------------
(* Start and stop *)

\* A request
LEMMA SendRequestWell ==
  ASSUME NEW W, NEW r, NEW s, Well(W, r, s), NEW n, <<r, n>> \in Addr
  PROVE  Well(W, r, SendRequest(r, s, n))
<1> DEFINE packet == [command |-> "request", src |-> <<r, n>>, entries |-> <<>>]
<1>1. packet \in RIPPacket
  BY DEF RIPPacket
<1>2. Sent(W, r, [on |-> n, to |-> None, packet |-> packet])
  BY DEF Sent
<1>3. SendRequest(r, s, n) = SendTo(s, n, None, packet)
  BY DEF SendRequest
<1> HIDE DEF packet
<1> QED
  BY <1>1, <1>2, <1>3, SendToWell

\* A finite set as a sequence
LEMMA SetToSeqIs ==
  ASSUME NEW T, IsFiniteSet(T)
  PROVE  /\ SetToSeq(T) \in Seq(T)
         /\ \A i, j \in DOMAIN SetToSeq(T) : SetToSeq(T)[i] = SetToSeq(T)[j] => i = j
         /\ \A x \in T : \E i \in DOMAIN SetToSeq(T) : SetToSeq(T)[i] = x
<1> DEFINE n == Cardinality(T)
           f == SetToSeq(T)
<1>1. n \in Nat /\ \E g \in [1 .. n -> T] : IsInjective(g)
  BY FS_CardinalityType DEF ExistsBijection, Bijection, Injection
<1>2. f \in [1 .. n -> T] /\ IsInjective(f)
  BY <1>1 DEF SetToSeq
<1>3. IsFiniteSet(1 .. n) /\ Cardinality(1 .. n) = n
  BY <1>1, FS_Interval
<1> HIDE DEF f
<1>4. f \in Surjection(1 .. n, T)
  <2>1. f \in Injection(1 .. n, T)
    BY <1>2 DEF Injection
  <2> QED
    BY <1>3, <2>1, FS_Injection
<1> HIDE DEF n
<1>5. DOMAIN f = 1 .. n /\ f \in Seq(T)
  BY <1>1, <1>2
<1> QED
  BY <1>2, <1>4, <1>5 DEF IsInjective, Surjection, f

\* A static route
LEMMA StaticRouteIs ==
  ASSUME NEW r \in Router, NEW e \in StaticRoutes(r)
  PROVE  /\ e \in IPv4Route /\ e # None /\ e.gateway = None /\ e.source = "static"
         /\ \A W : OneWay(W) => <<r, e.dest, e.ie, 1>> \in W
<1>1. PICK t \in Static :
        t[1] = r /\ e = [dest |-> t[2], ie |-> t[3], gateway |-> None, metric |-> t[4], source |-> "static"]
  BY DEF StaticRoutes
<1>2. t[2] \in Net /\ <<r, t[3]>> \in Addr /\ t[4] \in Nat
  BY <1>1, RouterAssumption
<1>3. t[3] \in Net
  BY <1>2, Addresses
<1>4. e \in IPv4Route
  BY <1>1, <1>2, <1>3, Metrics DEF IPv4Route
<1>5. ASSUME NEW W, OneWay(W)
      PROVE  <<r, e.dest, e.ie, 1>> \in W
  <2>1. \A u \in Static : <<u[1], u[2], u[3], 1>> \in W
    BY <1>5 DEF OneWay, Learnable
  <2> QED
    BY <1>1, <2>1
<1> QED
  BY <1>1, <1>4, <1>5, Metrics, NoneIsNone

\* The static routes of a router as RIP has them
Statics(r) == {Import(route, "STATIC", 1) : route \in StaticRoutes(r)}

\* are finitely many.
LEMMA StaticsAre ==
  ASSUME NEW r \in Router
  PROVE  IsFiniteSet(Statics(r))
<1> DEFINE U == {u \in Static : u[1] = r}
           rt(t) == [dest |-> t[2], ie |-> t[3], gateway |-> None, metric |-> t[4], source |-> "static"]
           f == [t \in U |-> Import(rt(t), "STATIC", 1)]
<1>1. IsFiniteSet(U)
  BY RouterAssumption, FS_Subset
<1>2. f \in [U -> Statics(r)]
  BY DEF Statics, StaticRoutes
<1>3. ASSUME NEW x \in Statics(r)
      PROVE  \E t \in U : f[t] = x
  BY DEF Statics, StaticRoutes
<1> HIDE DEF f, U
<1>4. f \in Surjection(U, Statics(r))
  BY <1>2, <1>3 DEF Surjection
<1> QED
  BY <1>1, <1>4, FS_Surjection

\* The routing table as it is imported: the interfaces in their order, then the static routes.
LEMMA ImportRoutesAre ==
  ASSUME NEW r \in Router
  PROVE  LET f == ImportRoutes(r)
             m == Len(Ifaces[r])
         IN /\ f \in Seq(RIPRoute) /\ m \in Nat /\ 1 .. m \subseteq DOMAIN f
            /\ \A k \in 1 .. m : f[k] = ImportInterface(r, Ifaces[r][k])
            /\ \A k \in DOMAIN f : k \notin 1 .. m => f[k] \in Statics(r)
            /\ \A j, k \in DOMAIN f : j \notin 1 .. m /\ k \notin 1 .. m /\ f[j] = f[k] => j = k
            /\ \A q \in Statics(r) : \E k \in DOMAIN f : f[k] = q
<1> DEFINE m == Len(Ifaces[r])
           a == [k \in DOMAIN Ifaces[r] |-> ImportInterface(r, Ifaces[r][k])]
           b == SetToSeq(Statics(r))
           f == a \o b
<1>1. m \in Nat /\ DOMAIN Ifaces[r] = 1 .. m /\ \A k \in 1 .. m : Ifaces[r][k] \in ToSet(Ifaces[r])
  BY RouterAssumption DEF ToSet
<1>2. ASSUME NEW k \in 1 .. m
      PROVE  ImportInterface(r, Ifaces[r][k]) \in RIPRoute
  <2>1. /\ NetmaskRoute(r, Ifaces[r][k]) \in IPv4Route
        /\ Cost[<<r, Ifaces[r][k]>>] \in Metric
    BY <1>1, NetmaskRouteIs
  <2> QED
    BY <2>1, ImportIs DEF ImportInterface
<1>3. /\ a \in Seq(RIPRoute) /\ Len(a) = m
      /\ \A k \in 1 .. m : a[k] = ImportInterface(r, Ifaces[r][k])
  <2>1. a \in [1 .. m -> RIPRoute]
    BY <1>1, <1>2
  <2>2. \A k \in 1 .. m : a[k] = ImportInterface(r, Ifaces[r][k])
    BY <1>1
  <2> HIDE DEF a
  <2> QED
    BY <1>1, <2>1, <2>2
<1>4. \A q \in Statics(r) : q \in RIPRoute
  <2> SUFFICES ASSUME NEW e \in StaticRoutes(r)
               PROVE  Import(e, "STATIC", 1) \in RIPRoute
    BY DEF Statics
  <2>1. e \in IPv4Route
    BY StaticRouteIs
  <2> QED
    BY <2>1, ImportIs, Metrics
<1>5. /\ b \in Seq(Statics(r)) /\ \A i, j \in DOMAIN b : b[i] = b[j] => i = j
      /\ \A x \in Statics(r) : \E i \in DOMAIN b : b[i] = x
  BY StaticsAre, SetToSeqIs
<1>6. ImportRoutes(r) = f
  BY DEF ImportRoutes, Statics
<1> HIDE DEF a, b, m
<1>7. /\ b \in Seq(RIPRoute) /\ Len(b) \in Nat /\ DOMAIN b = 1 .. Len(b)
      /\ \A j \in 1 .. Len(b) : b[j] \in Statics(r)
  <2>1. Len(b) \in Nat /\ DOMAIN b = 1 .. Len(b) /\ \A j \in 1 .. Len(b) : b[j] \in Statics(r)
    BY <1>5
  <2>2. b \in [1 .. Len(b) -> RIPRoute]
    BY <1>4, <1>5, <2>1
  <2> QED
    BY <2>1, <2>2
<1>8. /\ f \in Seq(RIPRoute) /\ DOMAIN f = 1 .. m + Len(b)
      /\ \A j \in 1 .. m : f[j] = a[j]
      /\ \A j \in 1 .. m + Len(b) : j > m => f[j] = b[j - m]
      /\ \A i \in 1 .. Len(b) : f[m + i] = b[i]
  BY <1>1, <1>3, <1>7
<1> HIDE DEF f
<1>9. \A k \in DOMAIN f : k \notin 1 .. m => k > m /\ k - m \in 1 .. Len(b)
  BY <1>1, <1>7, <1>8
<1>10. \A k \in DOMAIN f : k \notin 1 .. m => f[k] \in Statics(r)
  BY <1>7, <1>8, <1>9
<1>11. ASSUME NEW j \in DOMAIN f, NEW k \in DOMAIN f, j \notin 1 .. m, k \notin 1 .. m, f[j] = f[k]
       PROVE  j = k
  <2>1. j - m = k - m
    <3>1. f[j] = b[j - m] /\ f[k] = b[k - m] /\ j - m \in DOMAIN b /\ k - m \in DOMAIN b
      BY <1>7, <1>8, <1>9, <1>11
    <3> QED
      BY <1>5, <1>11, <3>1
  <2>2. j \in Int /\ k \in Int /\ m \in Int
    BY <1>1, <1>8
  <2> QED
    BY <2>1, <2>2
<1>12. ASSUME NEW q \in Statics(r)
       PROVE  \E k \in DOMAIN f : f[k] = q
  <2>1. PICK i \in DOMAIN b : b[i] = q
    BY <1>5
  <2>2. m + i \in DOMAIN f /\ f[m + i] = q
    BY <1>1, <1>7, <1>8, <2>1
  <2> QED
    BY <2>2
<1>13. 1 .. m \subseteq DOMAIN f
  BY <1>1, <1>7, <1>8
<1>14. \A k \in 1 .. m : f[k] = ImportInterface(r, Ifaces[r][k])
  BY <1>3, <1>8
<1> QED
  BY <1>1, <1>6, <1>8, <1>10, <1>11, <1>12, <1>13, <1>14 DEF m

\* What is imported agrees with the routing table, and is right.
LEMMA ImportRight ==
  ASSUME NEW W, NEW r \in Router
  PROVE  Right(W, r, ImportRoutes(r), NetmaskRoutes(r) \cup StaticRoutes(r))
<1> DEFINE f == ImportRoutes(r)
           m == Len(Ifaces[r])
           rt == NetmaskRoutes(r) \cup StaticRoutes(r)
           n(k) == Ifaces[r][k]
<1>1. /\ f \in Seq(RIPRoute) /\ m \in Nat /\ 1 .. m \subseteq DOMAIN f
      /\ \A k \in 1 .. m : f[k] = ImportInterface(r, n(k))
      /\ \A k \in DOMAIN f : k \notin 1 .. m => f[k] \in Statics(r)
      /\ \A j, k \in DOMAIN f : j \notin 1 .. m /\ k \notin 1 .. m /\ f[j] = f[k] => j = k
      /\ \A q \in Statics(r) : \E k \in DOMAIN f : f[k] = q
  BY ImportRoutesAre
<1>2. /\ \A k \in 1 .. m : n(k) \in ToSet(Ifaces[r])
      /\ \A x \in ToSet(Ifaces[r]) : \E k \in 1 .. m : n(k) = x
      /\ \A j, k \in 1 .. m : n(j) = n(k) => j = k
  BY RouterAssumption DEF ToSet
<1> HIDE DEF f, m, n
<1>3. ASSUME NEW k \in 1 .. m
      PROVE  /\ f[k].type = "INTERFACE" /\ f[k].route = NetmaskRoute(r, n(k))
             /\ f[k].dest = n(k) /\ f[k].ie = n(k) /\ f[k].from = None
             /\ f[k].metric = Cost[<<r, n(k)>>]
             /\ f[k].route # None /\ f[k].metric # RIP_INFINITE_METRIC
             /\ Matches(f[k], rt) /\ (OneWay(W) => Known(W, r, f[k]))
  <2> DEFINE e == NetmaskRoute(r, n(k))
  <2>1. n(k) \in ToSet(Ifaces[r])
    BY <1>2
  <2>2. /\ e \in IPv4Route /\ e # None /\ Cost[<<r, n(k)>>] \in Metric \ {RIP_INFINITE_METRIC}
        /\ e.dest = n(k) /\ e.ie = n(k)
        /\ e.gateway = None /\ e.source = "interface"
    BY <2>1, NetmaskRouteIs
  <2>3. e \in rt
    BY <2>1 DEF NetmaskRoutes
  <2> HIDE DEF e, rt
  <2>4. /\ f[k].type = "INTERFACE" /\ f[k].route = e
        /\ f[k].dest = n(k) /\ f[k].ie = n(k) /\ f[k].from = None
        /\ f[k].metric = Cost[<<r, n(k)>>]
    <3>1. f[k] = Import(e, "INTERFACE", Cost[<<r, n(k)>>])
      BY <1>1 DEF e, ImportInterface
    <3> QED
      BY <2>2, <3>1, ImportIs
  <2>5. Matches(f[k], rt)
    BY <2>2, <2>3, <2>4 DEF Matches, Source
  <2>6. OneWay(W) => Known(W, r, f[k])
    BY <2>1, <2>4, InterfaceKnown DEF Known
  <2> QED
    BY <2>2, <2>4, <2>5, <2>6 DEF e
<1>4. ASSUME NEW k \in DOMAIN f, k \notin 1 .. m
      PROVE  /\ f[k].type = "STATIC" /\ f[k].route \in StaticRoutes(r)
             /\ f[k] = Import(f[k].route, "STATIC", 1)
             /\ Matches(f[k], rt) /\ (OneWay(W) => Known(W, r, f[k]))
  <2>1. PICK e \in StaticRoutes(r) : f[k] = Import(e, "STATIC", 1)
    BY <1>1, <1>4 DEF Statics
  <2>2. /\ e \in IPv4Route /\ e # None /\ e.gateway = None /\ e.source = "static"
        /\ OneWay(W) => <<r, e.dest, e.ie, 1>> \in W
    BY StaticRouteIs
  <2>3. /\ f[k].type = "STATIC" /\ f[k].route = e /\ f[k].dest = e.dest /\ f[k].ie = e.ie
        /\ f[k].from = None /\ f[k].metric = 1 /\ f[k].metric # RIP_INFINITE_METRIC
    BY <2>1, <2>2, ImportIs, Metrics
  <2>4. e \in rt
    OBVIOUS
  <2> HIDE DEF rt
  <2>5. Matches(f[k], rt)
    BY <2>2, <2>3, <2>4 DEF Matches, Source
  <2>6. OneWay(W) => Known(W, r, f[k])
    BY <2>2, <2>3 DEF Known
  <2> QED
    BY <2>1, <2>3, <2>5, <2>6
<1>5. Plain(r, f)
  <2> SUFFICES ASSUME NEW k \in DOMAIN f, f[k].type = "INTERFACE"
               PROVE  /\ f[k].dest = f[k].ie /\ f[k].from = None /\ f[k].ie \in ToSet(Ifaces[r])
                      /\ f[k].metric \in {Cost[<<r, f[k].ie>>], RIP_INFINITE_METRIC}
                      /\ f[k].route \in {NetmaskRoute(r, f[k].ie), None}
    BY DEF Plain
  <2>1. k \in 1 .. m
    BY <1>4
  <2> QED
    BY <1>2, <1>3, <2>1
<1>6. Ordered(f)
  <2> SUFFICES ASSUME NEW j \in DOMAIN f, NEW k \in DOMAIN f
               PROVE  /\ f[k].type = "RTE" /\ j < k => f[j].dest # f[k].dest
                      /\ j # k /\ f[j].type = "INTERFACE" /\ f[k].type = "INTERFACE"
                           => f[j].ie # f[k].ie
                      /\ j # k /\ f[j].type = "STATIC" /\ f[k].type = "STATIC" /\ f[j].route # None
                           => f[j].route # f[k].route
    BY DEF Ordered
  <2>1. f[k].type # "RTE"
    BY <1>3, <1>4
  <2>2. ASSUME j # k, f[j].type = "INTERFACE", f[k].type = "INTERFACE"
        PROVE  f[j].ie # f[k].ie
    <3>1. j \in 1 .. m /\ k \in 1 .. m
      BY <1>4, <2>2
    <3>2. f[j].ie = n(j) /\ f[k].ie = n(k)
      BY <1>3, <3>1
    <3> QED
      BY <1>2, <2>2, <3>1, <3>2
  <2>3. ASSUME j # k, f[j].type = "STATIC", f[k].type = "STATIC"
        PROVE  f[j].route # f[k].route
    <3>1. j \notin 1 .. m /\ k \notin 1 .. m
      BY <1>3, <2>3
    <3>2. f[j] = Import(f[j].route, "STATIC", 1) /\ f[k] = Import(f[k].route, "STATIC", 1)
      BY <1>4, <3>1
    <3>3. f[j] # f[k]
      BY <1>1, <2>3, <3>1
    <3> QED
      BY <3>2, <3>3
  <2> QED
    BY <2>1, <2>2, <2>3
<1>7. \A k \in DOMAIN f : Matches(f[k], rt) /\ (OneWay(W) => Known(W, r, f[k]))
  BY <1>3, <1>4
<1>8. \A e \in rt : \E k \in DOMAIN f : f[k].route = e
  <2>1. ASSUME NEW e \in NetmaskRoutes(r)
        PROVE  \E k \in DOMAIN f : f[k].route = e
    <3>1. PICK x \in ToSet(Ifaces[r]) : e = NetmaskRoute(r, x)
      BY DEF NetmaskRoutes
    <3>2. PICK k \in 1 .. m : n(k) = x
      BY <1>2
    <3>3. f[k].route = e /\ k \in DOMAIN f
      BY <1>1, <1>3, <3>1, <3>2
    <3> QED
      BY <3>3
  <2>2. ASSUME NEW e \in StaticRoutes(r)
        PROVE  \E k \in DOMAIN f : f[k].route = e
    <3>1. PICK k \in DOMAIN f : f[k] = Import(e, "STATIC", 1)
      BY <1>1 DEF Statics
    <3>2. e \in IPv4Route
      BY StaticRouteIs
    <3>3. f[k].route = e
      BY <3>1, <3>2, ImportIs, Metrics
    <3> QED
      BY <3>3
  <2> QED
    BY <2>1, <2>2
<1> HIDE DEF rt
<1> QED
  BY <1>5, <1>6, <1>7, <1>8 DEF Right, Agreed, f, rt

\* Requests go out on all interfaces.
LEMMA RequestsWell ==
  ASSUME NEW W, NEW r \in Router, NEW s, Well(W, r, s)
  PROVE  Well(W, r, Through(LAMBDA t, n : SendRequest(r, t, n), s, RIPIfaces(r)))
<1> DEFINE seq == RIPIfaces(r)
           m == Len(seq)
           S == {t \in RouterState : Well(W, r, t)}
           R(t, x) == SendRequest(r, t, x)
           Eq(g) == g = [k \in 0 .. Len(seq) |->
                          IF k = 0 THEN s
                          ELSE CHOOSE t \in {R(x, seq[k]) : x \in {g[k - 1]}} : TRUE]
           after == CHOOSE g : Eq(g)
           G == [p \in S \X (1 .. m) |-> R(p[1], seq[p[2]])]
<1>1. Through(LAMBDA t, n : SendRequest(r, t, n), s, RIPIfaces(r)) = after[m]
  BY DEF Through
<1>2. m \in Nat /\ s \in S /\ \A k \in 1 .. m : <<r, seq[k]>> \in Addr
  BY RIPIfacesAre DEF Well
<1>3. ASSUME NEW t \in S, NEW k \in 1 .. m
      PROVE  R(t, seq[k]) \in S
  <2>1. Well(W, r, R(t, seq[k]))
    BY <1>2, SendRequestWell
  <2> QED
    BY <2>1 DEF Well
<1> HIDE DEF R, S, seq
<1>4. G \in [S \X (1 .. m) -> S] /\ \A t \in S : \A k \in 1 .. m : G[<<t, k>>] = R(t, seq[k])
  BY <1>3
<1> HIDE DEF G, m
<1>5. Solves(after, G, S, m, s)
  <2> SUFFICES ASSUME NEW g, Runs(g, G, S, m, s)
               PROVE  /\ after[0] = s
                      /\ \A k \in 1 .. m : after[k - 1] \in S => after[k] = G[<<after[k - 1], k>>]
    BY DEF Solves
  <2>1. \A k \in 1 .. m : g[k - 1] \in S /\ g[k] = R(g[k - 1], seq[k])
    <3> TAKE k \in 1 .. m
    <3>1. g[k - 1] \in S /\ g[k] = G[<<g[k - 1], k>>]
      BY <1>2 DEF Runs
    <3> QED
      BY <1>4, <3>1
  <2>2. Eq(g)
    BY <1>2, <2>1 DEF Runs, m
  <2>3. Eq(after)
    <3> HIDE DEF Eq
    <3> QED
      BY <2>2
  <2> HIDE DEF after
  <2>4. after[0] = s /\ \A k \in 1 .. m : after[k] = R(after[k - 1], seq[k])
    BY <1>2, <2>3 DEF m
  <2> QED
    BY <1>2, <1>4, <2>4
<1> HIDE DEF after
<1>6. Unrolls(after, G, S, m, s)
  BY <1>2, <1>4, <1>5, LoopUnrolls
<1>7. after[m] \in S
  BY <1>2, <1>6 DEF Unrolls
<1> QED
  BY <1>1, <1>7 DEF S

\* A router that has not started yet
Booted(r, s) ==
  /\ s \in RouterState /\ s.status = "starting"
  /\ s.rt = NetmaskRoutes(r) \cup StaticRoutes(r)
  /\ s.ripRoutes = <<>> /\ s.out = <<>> /\ ~s.failed

\* starts well.
LEMMA StartRIPWell ==
  ASSUME NEW W, NEW r \in Router, NEW s, Booted(r, s)
  PROVE  Well(W, r, StartRIP(r, s))
<1> DEFINE f == ImportRoutes(r)
           t == [s EXCEPT !.status = "on", !.ripRoutes = f]
<1>1. f \in Seq(RIPRoute)
  BY ImportRoutesAre
<1>2. Right(W, r, f, s.rt)
  BY ImportRight DEF Booted
<1>3. StartRIP(r, s) = Through(LAMBDA u, n : SendRequest(r, u, n), t, RIPIfaces(r))
  BY DEF StartRIP
<1> HIDE DEF f
<1>4. /\ t \in RouterState /\ t.status = "on" /\ t.ripRoutes = f /\ t.rt = s.rt /\ t.out = <<>>
      /\ ~t.failed
  BY <1>1 DEF Booted, RouterState
<1> HIDE DEF t
<1>5. Well(W, r, t)
  BY <1>2, <1>4 DEF Well, AllSent
<1> QED
  BY <1>3, <1>5, RequestsWell

\* What a handler leaves: a router that is well, or one that is off and forgets its routes.
Left(W, r, s) ==
  /\ s \in RouterState /\ AllSent(W, r, s.out)
  /\ LevelCosts => ~s.failed
  /\ \/ s.status = "on" /\ Well(W, r, s)
     \/ s.status = "off" /\ s.ripRoutes = <<>>

\* stopRIPRouting(), of a node that shuts down
LEMMA ShutdownLeft ==
  ASSUME NEW W, NEW r \in Router, NEW s, Well(W, r, s)
  PROVE  Left(W, r, Shutdown(r, s))
<1> DEFINE t == InvalidateRoutes(s, ToSet(s.ripRoutes))
           told == SendRoutesOn(r, t, Ifaces[r], FALSE)
           x == Shutdown(r, s)
<1>1. x = [OffState EXCEPT !.out = told.out, !.astray = told.astray]
  BY DEF Shutdown
<1>2. Well(W, r, t)
  BY InvalidateRoutesWell
<1>3. Ifaces[r] \in Seq(Net) /\ \A j \in DOMAIN Ifaces[r] : <<r, Ifaces[r][j]>> \in Addr
  <2>1. Ifaces[r] \in Seq(Net) /\ \A j \in DOMAIN Ifaces[r] : Ifaces[r][j] \in ToSet(Ifaces[r])
    BY RouterAssumption DEF ToSet
  <2> QED
    BY <2>1, Addresses
<1> HIDE DEF t
<1>4. Well(W, r, told)
  BY <1>2, <1>3, SendRoutesOnWell
<1> HIDE DEF told, x
<1>5. told \in RouterState /\ AllSent(W, r, told.out)
  BY <1>4 DEF Well
<1>6. /\ x \in RouterState /\ x.out = told.out /\ x.status = "off" /\ x.ripRoutes = <<>> /\ ~x.failed
  <2>1. /\ told.astray \in BOOLEAN
        /\ told.out \in Seq([on : Net, to : Addr \cup {None}, packet : RIPPacket])
    BY <1>5, RouterFields
  <2>2. x = [status |-> "off", rt |-> {}, ripRoutes |-> <<>>, triggered |-> FALSE, pending |-> FALSE,
             failed |-> FALSE, astray |-> told.astray, out |-> told.out]
    BY <1>1 DEF OffState
  <2> QED
    BY <2>1, <2>2 DEF RouterState
<1> QED
  BY <1>5, <1>6 DEF Left, x

\* A node that crashes
LEMMA OffLeft ==
  ASSUME NEW W, NEW r
  PROVE  Left(W, r, OffState)
BY DEF Left, OffState, RouterState, AllSent

-----------------------------------------------------------------------------
(* The wire *)

\* A packet on the way to the router at address a: a neighbour has sent it, and says what it may.
Honest(W, a, p) ==
  /\ p \in RIPPacket /\ p.src \in Addr /\ p.src = <<p.src[1], a[2]>> /\ p.src[1] # a[1]
  /\ OneWay(W) => \A j \in DOMAIN p.entries : Says(W, p.src, p.entries[j])

\* The wire w carries honest packets, and to routers in "on" only.
Carries(W, w, on) ==
  /\ w \in [Addr -> Seq(RIPPacket)]
  /\ \A a \in Addr : /\ w[a] # <<>> => a[1] \in on
                     /\ \A k \in DOMAIN w[a] : Honest(W, a, w[a][k])

\* The packets of a handler
Outgoing == [on : Net, to : Addr \cup {None}, packet : RIPPacket]

\* that reach the router at address a
Reaching(r, s, a, alive) == Chosen(s.out, LAMBDA o : Reaches(r, s.rt, o, a, alive))

\* are some of them.
LEMMA ReachingAre ==
  ASSUME NEW W, NEW r, NEW s \in RouterState, AllSent(W, r, s.out), NEW a \in Addr, NEW alive
  PROVE  /\ Reaching(r, s, a, alive) \in Seq(Outgoing)
         /\ \A j \in DOMAIN Reaching(r, s, a, alive) :
              LET o == Reaching(r, s, a, alive)[j]
              IN Sent(W, r, o) /\ Reaches(r, s.rt, o, a, alive)
<1> DEFINE seq == s.out
           m == Len(seq)
           S == {q \in Seq(Outgoing) :
                  \A j \in DOMAIN q : Sent(W, r, q[j]) /\ Reaches(r, s.rt, q[j], a, alive)}
           R(t, x) == IF Reaches(r, s.rt, x, a, alive) THEN Append(t, x) ELSE t
           Eq(g) == g = [k \in 0 .. Len(seq) |->
                          IF k = 0 THEN <<>>
                          ELSE CHOOSE t \in {R(x, seq[k]) : x \in {g[k - 1]}} : TRUE]
           after == CHOOSE g : Eq(g)
           G == [p \in S \X (1 .. m) |-> R(p[1], seq[p[2]])]
<1>1. Reaching(r, s, a, alive) = after[m]
  BY DEF Reaching, Chosen, Through
<1>2. m \in Nat /\ <<>> \in S /\ \A k \in 1 .. m : seq[k] \in Outgoing /\ Sent(W, r, seq[k])
  <2>1. seq \in Seq(Outgoing)
    BY RouterFields DEF Outgoing
  <2>2. <<>> \in S
    OBVIOUS
  <2> HIDE DEF S
  <2>3. m \in Nat /\ \A k \in 1 .. m : seq[k] \in Outgoing /\ k \in DOMAIN seq
    BY <2>1
  <2> QED
    BY <2>2, <2>3 DEF AllSent
<1>3. ASSUME NEW t \in S, NEW k \in 1 .. m
      PROVE  R(t, seq[k]) \in S
  <2> DEFINE o == seq[k]
  <2>1. /\ t \in Seq(Outgoing) /\ o \in Outgoing /\ Sent(W, r, o)
        /\ \A j \in DOMAIN t : Sent(W, r, t[j]) /\ Reaches(r, s.rt, t[j], a, alive)
    BY <1>2
  <2> HIDE DEF o
  <2>2. ASSUME Reaches(r, s.rt, o, a, alive)
        PROVE  Append(t, o) \in S
    <3>1. Append(t, o) \in Seq(Outgoing)
      BY <2>1
    <3>2. ASSUME NEW j \in DOMAIN Append(t, o)
          PROVE  /\ Sent(W, r, Append(t, o)[j])
                 /\ Reaches(r, s.rt, Append(t, o)[j], a, alive)
      <4>1. j \in 1 .. Len(t) \/ j = Len(t) + 1
        BY <2>1
      <4>2. Append(t, o)[j] = IF j = Len(t) + 1 THEN o ELSE t[j]
        BY <2>1
      <4>3. j \in 1 .. Len(t) => j \in DOMAIN t /\ j # Len(t) + 1
        BY <2>1
      <4> QED
        BY <2>1, <2>2, <4>1, <4>2, <4>3
    <3> QED
      BY <3>1, <3>2
  <2> QED
    BY <2>2 DEF o
<1> HIDE DEF R, seq
<1>4. G \in [S \X (1 .. m) -> S] /\ \A t \in S : \A k \in 1 .. m : G[<<t, k>>] = R(t, seq[k])
  BY <1>3
<1> HIDE DEF G, m, S
<1>5. Solves(after, G, S, m, <<>>)
  <2> SUFFICES ASSUME NEW g, Runs(g, G, S, m, <<>>)
               PROVE  /\ after[0] = <<>>
                      /\ \A k \in 1 .. m : after[k - 1] \in S => after[k] = G[<<after[k - 1], k>>]
    BY DEF Solves
  <2>1. \A k \in 1 .. m : g[k - 1] \in S /\ g[k] = R(g[k - 1], seq[k])
    <3> TAKE k \in 1 .. m
    <3>1. g[k - 1] \in S /\ g[k] = G[<<g[k - 1], k>>]
      BY <1>2 DEF Runs
    <3> QED
      BY <1>4, <3>1
  <2>2. Eq(g)
    BY <1>2, <2>1 DEF Runs, m
  <2>3. Eq(after)
    <3> HIDE DEF Eq
    <3> QED
      BY <2>2
  <2> HIDE DEF after
  <2>4. after[0] = <<>> /\ \A k \in 1 .. m : after[k] = R(after[k - 1], seq[k])
    BY <1>2, <2>3 DEF m
  <2> QED
    BY <1>2, <1>4, <2>4
<1> HIDE DEF after
<1>6. Unrolls(after, G, S, m, <<>>)
  BY <1>2, <1>4, <1>5, LoopUnrolls
<1>7. after[m] \in S
  BY <1>2, <1>6 DEF Unrolls
<1> QED
  BY <1>1, <1>7 DEF S

\* What a handler has sent
LEMMA TransmittedIs ==
  ASSUME NEW W, NEW r, NEW s \in RouterState, AllSent(W, r, s.out), NEW alive,
         NEW w, NEW on, Carries(W, w, on), \A x \in Router : x # r /\ On(x) => x \in on
  PROVE  Carries(W, Transmitted(r, s, w, alive), on)
<1> DEFINE reach(a) == Reaching(r, s, a, alive)
           sent(a) == [k \in DOMAIN reach(a) |-> reach(a)[k].packet]
           v == Transmitted(r, s, w, alive)
<1>1. v = [a \in Addr |-> w[a] \o sent(a)]
  BY DEF Transmitted, Reaching
<1>2. ASSUME NEW a \in Addr
      PROVE  /\ sent(a) \in Seq(RIPPacket)
             /\ sent(a) # <<>> => a[1] \in on
             /\ \A k \in DOMAIN sent(a) : Honest(W, a, sent(a)[k])
  <2> DEFINE q == reach(a)
             p == [k \in DOMAIN q |-> q[k].packet]
  <2>1. /\ q \in Seq(Outgoing)
        /\ \A j \in DOMAIN q : Sent(W, r, q[j]) /\ Reaches(r, s.rt, q[j], a, alive)
    BY ReachingAre
  <2>2. sent(a) = p
    OBVIOUS
  <2> HIDE DEF q, sent
  <2>3. Len(q) \in Nat /\ DOMAIN q = 1 .. Len(q) /\ \A k \in DOMAIN q : q[k] \in Outgoing
    BY <2>1
  <2>4. \A k \in DOMAIN q : q[k].packet \in RIPPacket
    BY <2>3 DEF Outgoing
  <2>5. p \in [1 .. Len(q) -> RIPPacket] /\ DOMAIN p = DOMAIN q
    BY <2>3, <2>4
  <2>6. ASSUME NEW k \in DOMAIN q
        PROVE  Honest(W, a, q[k].packet) /\ a[1] \in on
    <3> DEFINE o == q[k]
    <3>1. Sent(W, r, o) /\ Reaches(r, s.rt, o, a, alive) /\ o.packet \in RIPPacket
      BY <2>1, <2>4
    <3> HIDE DEF o
    <3>2. a[2] = o.on /\ a[1] # r /\ On(a[1]) /\ a[1] \in Router
      BY <3>1, Addresses DEF Reaches
    <3>3. o.packet.src = <<r, o.on>> /\ <<r, o.on>> \in Addr
      BY <3>1 DEF Sent
    <3>4. OneWay(W) => \A j \in DOMAIN o.packet.entries : Says(W, o.packet.src, o.packet.entries[j])
      BY <3>1, <3>3 DEF Sent
    <3>5. Honest(W, a, o.packet)
      BY <3>1, <3>2, <3>3, <3>4 DEF Honest
    <3> QED
      BY <3>2, <3>5 DEF o
  <2>7. p \in Seq(RIPPacket)
    <3> HIDE DEF p
    <3> QED
      BY <2>3, <2>5
  <2>8. p # <<>> => a[1] \in on
    <3>1. ASSUME p # <<>>
          PROVE  \E k : k \in DOMAIN q
      <4> SUFFICES ASSUME DOMAIN q = {}
                   PROVE  p = <<>>
        BY <3>1
      <4> HIDE DEF p
      <4> QED
        BY <2>5, <2>7
    <3> QED
      BY <2>6, <3>1
  <2> QED
    BY <2>2, <2>6, <2>7, <2>8
<1> HIDE DEF sent, v
<1>3. ASSUME NEW a \in Addr
      PROVE  /\ v[a] \in Seq(RIPPacket) /\ (v[a] # <<>> => a[1] \in on)
             /\ \A k \in DOMAIN v[a] : Honest(W, a, v[a][k])
  <2> DEFINE b == w[a]
             c == sent(a)
  <2>1. v[a] = b \o c
    BY <1>1
  <2>2. /\ b \in Seq(RIPPacket) /\ c \in Seq(RIPPacket)
        /\ (b # <<>> => a[1] \in on) /\ (c # <<>> => a[1] \in on)
        /\ (\A k \in DOMAIN b : Honest(W, a, b[k])) /\ \A k \in DOMAIN c : Honest(W, a, c[k])
    BY <1>2 DEF Carries
  <2> HIDE DEF b, c
  <2>3. b \o c # <<>> => b # <<>> \/ c # <<>>
    BY <2>2
  <2>4. ASSUME NEW k \in DOMAIN (b \o c)
        PROVE  Honest(W, a, (b \o c)[k])
    <3>1. /\ Len(b) \in Nat /\ Len(c) \in Nat /\ DOMAIN b = 1 .. Len(b) /\ DOMAIN c = 1 .. Len(c)
          /\ DOMAIN (b \o c) = 1 .. Len(b) + Len(c)
          /\ (b \o c)[k] = IF k <= Len(b) THEN b[k] ELSE c[k - Len(b)]
      BY <2>2
    <3>2. IF k <= Len(b) THEN k \in DOMAIN b ELSE k - Len(b) \in DOMAIN c
      BY <3>1
    <3> QED
      BY <2>2, <3>1, <3>2
  <2>5. b \o c \in Seq(RIPPacket)
    BY <2>2
  <2> QED
    BY <2>1, <2>2, <2>3, <2>4, <2>5
<1>4. v \in [Addr -> Seq(RIPPacket)]
  BY <1>1, <1>3
<1> QED
  BY <1>3, <1>4 DEF Carries, v

-----------------------------------------------------------------------------
(* Steps *)

\* A router between handlers
Idle(W, r, s) ==
  /\ s \in RouterState /\ s.out = <<>> /\ ~s.pending
  /\ LevelCosts => ~s.failed
  /\ s.status = "on" => Right(W, r, s.ripRoutes, s.rt)
  /\ s.status = "off" => s.ripRoutes = <<>>
  /\ s.status = "starting" => Booted(r, s)

\* All routers
Idles(W) == /\ router \in [Router -> RouterState]
            /\ \A r \in Router : Idle(W, r, router[r])
\* Those that are on
Ons == {r \in Router : On(r)}

\* The other variables
Counts == up \subseteq Addr /\ updated \subseteq Router /\ used \in [DOMAIN Bound -> Nat]

\* The inductive invariant.
IInv(W) == Idles(W) /\ Carries(W, wire, Ons) /\ Counts

\* A router that is on is well, between handlers,
LEMMA IdleWell ==
  ASSUME NEW W, NEW r, NEW s, Idle(W, r, s), s.status = "on"
  PROVE  Well(W, r, s)
BY DEF Idle, Well, AllSent

\* and what is well after a handler may be left.
LEMMA WellLeft ==
  ASSUME NEW W, NEW r, NEW s, Well(W, r, s)
  PROVE  Left(W, r, s) /\ s.status = "on"
BY DEF Left, Well

\* A wire carries packets to more routers,
LEMMA CarriesMore ==
  ASSUME NEW W, NEW w, NEW on, Carries(W, w, on), NEW more, on \subseteq more
  PROVE  Carries(W, w, more)
BY DEF Carries

\* or less of them.
LEMMA CarriesLess ==
  ASSUME NEW W, NEW w, NEW on, Carries(W, w, on), NEW a \in Addr
  PROVE  /\ Carries(W, [w EXCEPT ![a] = <<>>], on)
         /\ w[a] # <<>> => /\ Carries(W, [w EXCEPT ![a] = Tail(@)], on)
                           /\ Head(w[a]) \in RIPPacket /\ Honest(W, a, Head(w[a])) /\ a[1] \in on
<1> DEFINE q == w[a]
           v == [w EXCEPT ![a] = <<>>]
           u == [w EXCEPT ![a] = Tail(q)]
<1>1. /\ w \in [Addr -> Seq(RIPPacket)] /\ q \in Seq(RIPPacket)
      /\ \A b \in Addr : /\ w[b] # <<>> => b[1] \in on
                         /\ \A k \in DOMAIN w[b] : Honest(W, b, w[b][k])
  BY DEF Carries
<1>2. v \in [Addr -> Seq(RIPPacket)] /\ v[a] = <<>> /\ \A b \in Addr : b # a => v[b] = w[b]
  BY <1>1
<1>3. Carries(W, v, on)
  <2> HIDE DEF v
  <2> QED
    BY <1>1, <1>2 DEF Carries
<1>4. ASSUME q # <<>>
      PROVE  /\ Carries(W, u, on) /\ Head(q) \in RIPPacket /\ Honest(W, a, Head(q)) /\ a[1] \in on
  <2>1. /\ Tail(q) \in Seq(RIPPacket) /\ Head(q) = q[1] /\ 1 \in DOMAIN q
        /\ \A k \in DOMAIN Tail(q) : k + 1 \in DOMAIN q /\ Tail(q)[k] = q[k + 1]
    <3>1. q \in Seq(RIPPacket) /\ q # <<>>
      BY <1>1, <1>4
    <3> HIDE DEF q
    <3> QED
      BY <3>1
  <2>2. u \in [Addr -> Seq(RIPPacket)] /\ u[a] = Tail(q) /\ \A b \in Addr : b # a => u[b] = w[b]
    BY <1>1, <2>1
  <2>3. \A k \in DOMAIN q : Honest(W, a, q[k])
    BY <1>1
  <2>4. a[1] \in on
    BY <1>1, <1>4
  <2> HIDE DEF u, q
  <2>5. Carries(W, u, on)
    <3> SUFFICES ASSUME NEW b \in Addr
                 PROVE  /\ u[b] # <<>> => b[1] \in on
                        /\ \A k \in DOMAIN u[b] : Honest(W, b, u[b][k])
      BY <2>2 DEF Carries
    <3>1. CASE b = a
      BY <2>1, <2>2, <2>3, <2>4, <3>1
    <3>2. CASE b # a
      BY <1>1, <2>2, <3>2
    <3> QED
      BY <3>1, <3>2
  <2>6. Honest(W, a, Head(q))
    BY <2>1, <2>3
  <2> QED
    BY <2>4, <2>5, <2>6 DEF Honest
<1> QED
  BY <1>3, <1>4

\* A handler of router r is run, on the wire w.
LEMMA RunKeeps ==
  ASSUME NEW W, Idles(W), NEW r \in Router, NEW s, Left(W, r, s),
         NEW w, Carries(W, w, (Ons \ {r}) \cup (IF s.status = "on" THEN {r} ELSE {})),
         NEW soon \in BOOLEAN, Run(r, s, w, soon)
  PROVE  Idles(W)' /\ Carries(W, wire, Ons)'
<1> DEFINE tr == s.triggered \/ (s.pending /\ ~soon)
           x == [s EXCEPT !.out = <<>>, !.pending = FALSE, !.triggered = tr]
           on == (Ons \ {r}) \cup (IF s.status = "on" THEN {r} ELSE {})
<1>1. /\ router \in [Router -> RouterState] /\ (\A y \in Router : Idle(W, y, router[y]))
      /\ s \in RouterState /\ AllSent(W, r, s.out) /\ (LevelCosts => ~s.failed)
      /\ (s.status = "on" => Right(W, r, s.ripRoutes, s.rt))
      /\ (s.status = "off" => s.ripRoutes = <<>>) /\ s.status \in {"on", "off"}
  BY DEF Idles, Left, Well
<1>2. router' = [router EXCEPT ![r] = x] /\ wire' = Transmitted(r, s, w, up)
  BY DEF Run
<1>3. /\ x \in RouterState /\ x.out = <<>> /\ ~x.pending /\ x.failed = s.failed /\ x.status = s.status
      /\ x.ripRoutes = s.ripRoutes /\ x.rt = s.rt
  <2> DEFINE e == <<>>
             no == FALSE
             a == [s EXCEPT !.out = e]
             b == [a EXCEPT !.pending = no]
             c == [b EXCEPT !.triggered = tr]
  <2>1. tr \in BOOLEAN /\ s \in RouterState
    BY <1>1, RouterFields
  <2>2. e \in Seq([on : Net, to : Addr \cup {None}, packet : RIPPacket])
    OBVIOUS
  <2>9. no \in BOOLEAN
    OBVIOUS
  <2>3. x = c
    OBVIOUS
  <2> HIDE DEF tr, e, no
  <2>4. a = [status |-> s.status, rt |-> s.rt, ripRoutes |-> s.ripRoutes, triggered |-> s.triggered,
             pending |-> s.pending, failed |-> s.failed, astray |-> s.astray, out |-> e]
    BY <2>1 DEF RouterState
  <2> HIDE DEF a
  <2>5. b = [status |-> s.status, rt |-> s.rt, ripRoutes |-> s.ripRoutes, triggered |-> s.triggered,
             pending |-> no, failed |-> s.failed, astray |-> s.astray, out |-> e]
    BY <2>4
  <2> HIDE DEF b
  <2>6. c = [status |-> s.status, rt |-> s.rt, ripRoutes |-> s.ripRoutes, triggered |-> tr,
             pending |-> no, failed |-> s.failed, astray |-> s.astray, out |-> e]
    BY <2>5
  <2> HIDE DEF c
  <2>7. c \in RouterState
    <3>1. /\ s.ripRoutes \in Seq(RIPRoute) /\ s.rt \subseteq IPv4Route
          /\ s.status \in {"off", "starting", "on"} /\ s.failed \in BOOLEAN /\ s.astray \in BOOLEAN
      BY <2>1, RouterFields
    <3> QED
      BY <2>1, <2>2, <2>6, <2>9, <3>1 DEF RouterState
  <2>8. /\ c.out = e /\ c.pending = no /\ c.failed = s.failed /\ c.status = s.status
        /\ c.ripRoutes = s.ripRoutes /\ c.rt = s.rt
    BY <2>6
  <2> QED
    BY <2>3, <2>7, <2>8 DEF e, no, tr
<1> HIDE DEF x
<1>4. Idle(W, r, x)
  BY <1>1, <1>3 DEF Idle
<1>5. Idles(W)'
  BY <1>1, <1>2, <1>3, <1>4 DEF Idles
<1>6. Ons' = on
  BY <1>1, <1>2, <1>3 DEF Ons, On
<1>7. Carries(W, Transmitted(r, s, w, up), on)
  <2>1. \A y \in Router : y # r /\ On(y) => y \in on
    BY DEF Ons
  <2> HIDE DEF on
  <2>2. Carries(W, w, on)
    BY DEF on
  <2> QED
    BY <1>1, <2>1, <2>2, TransmittedIs
<1>8. Carries(W, wire, Ons)'
  BY <1>2, <1>6, <1>7
<1> QED
  BY <1>5, <1>8

\* (with a handler of a router that stays on)
LEMMA EventKeeps ==
  ASSUME NEW W, Idles(W), NEW r \in Router, NEW s, Well(W, r, s),
         NEW w, Carries(W, w, Ons), NEW soon \in BOOLEAN, Run(r, s, w, soon)
  PROVE  Idles(W)' /\ Carries(W, wire, Ons)'
<1> DEFINE on == (Ons \ {r}) \cup (IF s.status = "on" THEN {r} ELSE {})
<1>1. Left(W, r, s) /\ s.status = "on"
  BY WellLeft
<1>2. Ons \subseteq on
  BY <1>1
<1>3. Carries(W, w, on)
  <2> HIDE DEF on
  <2> QED
    BY <1>2, CarriesMore
<1> QED
  BY <1>1, <1>3, RunKeeps

\* startupTimer
LEMMA StartUpKeeps ==
  ASSUME NEW W, IInv(W), NEW r \in Router, StartUp(r)
  PROVE  Idles(W)' /\ Carries(W, wire, Ons)'
<1>1. Booted(r, router[r])
  BY DEF IInv, Idles, Idle, StartUp
<1>2. Well(W, r, StartRIP(r, router[r]))
  BY <1>1, StartRIPWell
<1>3. PICK soon \in BOOLEAN : Run(r, StartRIP(r, router[r]), wire, soon)
  BY DEF StartUp, Event
<1> QED
  BY <1>2, <1>3, EventKeeps DEF IInv

\* updateTimer
LEMMA UpdateKeeps ==
  ASSUME NEW W, IInv(W), NEW r \in Router, Update(r)
  PROVE  Idles(W)' /\ Carries(W, wire, Ons)'
<1>1. Well(W, r, router[r])
  BY IdleWell DEF IInv, Idles, Update, On
<1>2. Well(W, r, ProcessUpdate(r, router[r], FALSE))
  BY <1>1, ProcessUpdateWell
<1>3. Run(r, ProcessUpdate(r, router[r], FALSE), wire, FALSE)
  BY DEF Update
<1> QED
  BY <1>2, <1>3, EventKeeps DEF IInv

\* triggeredUpdateTimer
LEMMA TriggeredUpdateKeeps ==
  ASSUME NEW W, IInv(W), NEW r \in Router, TriggeredUpdate(r)
  PROVE  Idles(W)' /\ Carries(W, wire, Ons)'
<1> DEFINE s == router[r]
           t == [s EXCEPT !.triggered = FALSE]
<1>1. Well(W, r, s)
  BY IdleWell DEF IInv, Idles, TriggeredUpdate, On
<1>2. PICK soon \in BOOLEAN : Run(r, ProcessUpdate(r, t, TRUE), wire, soon)
  BY DEF TriggeredUpdate, Event
<1> HIDE DEF s
<1>3. /\ t \in RouterState /\ t.status = s.status /\ t.ripRoutes = s.ripRoutes /\ t.rt = s.rt
      /\ t.failed = s.failed /\ t.out = s.out
  BY <1>1 DEF Well, RouterState
<1> HIDE DEF t
<1>4. Well(W, r, t)
  BY <1>1, <1>3 DEF Well
<1>5. Well(W, r, ProcessUpdate(r, t, TRUE))
  BY <1>4, ProcessUpdateWell
<1> QED
  BY <1>2, <1>5, EventKeeps DEF IInv

\* A route grows older.
LEMMA OlderIs ==
  ASSUME NEW q \in RIPRoute
  PROVE  /\ Older(q) \in RIPRoute
         /\ Older(q).type = q.type /\ Older(q).route = q.route /\ Older(q).dest = q.dest
         /\ Older(q).ie = q.ie /\ Older(q).from = q.from /\ Older(q).metric = q.metric
<1>1. MaxAge \in Nat
  BY RouterAssumption DEF MaxAge
<1>2. q.age \in 0 .. MaxAge
  BY DEF RIPRoute
<1>3. q.age < MaxAge => q.age + 1 \in 0 .. MaxAge
  BY <1>1, <1>2
<1> QED
  BY <1>3 DEF Older, RIPRoute

\* The next period
LEMMA TickKeeps ==
  ASSUME NEW W, IInv(W), Tick
  PROVE  Idles(W)' /\ Carries(W, wire, Ons)'
<1> DEFINE older(r) == [k \in DOMAIN router[r].ripRoutes |-> Older(router[r].ripRoutes[k])]
           next(r) == [router[r] EXCEPT !.ripRoutes = older(r)]
<1>1. router' = [r \in Router |-> next(r)] /\ wire' = wire
  BY DEF Tick
<1>2. ASSUME NEW r \in Router
      PROVE  /\ next(r) \in RouterState /\ next(r).status = router[r].status
             /\ Idle(W, r, next(r))
  <2> DEFINE s == router[r]
             f == s.ripRoutes
             g == [k \in DOMAIN f |-> Older(f[k])]
             t == [s EXCEPT !.ripRoutes = g]
  <2>1. Idle(W, r, s) /\ s \in RouterState
    BY DEF IInv, Idles, Idle
  <2>2. s.status # "starting"
    BY DEF Tick, On
  <2> HIDE DEF s
  <2>3. f \in Seq(RIPRoute) /\ Len(f) \in Nat /\ DOMAIN f = 1 .. Len(f) /\ \A k \in DOMAIN f : f[k] \in RIPRoute
    BY <2>1, RouterFields
  <2> HIDE DEF f
  <2>4. /\ DOMAIN g = DOMAIN f
        /\ \A k \in DOMAIN f : /\ g[k] \in RIPRoute
                               /\ g[k].type = f[k].type /\ g[k].route = f[k].route
                               /\ g[k].dest = f[k].dest /\ g[k].ie = f[k].ie
                               /\ g[k].from = f[k].from /\ g[k].metric = f[k].metric
    BY <2>3, OlderIs
  <2> HIDE DEF g
  <2>5. g \in Seq(RIPRoute)
    <3>1. g \in [1 .. Len(f) -> RIPRoute]
      BY <2>3, <2>4 DEF g
    <3> QED
      BY <2>3, <3>1
  <2>6. /\ t \in RouterState /\ t.status = s.status /\ t.ripRoutes = g /\ t.rt = s.rt
        /\ t.failed = s.failed /\ t.out = s.out /\ t.pending = s.pending
    BY <2>1, <2>5 DEF RouterState
  <2> HIDE DEF t
  <2>7. s.status = "on" => Right(W, r, g, s.rt)
    <3>1. s.status = "on" => Right(W, r, f, s.rt)
      BY <2>1 DEF Idle, f
    <3> QED
      BY <2>3, <2>4, <2>5, <3>1, RightAlike
  <2>8. s.status = "off" => g = <<>>
    <3>1. s.status = "off" => DOMAIN f = {}
      BY <2>1 DEF Idle, f
    <3> QED
      BY <2>4, <2>5, <3>1
  <2>9. Idle(W, r, t)
    BY <2>1, <2>2, <2>6, <2>7, <2>8 DEF Idle
  <2>10. t = next(r)
    BY DEF t, s, g, f
  <2> QED
    BY <2>6, <2>9, <2>10 DEF s
<1> HIDE DEF next
<1>3. Idles(W)'
  BY <1>1, <1>2 DEF Idles
<1>4. Ons' = Ons
  BY <1>1, <1>2 DEF Ons, On
<1> QED
  BY <1>1, <1>3, <1>4 DEF IInv

\* A packet arrives.
LEMMA ReceiveKeeps ==
  ASSUME NEW W, IInv(W), NEW a \in Addr, Receive(a)
  PROVE  Idles(W)' /\ Carries(W, wire, Ons)'
<1> DEFINE r == a[1]
           n == a[2]
           s == router[r]
           p == Head(wire[a])
           w == [wire EXCEPT ![a] = Tail(@)]
           t == IF p.command = "request" THEN ProcessRequest(r, s, n, p) ELSE ProcessResponse(r, s, n, p)
<1>1. PICK soon \in BOOLEAN : Run(r, t, w, soon)
  BY DEF Receive, Event
<1>2. wire[a] # <<>> /\ Carries(W, wire, Ons) /\ Idles(W)
  BY DEF Receive, IInv
<1>3. Carries(W, w, Ons) /\ p \in RIPPacket /\ Honest(W, a, p) /\ r \in Ons
  BY <1>2, CarriesLess
<1>4. r \in Router /\ <<r, n>> \in Addr
  BY Addresses
<1>5. Well(W, r, s)
  BY <1>2, <1>3, IdleWell DEF Idles, Ons, On
<1>6. /\ p.src \in Addr /\ p.src = <<p.src[1], n>> /\ p.src[1] # r
      /\ OneWay(W) => \A j \in DOMAIN p.entries : Says(W, p.src, p.entries[j])
  BY <1>3 DEF Honest
<1> HIDE DEF r, n, s, p, w
<1>7. Well(W, r, ProcessRequest(r, s, n, p))
  BY <1>4, <1>5, <1>6, SendRoutesWell DEF ProcessRequest
<1>8. Well(W, r, ProcessResponse(r, s, n, p))
  BY <1>3, <1>4, <1>5, <1>6, ProcessResponseWell
<1>9. Well(W, r, t)
  BY <1>7, <1>8
<1> HIDE DEF t
<1> QED
  BY <1>1, <1>2, <1>3, <1>4, <1>9, EventKeeps

\* One is lost.
LEMMA LoseKeeps ==
  ASSUME NEW W, IInv(W), NEW a \in Addr, Lose(a)
  PROVE  Idles(W)' /\ Carries(W, wire, Ons)'
<1> DEFINE w == [wire EXCEPT ![a] = Tail(@)]
<1>1. wire[a] # <<>> /\ wire' = w /\ router' = router
  BY DEF Lose
<1>2. Carries(W, wire, Ons) /\ Idles(W)
  BY DEF IInv
<1>3. Carries(W, w, Ons)
  BY <1>1, <1>2, CarriesLess
<1> HIDE DEF w
<1>4. Ons' = Ons
  BY <1>1 DEF Ons, On
<1> QED
  BY <1>1, <1>2, <1>3, <1>4 DEF Idles

\* NF_INTERFACE_STATE_CHANGED: down,
LEMMA InterfaceDownKeeps ==
  ASSUME NEW W, IInv(W), NEW a \in Addr, InterfaceDown(a)
  PROVE  Idles(W)' /\ Carries(W, wire, Ons)'
<1> DEFINE r == a[1]
           lost == {q \in ToSet(router[a[1]].ripRoutes) : q.ie = a[2]}
           t == InvalidateRoutes(router[r], lost)
           w == [wire EXCEPT ![a] = <<>>]
<1>1. PICK soon \in BOOLEAN : Run(r, t, w, soon)
  BY DEF InterfaceDown, Event
<1>2. Carries(W, wire, Ons) /\ Idles(W) /\ On(r)
  BY DEF IInv, InterfaceDown
<1>3. r \in Router
  BY Addresses
<1>4. Carries(W, w, Ons)
  BY <1>2, CarriesLess
<1>5. Well(W, r, router[r])
  BY <1>2, <1>3, IdleWell DEF Idles, On
<1> HIDE DEF r, lost, w
<1>6. Well(W, r, t)
  BY <1>5, InvalidateRoutesWell
<1> HIDE DEF t
<1> QED
  BY <1>1, <1>2, <1>3, <1>4, <1>6, EventKeeps

\* and up.
LEMMA InterfaceUpKeeps ==
  ASSUME NEW W, IInv(W), NEW a \in Addr, InterfaceUp(a)
  PROVE  Idles(W)' /\ Carries(W, wire, Ons)'
<1> DEFINE r == a[1]
           s == router[r]
           t == IF Mode[a] = "NoRIP" THEN s ELSE SendRequest(r, s, a[2])
<1>1. wire' = Transmitted(r, t, wire, up') /\ router' = router
  BY DEF InterfaceUp
<1>2. Carries(W, wire, Ons) /\ Idles(W) /\ On(r)
  BY DEF IInv, InterfaceUp
<1>3. r \in Router /\ <<r, a[2]>> \in Addr
  BY Addresses
<1>4. Well(W, r, s)
  BY <1>2, <1>3, IdleWell DEF Idles, On
<1> HIDE DEF r, s
<1>5. Well(W, r, t)
  BY <1>3, <1>4, SendRequestWell
<1> HIDE DEF t
<1>6. t \in RouterState /\ AllSent(W, r, t.out)
  BY <1>5 DEF Well
<1>7. \A x \in Router : x # r /\ On(x) => x \in Ons
  BY DEF Ons
<1>8. Carries(W, Transmitted(r, t, wire, up'), Ons)
  BY <1>2, <1>6, <1>7, TransmittedIs
<1>9. Ons' = Ons
  BY <1>1 DEF Ons, On
<1>10. Carries(W, wire, Ons)'
  BY <1>1, <1>8, <1>9
<1>11. Idles(W)'
  BY <1>1, <1>2 DEF Idles
<1> QED
  BY <1>10, <1>11

\* The netmask routes are made anew.
LEMMA RefreshRoutesKeeps ==
  ASSUME NEW W, IInv(W), NEW r \in Router, RefreshRoutes(r)
  PROVE  Idles(W)' /\ Carries(W, wire, Ons)'
<1>1. Well(W, r, router[r])
  BY IdleWell DEF IInv, Idles, RefreshRoutes, On
<1>2. Well(W, r, RefreshNetmaskRoutes(r, router[r]))
  BY <1>1, RefreshNetmaskRoutesWell
<1>3. PICK soon \in BOOLEAN : Run(r, RefreshNetmaskRoutes(r, router[r]), wire, soon)
  BY DEF RefreshRoutes, Event
<1> QED
  BY <1>2, <1>3, EventKeeps DEF IInv

\* A node stops.
LEMMA StopKeeps ==
  ASSUME NEW W, IInv(W), NEW r \in Router, NEW s, Left(W, r, s), s.status = "off", Stop(r, s)
  PROVE  Idles(W)' /\ Carries(W, wire, Ons)'
<1> DEFINE w == [a \in Addr |-> IF a[1] = r THEN <<>> ELSE wire[a]]
           on == (Ons \ {r}) \cup (IF s.status = "on" THEN {r} ELSE {})
<1>1. Run(r, s, w, FALSE)
  BY DEF Stop
<1>2. /\ wire \in [Addr -> Seq(RIPPacket)]
      /\ \A a \in Addr : /\ wire[a] # <<>> => a[1] \in Ons
                         /\ \A k \in DOMAIN wire[a] : Honest(W, a, wire[a][k])
  BY DEF IInv, Carries
<1>3. on = Ons \ {r}
  OBVIOUS
<1>4. Carries(W, w, on)
  <2>1. w \in [Addr -> Seq(RIPPacket)]
    BY <1>2
  <2>2. \A a \in Addr : w[a] = IF a[1] = r THEN <<>> ELSE wire[a]
    OBVIOUS
  <2> HIDE DEF w, on
  <2> QED
    BY <1>2, <1>3, <2>1, <2>2 DEF Carries
<1> HIDE DEF w
<1> QED
  BY <1>1, <1>4, RunKeeps DEF IInv

\* It crashes,
LEMMA CrashKeeps ==
  ASSUME NEW W, IInv(W), NEW r \in Router, Crash(r)
  PROVE  Idles(W)' /\ Carries(W, wire, Ons)'
<1>1. OffState.status = "off"
  BY DEF OffState
<1> QED
  BY <1>1, OffLeft, StopKeeps DEF Crash

\* or shuts down,
LEMMA ShutdownKeeps ==
  ASSUME NEW W, IInv(W), NEW r \in Router, ShutdownNode(r)
  PROVE  Idles(W)' /\ Carries(W, wire, Ons)'
<1>1. Well(W, r, router[r])
  BY IdleWell DEF IInv, Idles, ShutdownNode, On
<1>2. Left(W, r, Shutdown(r, router[r]))
  BY <1>1, ShutdownLeft
<1>3. Shutdown(r, router[r]).status = "off"
  BY DEF Shutdown, OffState
<1> QED
  BY <1>2, <1>3, StopKeeps DEF ShutdownNode

\* A router as it is booted
LEMMA BootIs ==
  ASSUME NEW r \in Router
  PROVE  /\ Booted(r, BootState(r)) /\ BootState(r) \in RouterState
         /\ BootState(r).status = "starting" /\ ~BootState(r).pending
<1> DEFINE rt == NetmaskRoutes(r) \cup StaticRoutes(r)
           s == BootState(r)
<1>1. rt \subseteq IPv4Route
  <2>1. \A e \in NetmaskRoutes(r) : e \in IPv4Route
    BY NetmaskRouteIs DEF NetmaskRoutes
  <2>2. \A e \in StaticRoutes(r) : e \in IPv4Route
    BY StaticRouteIs
  <2> QED
    BY <2>1, <2>2
<1> HIDE DEF rt
<1>2. s = [status |-> "starting", rt |-> rt, ripRoutes |-> <<>>, triggered |-> FALSE, pending |-> FALSE,
           failed |-> FALSE, astray |-> FALSE, out |-> <<>>]
  <2>1. s = [OffState EXCEPT !.status = "starting", !.rt = rt]
    BY DEF BootState, rt
  <2> QED
    BY <2>1 DEF OffState
<1> HIDE DEF s
<1>3. s \in RouterState
  BY <1>1, <1>2 DEF RouterState
<1>4. Booted(r, s)
  BY <1>2, <1>3 DEF Booted, rt
<1> QED
  BY <1>2, <1>3, <1>4 DEF s

\* and starts again.
LEMMA NodeStartKeeps ==
  ASSUME NEW W, IInv(W), NEW r \in Router, NodeStart(r)
  PROVE  Idles(W)' /\ Carries(W, wire, Ons)'
<1> DEFINE s == BootState(r)
<1>1. /\ router' = [router EXCEPT ![r] = s] /\ wire' = wire /\ router[r].status = "off"
      /\ router \in [Router -> RouterState] /\ \A y \in Router : Idle(W, y, router[y])
  BY DEF NodeStart, IInv, Idles
<1>2. Booted(r, s) /\ s \in RouterState /\ s.status = "starting" /\ ~s.pending
  BY BootIs
<1> HIDE DEF s
<1>3. Idle(W, r, s)
  BY <1>2 DEF Idle, Booted
<1>4. Idles(W)'
  BY <1>1, <1>2, <1>3 DEF Idles
<1>5. Ons' = Ons
  BY <1>1, <1>2 DEF Ons, On
<1> QED
  BY <1>1, <1>4, <1>5 DEF IInv

\* The counters
LEMMA CountsKept ==
  ASSUME Counts, [Next]_vars
  PROVE  Counts'
<1>1. ASSUME NEW k \in DOMAIN Bound, Spend(k)
      PROVE  used' \in [DOMAIN Bound -> Nat]
  <2>1. used' = [used EXCEPT ![k] = used[k] + 1] /\ used \in [DOMAIN Bound -> Nat]
    BY <1>1 DEF Spend, Counts
  <2> QED
    BY <2>1
<1>2. {"loss", "down", "up", "crash", "shutdown", "start", "refresh"} = DOMAIN Bound
  BY DEF Bound
<1>3. up \subseteq Addr /\ updated \subseteq Router /\ used \in [DOMAIN Bound -> Nat]
  BY DEF Counts
<1>4. CASE UNCHANGED vars
  BY <1>3, <1>4 DEF vars, Counts
<1>5. CASE Tick
  BY <1>3, <1>5 DEF Tick, Counts
<1>6. ASSUME NEW r \in Router, StartUp(r) \/ Update(r) \/ TriggeredUpdate(r)
      PROVE  Counts'
  BY <1>3, <1>6 DEF StartUp, Update, TriggeredUpdate, Counts
<1>7. ASSUME NEW r \in Router, RefreshRoutes(r) \/ Crash(r) \/ ShutdownNode(r) \/ NodeStart(r)
      PROVE  Counts'
  <2>1. up' = up /\ updated' \in {updated, updated \ {r}}
    BY <1>7 DEF RefreshRoutes, Crash, ShutdownNode, NodeStart, Stop
  <2>2. Spend("refresh") \/ Spend("crash") \/ Spend("shutdown") \/ Spend("start")
    BY <1>7 DEF RefreshRoutes, Crash, ShutdownNode, NodeStart
  <2>3. used' \in [DOMAIN Bound -> Nat]
    BY <1>1, <1>2, <2>2
  <2> QED
    BY <1>3, <2>1, <2>3 DEF Counts
<1>8. ASSUME NEW a \in Addr, Receive(a)
      PROVE  Counts'
  BY <1>3, <1>8 DEF Receive, Counts
<1>9. ASSUME NEW a \in Addr, Lose(a) \/ InterfaceDown(a) \/ InterfaceUp(a)
      PROVE  Counts'
  <2>1. up' \in {up, up \ {a}, up \cup {a}} /\ updated' = updated
    BY <1>9 DEF Lose, InterfaceDown, InterfaceUp
  <2>2. Spend("loss") \/ Spend("down") \/ Spend("up")
    BY <1>9 DEF Lose, InterfaceDown, InterfaceUp
  <2>3. used' \in [DOMAIN Bound -> Nat]
    BY <1>1, <1>2, <2>2
  <2> QED
    BY <1>3, <2>1, <2>3 DEF Counts
<1> QED
  BY <1>4, <1>5, <1>6, <1>7, <1>8, <1>9 DEF Next

-----------------------------------------------------------------------------
(* The theorems *)

\* The inductive invariant holds at first,
LEMMA IInvInit ==
  ASSUME NEW W, Init
  PROVE  IInv(W)
<1>1. \A r \in Router : router[r] = BootState(r) /\ router[r] \in RouterState /\ router[r].status = "starting"
  BY BootIs DEF Init
<1>2. ASSUME NEW r \in Router
      PROVE  Idle(W, r, router[r])
  <2> DEFINE s == BootState(r)
  <2>1. Booted(r, s) /\ s \in RouterState /\ s.status = "starting" /\ ~s.pending /\ router[r] = s
    BY <1>1, BootIs
  <2> HIDE DEF s
  <2> QED
    BY <2>1 DEF Idle, Booted
<1>3. router \in [Router -> RouterState]
  BY BootIs DEF Init
<1>4. Carries(W, wire, Ons)
  <2>1. wire = [a \in Addr |-> <<>>]
    BY DEF Init
  <2> QED
    BY <2>1 DEF Carries
<1>5. Counts
  BY DEF Init, Counts
<1> QED
  BY <1>2, <1>3, <1>4, <1>5 DEF IInv, Idles

\* and after a step.
LEMMA IInvNext ==
  ASSUME NEW W, IInv(W), [Next]_vars
  PROVE  IInv(W)'
<1>1. Counts'
  BY CountsKept DEF IInv
<1> SUFFICES Idles(W)' /\ Carries(W, wire, Ons)'
  BY <1>1 DEF IInv
<1>2. CASE Tick
  BY <1>2, TickKeeps
<1>3. ASSUME NEW r \in Router, StartUp(r)
      PROVE  Idles(W)' /\ Carries(W, wire, Ons)'
  BY <1>3, StartUpKeeps
<1>4. ASSUME NEW r \in Router, Update(r)
      PROVE  Idles(W)' /\ Carries(W, wire, Ons)'
  BY <1>4, UpdateKeeps
<1>5. ASSUME NEW r \in Router, TriggeredUpdate(r)
      PROVE  Idles(W)' /\ Carries(W, wire, Ons)'
  BY <1>5, TriggeredUpdateKeeps
<1>6. ASSUME NEW r \in Router, RefreshRoutes(r)
      PROVE  Idles(W)' /\ Carries(W, wire, Ons)'
  BY <1>6, RefreshRoutesKeeps
<1>7. ASSUME NEW r \in Router, Crash(r)
      PROVE  Idles(W)' /\ Carries(W, wire, Ons)'
  BY <1>7, CrashKeeps
<1>8. ASSUME NEW r \in Router, ShutdownNode(r)
      PROVE  Idles(W)' /\ Carries(W, wire, Ons)'
  BY <1>8, ShutdownKeeps
<1>9. ASSUME NEW r \in Router, NodeStart(r)
      PROVE  Idles(W)' /\ Carries(W, wire, Ons)'
  BY <1>9, NodeStartKeeps
<1>10. ASSUME NEW a \in Addr, Receive(a)
       PROVE  Idles(W)' /\ Carries(W, wire, Ons)'
  BY <1>10, ReceiveKeeps
<1>11. ASSUME NEW a \in Addr, Lose(a)
       PROVE  Idles(W)' /\ Carries(W, wire, Ons)'
  BY <1>11, LoseKeeps
<1>12. ASSUME NEW a \in Addr, InterfaceDown(a)
       PROVE  Idles(W)' /\ Carries(W, wire, Ons)'
  BY <1>12, InterfaceDownKeeps
<1>13. ASSUME NEW a \in Addr, InterfaceUp(a)
       PROVE  Idles(W)' /\ Carries(W, wire, Ons)'
  BY <1>13, InterfaceUpKeeps
<1>14. CASE UNCHANGED vars
  BY <1>14 DEF vars, IInv, Idles, Ons, On
<1> QED
  BY <1>2, <1>3, <1>4, <1>5, <1>6, <1>7, <1>8, <1>9, <1>10, <1>11, <1>12, <1>13, <1>14 DEF Next

\* The types of the variables are those of the declarations in RIPRouting.h, and what a handler
\* collects to send or to trigger is gone when it ends.
THEOREM TypeCorrect == Spec => []TypeOK
<1>1. IInv({}) => TypeOK
  <2> SUFFICES ASSUME IInv({})
               PROVE  TypeOK
    OBVIOUS
  <2>1. ASSUME NEW r \in Router
        PROVE  /\ DOMAIN router[r] = DOMAIN OffState
               /\ router[r].status \in {"off", "starting", "on"}
               /\ router[r].rt \subseteq IPv4Route
               /\ \A k \in DOMAIN router[r].ripRoutes : router[r].ripRoutes[k] \in RIPRoute
               /\ router[r].triggered \in BOOLEAN
               /\ router[r].out = <<>> /\ ~router[r].pending
    <3> DEFINE s == router[r]
    <3>1. Idle({}, r, s)
      BY DEF IInv, Idles
    <3> HIDE DEF s
    <3>2. s \in RouterState /\ s.out = <<>> /\ ~s.pending
      BY <3>1 DEF Idle
    <3>3. DOMAIN s = DOMAIN OffState
      BY <3>2 DEF RouterState, OffState
    <3>4. s.ripRoutes \in Seq(RIPRoute) /\ s.rt \subseteq IPv4Route /\ s.triggered \in BOOLEAN
          /\ s.status \in {"off", "starting", "on"}
      BY <3>2, RouterFields
    <3> QED
      BY <3>2, <3>3, <3>4 DEF s
  <2>2. wire \in [Addr -> Seq(RIPPacket)] /\ \A a \in Addr : \A k \in DOMAIN wire[a] : wire[a][k].src \in Addr
    BY DEF IInv, Carries, Honest
  <2>3. up \subseteq Addr /\ updated \subseteq Router /\ used \in [DOMAIN Bound -> Nat]
    BY DEF IInv, Counts
  <2> QED
    BY <2>1, <2>2, <2>3 DEF TypeOK
<1>2. Init => IInv({})
  BY IInvInit
<1>3. IInv({}) /\ [Next]_vars => IInv({})'
  BY IInvNext
<1> QED
  BY <1>1, <1>2, <1>3, PTL DEF Spec

\* Where the costs of the interfaces of a router are level, RIP's routes and the routing table tell
\* the same story after every handler: what updateRoute(), invalidateRoute(), purgeRoute() and
\* receiveChangeNotification() do to one, they do to the other.  The metrics agree for the routes
\* that RIP makes; those of interfaces and static routes are IPv4's own.
THEOREM TablesAlwaysAgree ==
  ASSUME LevelCosts
  PROVE  Spec => []TablesAgree
<1>1. IInv({}) => TablesAgree
  <2> SUFFICES ASSUME IInv({}), NEW r \in Router, On(r)
               PROVE  LET routes == ToSet(router[r].ripRoutes)
                      IN /\ \A q \in routes : q.metric = RIP_INFINITE_METRIC <=> q.route = None
                         /\ \A q \in routes : q.route # None =>
                              /\ q.route \in router[r].rt
                              /\ q.route.dest = q.dest /\ q.route.ie = q.ie
                              /\ q.route.gateway = q.from
                              /\ q.route.source = "rip" => q.route.metric = q.metric
                         /\ \A e \in router[r].rt : \E q \in routes : q.route = e
    BY DEF TablesAgree
  <2> DEFINE f == router[r].ripRoutes
             rt == router[r].rt
  <2>1. Agreed(r, f, rt)
    BY DEF IInv, Idles, Idle, Right, On
  <2> HIDE DEF f, rt
  <2>2. \A k \in DOMAIN f : Matches(f[k], rt)
    BY <2>1 DEF Agreed
  <2>3. \A e \in rt : \E k \in DOMAIN f : f[k].route = e
    BY <2>1 DEF Agreed
  <2>4. ASSUME NEW q \in ToSet(f)
        PROVE  /\ q.metric = RIP_INFINITE_METRIC <=> q.route = None
               /\ q.route # None => /\ q.route \in rt
                                    /\ q.route.dest = q.dest /\ q.route.ie = q.ie
                                    /\ q.route.gateway = q.from
                                    /\ q.route.source = "rip" => q.route.metric = q.metric
    <3>1. PICK k \in DOMAIN f : f[k] = q
      BY DEF ToSet
    <3>2. Matches(q, rt)
      BY <2>2, <3>1
    <3> QED
      BY <3>2 DEF Matches
  <2>5. \A e \in rt : \E q \in ToSet(f) : q.route = e
    BY <2>3 DEF ToSet
  <2> QED
    BY <2>4, <2>5 DEF f, rt
<1>2. Init => IInv({})
  BY IInvInit
<1>3. IInv({}) /\ [Next]_vars => IInv({})'
  BY IInvNext
<1> QED
  BY <1>1, <1>2, <1>3, PTL DEF Spec

\* The ASSERTs of updateRoute() then hold: a route is valid exactly if it has one in the routing table.
THEOREM UpdateAssertsHold ==
  ASSUME LevelCosts
  PROVE  Spec => [](\A r \in Router : ~router[r].failed)
<1>1. IInv({}) => \A r \in Router : ~router[r].failed
  BY DEF IInv, Idles, Idle
<1>2. Init => IInv({})
  BY IInvInit
<1>3. IInv({}) /\ [Next]_vars => IInv({})'
  BY IInvNext
<1> QED
  BY <1>1, <1>2, <1>3, PTL DEF Spec

\* Where routers can learn of one way to every network only, no sequence of losses, late packets,
\* link failures and restarts makes one believe in a way that is longer or shorter: no counting to
\* infinity, by split horizon and the next hop whose word processResponse() takes whatever it is.
THEOREM NoCounting ==
  ASSUME NEW CONSTANT W, OneWay(W)
  PROVE  Spec => []NoCountingToInfinity
<1>1. IInv(W) => NoCountingToInfinity
  <2> SUFFICES ASSUME IInv(W), NEW r \in Router, NEW k \in DOMAIN router[r].ripRoutes
               PROVE  LET q == router[r].ripRoutes[k]
                      IN q.metric \in {Distance(AllWays, r, q.dest), RIP_INFINITE_METRIC}
    BY DEF NoCountingToInfinity
  <2> DEFINE f == router[r].ripRoutes
             q == f[k]
  <2>1. Idle(W, r, router[r])
    BY DEF IInv, Idles
  <2>2. router[r].status = "on"
    <3>1. f = <<>> => k \in {}
      OBVIOUS
    <3>2. f # <<>>
      BY <3>1
    <3>3. router[r].status \in {"off", "starting", "on"}
      BY <2>1, RouterFields DEF Idle
    <3> QED
      BY <2>1, <3>2, <3>3 DEF Idle, Booted
  <2>3. Known(W, r, q)
    BY <2>1, <2>2 DEF Idle, Right
  <2> HIDE DEF q
  <2>4. CASE q.metric # RIP_INFINITE_METRIC
    <3> DEFINE w == <<r, q.dest, q.ie, q.metric>>
    <3>1. w \in W /\ w[1] = r /\ w[2] = q.dest /\ w[4] = q.metric
      BY <2>3, <2>4 DEF Known
    <3> HIDE DEF w
    <3>2. w[4] = Distance(AllWays, w[1], w[2])
      BY <3>1 DEF OneWay
    <3> QED
      BY <3>1, <3>2 DEF q
  <2> QED
    BY <2>4 DEF q
<1>2. Init => IInv(W)
  BY IInvInit
<1>3. IInv(W) /\ [Next]_vars => IInv(W)'
  BY IInvNext
<1> QED
  BY <1>1, <1>2, <1>3, PTL DEF Spec
=============================================================================
