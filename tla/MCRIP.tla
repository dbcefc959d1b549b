------------------------------- MODULE MCRIP --------------------------------
(* Instances of RIP for TLC *)
EXTENDS RIP

CONSTANTS A, B, C, lan, stub, hosts, far
\* three neighbours on a LAN: A has a stub network, and C too in StubsIfaces
LanIfaces == (A :> <<stub, lan>>) @@ (B :> <<lan>>) @@ (C :> <<lan>>)
StubsIfaces == (A :> <<stub, lan>>) @@ (B :> <<lan>>) @@ (C :> <<lan, hosts>>)
Cost1 == [a \in Addr |-> 1]
\* the default of IPv4 for 100 Mbit/s
Link20 == [a \in Addr |-> 20]
Poisoned == [a \in Addr |-> "SplitHorizonPoisonedReverse"]
\* B keeps split horizon without poison, the stub network of A speaks no RIP
Mixed == [a \in Addr |-> CASE a[1] = B -> "SplitHorizon" [] a[2] = stub -> "NoRIP"
                            [] OTHER -> "SplitHorizonPoisonedReverse"]
NoStatic == {}
\* A knows a network behind its stub
StubStatic == {<<A, far, stub, 0>>}
\* What routers can learn: to begin with, then by one more packet for every metric below infinity
Beginnings == {<<a[1], a[2], a[2], Cost[a]>> : a \in Addr} \cup {<<t[1], t[2], t[3], 1>> : t \in Static}
Tellings(w) == {<<a[1], w[2], a[2], w[4] + Cost[a]>> : a \in
              {b \in Addr : b[1] # w[1] /\ <<w[1], b[2]>> \in Addr
                              /\ (w[3] = b[2] => ~Splits(<<w[1], b[2]>>))
                              /\ w[4] + Cost[b] < RIP_INFINITE_METRIC}}
Learned == FoldLeft(LAMBDA W, m : W \cup UNION {Tellings(w) : w \in W}, Beginnings,
                    [m \in Metric |-> m])

\* There is one way to every network: what theorem NoCounting of RIPProofs asks of a net.
ASSUME OneWayInInstance == OneWay(Learned)
=============================================================================
