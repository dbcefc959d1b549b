------------------------------ MODULE ARPQueue ------------------------------
(***************************************************************************)
(* What IPv4 and ARP promise about the datagrams of a node for a next hop  *)
(* on the LAN: they leave in the order in which they were handed over,     *)
(* none of them twice; one that has to wait leaves with all that wait      *)
(* before it, or is dropped with all that wait beside it.  Whether a       *)
(* datagram waits, and how long, is not promised.                          *)
(***************************************************************************)
EXTENDS Naturals, Sequences

CONSTANTS Host, Addr

VARIABLES
  submitted,              \* how many datagrams each host has had for each next hop
  waiting,                \* the ones held back, oldest first
  sent                    \* the ones that left, in the order they did

vars == <<submitted, waiting, sent>>

Init ==
  /\ submitted = [h \in Host |-> [a \in Addr |-> 0]]
  /\ waiting = [h \in Host |-> [a \in Addr |-> <<>>]]
  /\ sent = [h \in Host |-> [a \in Addr |-> <<>>]]

\* Datagrams are numbered as they come
Pass(h, a) ==
  /\ waiting[h][a] = <<>>
  /\ submitted' = [submitted EXCEPT ![h][a] = @ + 1]
  /\ sent' = [sent EXCEPT ![h][a] = Append(@, submitted[h][a])]
  /\ UNCHANGED waiting

Hold(h, a) ==
  /\ submitted' = [submitted EXCEPT ![h][a] = @ + 1]
  /\ waiting' = [waiting EXCEPT ![h][a] = Append(@, submitted[h][a])]
  /\ UNCHANGED sent

Release(h, a) ==
  /\ sent' = [sent EXCEPT ![h][a] = @ \o waiting[h][a]]
  /\ waiting' = [waiting EXCEPT ![h][a] = <<>>]
  /\ UNCHANGED submitted

Drop(h, a) ==
  /\ waiting' = [waiting EXCEPT ![h][a] = <<>>]
  /\ UNCHANGED <<submitted, sent>>

DropAll(h) ==
  /\ waiting' = [waiting EXCEPT ![h] = [a \in Addr |-> <<>>]]
  /\ UNCHANGED <<submitted, sent>>

Next == \E h \in Host : \/ DropAll(h)
                        \/ \E a \in Addr : Pass(h, a) \/ Hold(h, a) \/ Release(h, a) \/ Drop(h, a)
Spec == Init /\ [][Next]_vars
=============================================================================
