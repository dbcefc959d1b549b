------------------------------- MODULE MCARP -------------------------------
(* Two hosts; b answers for an address behind it, too, nobody for the last one *)
EXTENDS ARP, TLC

CONSTANTS a, b, A, B, Behind, Unused
AddressOf == (a :> A) @@ (b :> B)
AnswersFor == (a :> {A}) @@ (b :> {B, Behind})
Exchange == {<<a, Behind>>, <<b, A>>, <<a, Unused>>}
TwoThenOne == [f \in Exchange |-> IF f[2] = Behind THEN 2 ELSE 1]
=============================================================================
