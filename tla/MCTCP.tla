------------------------------- MODULE MCTCP --------------------------------
(* Instances of TCPEndpoints for TLC *)
EXTENDS TCPEndpoints

Both == {A, B}
OnlyA == {A}
OnlyB == {B}
Nobody == {}
OneEach == [e \in {A, B} |-> 1]
TwoFromA == [e \in {A, B} |-> IF e = A THEN 2 ELSE 0]
ThreeOne == [e \in {A, B} |-> IF e = A THEN 3 ELSE 1]
TwoTwo == [e \in {A, B} |-> 2]
TwoOne == [e \in {A, B} |-> IF e = A THEN 2 ELSE 1]
=============================================================================
