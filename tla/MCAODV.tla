------------------------------ MODULE MCAODV -------------------------------
(* Instances of AODV for TLC *)
EXTENDS AODV

CONSTANTS A, B, C, D, E
Both(S) == S \cup {<<l[2], l[1]>> : l \in S}
None == {}
Line3 == Both({<<A, B>>, <<B, C>>})
\* a triangle with D hanging off A
Kite == Both({<<A, B>>, <<B, C>>, <<A, C>>, <<A, D>>})
\* a diamond with A hanging off it: B reaches E by C or by D
Diamond == Both({<<A, B>>, <<B, C>>, <<B, D>>, <<C, E>>, <<D, E>>})
AtoC == {<<A, C>>}
AtoE == {<<A, E>>}
ABtoD == {<<A, D>>, <<B, D>>}
AB == {<<A, B>>}
=============================================================================
