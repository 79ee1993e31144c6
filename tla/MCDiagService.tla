--------------------------- MODULE MCDiagService ---------------------------
(* The diagnostics service for TLC: two producers, which the invariants do   *)
(* not tell apart.                                                           *)
EXTENDS DiagService, TLC

CONSTANTS p1, p2
TwoProducers == {p1, p2}
Symmetry == Permutations(TwoProducers)
=============================================================================
