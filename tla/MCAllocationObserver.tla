------------------------ MODULE MCAllocationObserver ------------------------
(* The allocation observer for TLC: two threads, blocks of one and two bytes. *)
EXTENDS AllocationObserver, TLC

CONSTANTS t1, t2

MCThreads == {t1, t2}
Symmetry == Permutations(MCThreads)
=============================================================================
