--------------------------- MODULE MCOwnedMemory ---------------------------
(* The owning handles for TLC: an arena of eight bytes at an odd address   *)
(* that ends below the top of the address space, and a heap of twelve.     *)
EXTENDS OwnedMemory, TLC

CONSTANTS h1, h2, h3

MCHandles == {h1, h2, h3}
Symmetry == Permutations(MCHandles)
=============================================================================
