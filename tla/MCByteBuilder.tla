--------------------------- MODULE MCByteBuilder ---------------------------
(* The byte builder for TLC: bytes of two values, scalars of two and four    *)
(* bytes, sizes below eight.                                                 *)
EXTENDS ByteBuilder, TLC

CONSTANTS b1, b2

MCBuilders == {b1, b2}
MCSpans == {<<>>, <<1>>, <<1, 0, 1>>, <<0, 0, 0, 0, 0, 0, 1>>}
Symmetry == Permutations(MCBuilders)
=============================================================================
