--------------------------- MODULE MCRotatingSink ---------------------------
(* The rotating file family for TLC: messages of up to three characters, and *)
(* a line fills the line buffer and the bound, or half of them.              *)
EXTENDS RotatingSink

Framing == {3, 4}
Sizes == {4, 8}
=============================================================================
