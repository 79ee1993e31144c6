-------------------------- MODULE MCCheckedProgram --------------------------
(* The checked program for TLC: blocks of 4 bytes with a length of 2, bytes  *)
(* of 3 bits and words of 6, so that a message of 8 bytes is too long.       *)
EXTENDS CheckedProgram

CONSTANTS main, other, a, b
TwoThreads == {main, other}
TwoCells == {a, b}
BothThrow == {"value", "reason"}
NineBytes == <<5, 0, 4, 3, 7, 4, 1, 6, 2>>
=============================================================================
