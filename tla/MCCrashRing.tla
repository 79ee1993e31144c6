---------------------------- MODULE MCCrashRing ----------------------------
(* The crash ring for TLC: two slots and a word of three bits, so that the *)
(* third reservation reuses slot 0 and is the last before saturation.      *)
EXTENDS CrashRing, TLC

CONSTANTS w1, w2, p1, e1, e2

TwoWriters == {w1, w2}
OneInspector == {p1}
TwoEvents == {e1, e2}
AskedWindows == {0, 1, 3}

Symmetry == Permutations(Writers) \cup Permutations(Events)
=============================================================================
