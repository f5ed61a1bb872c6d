------------------------- MODULE MCRuntimeDispatch -------------------------
(* Small instances of RuntimeDispatch for TLC.                             *)
EXTENDS RuntimeDispatch, TLC

CONSTANTS r1, r2, w1, w2

Symmetric == Permutations(Runners) \cup Permutations(Workers)
=============================================================================
