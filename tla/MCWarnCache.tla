----------------------------- MODULE MCWarnCache -----------------------------
(***************************************************************************)
(* Three requests sharing a cache of two warnings out of four, so that     *)
(* lookups race, the cache fills, and evicted warnings come back.          *)
(***************************************************************************)
EXTENDS WarnCache, TLC

CONSTANTS r1, r2, r3, w1, w2, w3, w4

MCCallers == {r1, r2, r3}
MCWarnings == {w1, w2, w3, w4}

\* Neither requests nor warnings are told apart.
Symmetry == Permutations(MCCallers) \cup Permutations(MCWarnings)
=============================================================================
