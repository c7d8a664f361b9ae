---------------------------- MODULE MCTimedCache ----------------------------
(* Instances of TimedCache for TLC.                                          *)
EXTENDS TimedCache, TLC

Symmetry == Permutations(Callers) \cup Permutations(Keys)
=============================================================================
