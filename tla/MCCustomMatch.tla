--------------------------- MODULE MCCustomMatch ---------------------------
(* Instances of CustomMatch for TLC.                                         *)
EXTENDS CustomMatch, TLC

Symmetry == Permutations(Calls)
============================================================================
