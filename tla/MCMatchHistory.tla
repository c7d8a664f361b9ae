--------------------------- MODULE MCMatchHistory ---------------------------
(* Instances of MatchHistory for TLC.                                        *)
EXTENDS MatchHistory, TLC

Symmetry == Permutations(Requests)
============================================================================
