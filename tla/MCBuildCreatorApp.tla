------------------------- MODULE MCBuildCreatorApp -------------------------
(* Instances of BuildCreatorApp for TLC.                                     *)
EXTENDS BuildCreatorApp, TLC

Symmetry == Permutations(Heroes)
============================================================================
