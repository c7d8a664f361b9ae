--------------------------- MODULE MCDataPrivacy ---------------------------
(* Instance of DataPrivacy for TLC.                                          *)
EXTENDS DataPrivacy, TLC

Symmetry == Permutations(Handlers) \cup Permutations(Lookups)
============================================================================
