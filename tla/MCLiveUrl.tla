------------------------------ MODULE MCLiveUrl ------------------------------
(* An instance of LiveUrl for TLC.                                           *)
EXTENDS LiveUrl, TLC

Ids == 1..2
=============================================================================
