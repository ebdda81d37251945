------------------------------- MODULE MCHost -------------------------------
(* Small instances of Host for TLC. *)
EXTENDS Host, TLC

CONSTANTS m1, d1, s1
=============================================================================
