------------------------------ MODULE MCOAuth ------------------------------
(* Small instances of OAuth for TLC. *)
EXTENDS OAuth, TLC

CONSTANTS h1, h2, st1, st2

Symmetry == Permutations(Handlers) \cup Permutations(States)
=============================================================================
