--------------------------- MODULE MCModelGateway ---------------------------
(* Small instances of ModelGateway for TLC. *)
EXTENDS ModelGateway, TLC

CONSTANTS r1, r2, s1, s2, k1, k2, e1, e2, e3

Symmetry == Permutations(Requests) \cup Permutations(Keys) \cup Permutations(Entries)
=============================================================================
