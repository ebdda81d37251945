----------------------------- MODULE MCCatalog -----------------------------
(* Small instances of Catalog for TLC. *)
EXTENDS Catalog, TLC

CONSTANTS a1, c1, c2, n1, n2, s1, s2, s3, h1, h2

Symmetry == Permutations(Slugs) \cup Permutations(Handlers)
=============================================================================
