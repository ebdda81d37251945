------------------------------ MODULE MCAlerts ------------------------------
(* Small instances of Alerts for TLC. *)
EXTENDS Alerts, TLC

CONSTANTS c1, c2, o1, o2, a1, a2, w1, w2

Symmetry == Permutations(Observers) \cup Permutations(Workers)
              \cup Permutations(Subjects) \cup Permutations(Operators)
=============================================================================
