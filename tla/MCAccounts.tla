----------------------------- MODULE MCAccounts -----------------------------
(* Small instances of Accounts for TLC. *)
EXTENDS Accounts, TLC

CONSTANTS u1, u2, p1, p2, t1, t2, r1, r2

Symmetry == Permutations(Users) \cup Permutations(Passwords)
              \cup Permutations(Tokens) \cup Permutations(Requests)
=============================================================================
