----------------------------- MODULE MCToolCalls -----------------------------
(* Small instances of ToolCalls for TLC. *)
EXTENDS ToolCalls

CONSTANT c1
=============================================================================
