--------------------------- MODULE MCAgentTokens ---------------------------
(* Small instances of AgentTokens for TLC. *)
EXTENDS AgentTokens, TLC

CONSTANTS config, env, i1, i2

\* Import requests are alike.
Symmetric == Permutations(Importers)
=============================================================================
