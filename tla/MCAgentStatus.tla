--------------------------- MODULE MCAgentStatus ----------------------------
(* Instances of AgentStatus for TLC. *)
EXTENDS AgentStatus, TLC

CONSTANTS h1, h2

Symmetric == Permutations({h1, h2})
=============================================================================
