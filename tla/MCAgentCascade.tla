--------------------------- MODULE MCAgentCascade ---------------------------
(* AgentCascade for TLC.                                                     *)
EXTENDS AgentCascade, TLC

Sym == Permutations(Agent \ Started) \cup Permutations(Handler)
=============================================================================
