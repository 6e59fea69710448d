--------------------------- MODULE MCAgentControl ---------------------------
(* Instances of AgentControl for TLC.                                       *)
EXTENDS AgentControl, TLC

Symmetries == Permutations(Units) \cup Permutations(Groups) \cup Permutations(Types) \cup Permutations(Texts)
=============================================================================
