----------------------------- MODULE MCStepLoop -----------------------------
(* Instances of StepLoop for TLC.                                           *)
EXTENDS StepLoop, TLC

AgentSymmetry == Permutations(Agents)
=============================================================================
