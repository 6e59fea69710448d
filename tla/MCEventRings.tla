---------------------------- MODULE MCEventRings ----------------------------
(* Instances of EventRings for TLC.                                         *)
EXTENDS EventRings, TLC

PlayerSymmetry == Permutations(Players)
=============================================================================
