---------------------------- MODULE MCGameSession ----------------------------
(* Instances of GameSession for TLC: one tuning op with two settings.       *)
EXTENDS GameSession, TLC
=============================================================================
