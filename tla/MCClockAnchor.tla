---------------------------- MODULE MCClockAnchor ----------------------------
(* Instances of ClockAnchor for TLC.                                        *)
EXTENDS ClockAnchor, TLC

\* Writers may be exchanged.
WriterSymmetry == Permutations(Writers)
=============================================================================
