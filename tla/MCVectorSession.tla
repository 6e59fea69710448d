--------------------------- MODULE MCVectorSession ---------------------------
(* Instances of VectorSession for TLC.                                      *)
EXTENDS VectorSession
=============================================================================
