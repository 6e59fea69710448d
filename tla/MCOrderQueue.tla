---------------------------- MODULE MCOrderQueue ----------------------------
(* Instances of OrderQueue for TLC: two workers of a player, and a shop.    *)
EXTENDS OrderQueue

CONSTANTS p1, nobody, u1, u2, v1, s1, s2

MCOwner == [u \in {u1, u2, v1} |-> IF u = v1 THEN nobody ELSE p1]

\* Workers of one player, and grounds, are alike.
Symmetry == {f @@ g : f \in Permutations({u1, u2}), g \in Permutations({s1, s2})}
=============================================================================
