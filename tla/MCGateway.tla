----------------------------- MODULE MCGateway ------------------------------
(* Instances of Gateway for TLC. *)
EXTENDS Gateway, TLC

CONSTANTS m1, m2, n1, n2

OneRange  == {[lo |-> 1, hi |-> 2]}
OwnNames  == (m1 :> n1) @@ (m2 :> n2)
\* Two files of one name in two directories.
SameNames == (m1 :> n1) @@ (m2 :> n1)

Symmetry == Permutations(Loads)
=============================================================================
