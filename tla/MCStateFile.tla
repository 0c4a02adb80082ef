---------------------------- MODULE MCStateFile -----------------------------
(* Instances of StateFile for TLC. *)
EXTENDS StateFile, TLC

CONSTANTS c1, c2, c3, daemon, command

OneHome  == [c \in Calls |-> daemon]
TwoHomes == [c \in Calls |-> IF c = c1 THEN command ELSE daemon]

\* Keys and values are never ordered; nor are calls of one process and kind.
Symmetry == Permutations(Calls \ Quiet) \cup Permutations(Quiet) \cup Permutations(Keys)
=============================================================================
