--------------------------- MODULE MCBuildEngine ----------------------------
(* Instances of BuildEngine for TLC. *)
EXTENDS BuildEngine, TLC

\* Nothing in the module orders jobs, commits or backends.
Symmetry == Permutations(Jobs) \cup Permutations(Commits) \cup Permutations(Backends)
=============================================================================
