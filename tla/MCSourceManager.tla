-------------------------- MODULE MCSourceManager ---------------------------
(* Instances of SourceManager for TLC. *)
EXTENDS SourceManager, TLC

\* Calls one after the other; beside pushes; beside each other; beside edits.
EachAlone == {{}, {"pushes"}, {"calls"}, {"edits"}}

\* Calls of a kind and repositories are interchangeable; commits are ordered.
Symmetry == Permutations(Repos) \cup Permutations(Checks) \cup Permutations(Builds)
=============================================================================
