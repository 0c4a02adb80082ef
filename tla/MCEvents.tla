------------------------------ MODULE MCEvents ------------------------------
(* Instances of Events for TLC. *)
EXTENDS Events, TLC

\* Nothing in the modules orders goroutines of a kind, or browsers.
Symmetry == Permutations(Jobs) \cup Permutations(Callbacks) \cup Permutations(Browsers)
=============================================================================
