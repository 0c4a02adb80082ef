---------------------------- MODULE MCSupervisor ----------------------------
(* Instances of Supervisor for TLC. *)
EXTENDS Supervisor, TLC

OnePort    == {[lo |-> 1, hi |-> 1]}
OneRange   == {[lo |-> 1, hi |-> 2]}
\* And one inside it, that SetPortRange may change to and back.
SomeRanges == {[lo |-> 1, hi |-> 2], [lo |-> 2, hi |-> 2]}

\* Calls and models are interchangeable; ports are not, they are scanned in order.
Symmetry == Permutations(Models) \cup Permutations(Loads) \cup Permutations(Unloads)

\* Bounds of SupervisorLive, whose Loads are numbers and used in their order: two
\* calls at a time, of which Shutdown is one from its beginning on, and one jam.
\* Only steps without fairness, the beginning of a call and a jam, can exceed
\* them, so no behaviour is left out for what has to happen in it.
MaxCalls == 2
MaxJams  == 1
InTurn   == \A k, l \in Loads : k < l /\ loadPc[l] # "idle" => loadPc[k] # "idle"
Bounds ==
    /\ InTurn
    /\ Cardinality({l \in Loads : ActiveLoad(l)}) + Cardinality({u \in Unloads : ActiveUnload(u)})
          + (IF shutPc = "idle" THEN 0 ELSE 1) <= MaxCalls
    /\ Cardinality({l \in Loads : jammed[l]}) <= MaxJams
=============================================================================
