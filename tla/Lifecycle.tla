------------------------------ MODULE Lifecycle ------------------------------
(***************************************************************************)
(* What the supervisor promises a client that only watches the status      *)
(* reported for each model (supervisor.List, Get and the OnChange          *)
(* callback): the entry of a model appears as "loading", is resolved to    *)
(* "ready" or "error", never leaves "error" except by being removed, and   *)
(* never goes back to "loading" while it is listed.                        *)
(***************************************************************************)

CONSTANT Models          \* the models that can be loaded

VARIABLE slot            \* slot[m]: the status listed for m, or "absent"

Statuses == {"absent", "loading", "ready", "error"}

Init == slot = [m \in Models |-> "absent"]

Set(m, from, to) ==
    /\ slot[m] \in from
    /\ slot' = [slot EXCEPT ![m] = to]

Appear(m)      == Set(m, {"absent"}, "loading")
BecomeReady(m) == Set(m, {"loading"}, "ready")
Fail(m)        == Set(m, {"loading", "ready"}, "error")
Remove(m)      == Set(m, {"loading", "ready", "error"}, "absent")

Next == \E m \in Models : Appear(m) \/ BecomeReady(m) \/ Fail(m) \/ Remove(m)

\* A load is never left undecided: it succeeds, fails or is removed.
Resolve(m) == slot[m] = "loading" /\ (BecomeReady(m) \/ Fail(m) \/ Remove(m))

Spec == Init /\ [][Next]_slot /\ \A m \in Models : WF_slot(Resolve(m))
=============================================================================
