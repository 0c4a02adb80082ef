SPECIFICATION Spec
CONSTANTS
    Jobs = {j1, j2}
    Sources = {s1}
    Commits = {c1, c2}
    Backends = {b1}
    Slots = 1
    Removals = TRUE
    Restarts = TRUE
    OverlongLines = TRUE
    None = None
INVARIANTS RuntimesFaithful CommitHonoured SlotAccounting
PROPERTIES OutcomeIsFinal JobsEnd
