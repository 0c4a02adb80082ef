SPECIFICATION SafetySpec
CONSTANTS
    Jobs = {j1}
    Sources = {s1}
    Commits = {c1}
    Backends = {b1}
    Slots = 1
    Removals = FALSE
    Restarts = FALSE
    OverlongLines = FALSE
    None = None
SYMMETRY Symmetry
PROPERTY CanceledNeverSucceeds
