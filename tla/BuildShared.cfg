SPECIFICATION SafetySpec
CONSTANTS
    Jobs = {j1, j2}
    Sources = {s1}
    Commits = {c1, c2}
    Backends = {b1}
    Slots = 2
    Removals = FALSE
    Restarts = FALSE
    OverlongLines = FALSE
    None = None
SYMMETRY Symmetry
INVARIANT ManifestFaithful
