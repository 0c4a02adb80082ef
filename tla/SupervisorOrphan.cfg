SPECIFICATION SafetySpec
CONSTANTS
    Models = {m1}
    Loads = {l1}
    Unloads = {u1}
    PortRanges <- OnePort
    Overlap = {"model"}
    OverlongLines = FALSE
    None = None
SYMMETRY Symmetry
INVARIANT UnloadedIsStopped
