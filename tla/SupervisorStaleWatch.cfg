SPECIFICATION SafetySpec
CONSTANTS
    Models = {m1}
    Loads = {l1, l2}
    Unloads = {u1}
    PortRanges <- OnePort
    Overlap = {}
    OverlongLines = FALSE
    None = None
SYMMETRY Symmetry
PROPERTY ReadyFailsOnlyOnCrash
