SPECIFICATION Spec
CONSTANTS
    Models = {m1, m2}
    Loads = {l1, l2}
    Unloads = {}
    PortRanges <- OneRange
    Overlap = {}
    OverlongLines = TRUE
    None = None
PROPERTY ShutdownStopsEvery
