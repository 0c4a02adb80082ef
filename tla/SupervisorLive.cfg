SPECIFICATION Spec
CONSTANTS
    Models = {m1}
    Loads = {1, 2}
    Unloads = {u1}
    PortRanges <- OnePort
    Overlap = {"model", "shutdown"}
    OverlongLines = TRUE
    None = None
CONSTRAINT Bounds
INVARIANTS TypeOK CrashRecorded
PROPERTIES LifecycleSpec CrashShows ShutdownReturns
