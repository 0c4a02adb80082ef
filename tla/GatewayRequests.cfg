SPECIFICATION GatewaySpec
CONSTANTS
    m1 = m1
    m2 = m2
    n1 = n1
    n2 = n2
    Models = {m1, m2}
    Loads = {l1, l2}
    Unloads = {u1}
    PortRanges <- OneRange
    Overlap = {}
    OverlongLines = FALSE
    None = None
    Requests = {r1}
    Names = {n1, n2}
    NameOf <- OwnNames
    Unknown = Unknown
SYMMETRY Symmetry
INVARIANTS AnsweredByChosen NoOrphan FailedLoadLeavesNothing ShutdownStopsAll PortsDistinct
