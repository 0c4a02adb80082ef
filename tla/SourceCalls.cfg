SPECIFICATION Spec
CONSTANTS
    Repos = {r1, r2}
    MaxPush = 2
    Checks = {k1}
    Builds = {b1, b2}
    Overlaps <- EachAlone
    None = None
SYMMETRY Symmetry
INVARIANTS FlagAgrees OwnCommits WantedIsFetched
CHECK_DEADLOCK FALSE
