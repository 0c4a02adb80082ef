SPECIFICATION FileSpec
CONSTANTS
    c1 = c1
    c2 = c2
    c3 = c3
    daemon = daemon
    command = command
    Processes = {daemon}
    Calls = {c1, c2}
    Home <- OneHome
    Quiet = {}
    Keys = {k1, k2}
    Values = {v1}
    Locked = FALSE
    CallsOverlap = TRUE
    Restarts = FALSE
    Nothing = Nothing
SYMMETRY Symmetry
INVARIANT AlwaysLoads
CHECK_DEADLOCK FALSE
