SPECIFICATION FileSpec
CONSTANTS
    c1 = c1
    c2 = c2
    c3 = c3
    daemon = daemon
    command = command
    Processes = {daemon}
    Calls = {c1, c2, c3}
    Home <- OneHome
    Quiet = {c3}
    Keys = {k1, k2}
    Values = {v1}
    Locked = TRUE
    CallsOverlap = TRUE
    Restarts = TRUE
    Nothing = Nothing
SYMMETRY Symmetry
INVARIANTS AlwaysLoads Durable
CHECK_DEADLOCK FALSE
