SPECIFICATION FileSpec
CONSTANTS
    c1 = c1
    c2 = c2
    c3 = c3
    daemon = daemon
    command = command
    Processes = {daemon, command}
    Calls = {c1, c2}
    Home <- TwoHomes
    Quiet = {}
    Keys = {k1, k2}
    Values = {v1}
    Locked = TRUE
    CallsOverlap = TRUE
    Restarts = FALSE
    Nothing = Nothing
INVARIANT Durable
CHECK_DEADLOCK FALSE
