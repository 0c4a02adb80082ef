SPECIFICATION Spec
CONSTANTS
    Pids = {p1, p2}
    Starts = {s1, s2}
    Stops = {t1}
    MaxKids = 1
    MaxFaults = 1
    Concurrent = FALSE
    InService = FALSE
    None = None
INVARIANTS StartedIsNamed
PROPERTIES StopIsTrue GivesUpForCause OrderlyExit ShutdownEnds RestartServes
CHECK_DEADLOCK FALSE
