SPECIFICATION SafetySpec
CONSTANTS
    Jobs = {}
    Callbacks = {w1}
    Handlers = {}
    Browsers = {b1}
    Readers = {"forwarder"}
    EngineCapacity = 1
    ServerCapacity = 1
    MaxEvents = 2
    Leaves = TRUE
    None = None
INVARIANT LeavingIsHarmless
CHECK_DEADLOCK FALSE
