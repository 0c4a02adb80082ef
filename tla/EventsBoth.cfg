SPECIFICATION Spec
CONSTANTS
    Jobs = {j1}
    Callbacks = {w1}
    Handlers = {h1}
    Browsers = {b1}
    Readers = {"forwarder", "cmdBuild"}
    EngineCapacity = 2
    ServerCapacity = 1
    MaxEvents = 2
    Leaves = TRUE
    None = None
INVARIANT InOrder
PROPERTIES BroadcastsEnd CommandReturns
CHECK_DEADLOCK FALSE
