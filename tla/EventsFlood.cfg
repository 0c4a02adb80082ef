SPECIFICATION Spec
CONSTANTS
    Jobs = {j1}
    Callbacks = {}
    Handlers = {}
    Browsers = {}
    Readers = {"cmdBuild"}
    EngineCapacity = 2
    ServerCapacity = 1
    MaxEvents = 3
    Leaves = FALSE
    None = None
PROPERTIES BuildIsReported
CHECK_DEADLOCK FALSE
