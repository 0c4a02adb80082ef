SPECIFICATION Spec
CONSTANTS
    cuda = cuda
    cpu = cpu
    rocm = rocm
    Keys <- AllKeys
    ListKeys <- Lists
    TableOf <- Tables
    Base <- Defaults
    FlagChoices <- Arguments
    Bodies <- Requests
    Puts = {p1, p2}
    Elements <- Contents
    DefaultRange <- Range0
    Disturbances = {"puts"}
    Wrong = Wrong
    Torn <- NoTOML
    None = None
SYMMETRY Symmetry
INVARIANT SavesAll
