SPECIFICATION Spec
CONSTANTS
    cuda = cuda
    cpu = cpu
    rocm = rocm
    Keys <- AllKeys
    ListKeys <- Lists
    TableOf <- Tables
    Base <- Defaults
    FlagChoices <- Arguments
    Bodies <- Requests
    Puts = {p1, p2, p3}
    Elements <- Contents
    DefaultRange <- Range0
    Disturbances = {"nothing", "puts", "kills", "failures"}
    Wrong = Wrong
    Torn <- NoTOML
    None = None
SYMMETRY Symmetry
INVARIANTS SavedIsLive RangeFollows LayersHold StartsAgain
