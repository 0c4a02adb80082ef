SPECIFICATION Spec
CONSTANTS
    Width = 6
    MaxStringLen = 8
    Files <- Everything
    Name <- NameOf
    WalkOrder <- InOrder
    HiddenDirs <- Hidden
    App <- AppDir
    Drive <- DriveDir
    Contents <- Usual
    Changing <- Movable
    Downloaded = "solo"
    SourceSets <- Reachable
    Rescans = {r1}
    Overlap = FALSE
    MaxChanges = 2
    None = None
INVARIANTS RescanCurrent ReadsAsWritten
PROPERTIES StartKeepsModels
