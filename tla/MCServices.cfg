SPECIFICATION ServicesSpec
CONSTANTS
    Names = {a, b}
    Times <- MCTimes
    MaxSpace = 2
    MaxVersion = 2
    MaxIndex = 2
    Clients = {c, d}
    NoName = NoName
    MaxExtra = 0
    MaxUpdates = 1
SYMMETRY ServicesSymmetry
INVARIANTS
    ServicesTypeOK
    FoundStillNamed
    CreatedResolves
PROPERTIES
    DefaultIndexKept
CHECK_DEADLOCK FALSE
