SPECIFICATION SnapSpec
CONSTANTS
    Names = {a}
    Vectors = {x}
    FileNames = {f}
    MaxSpace = 1
    MaxExtracted = 1
    MaxRelease = 2
    Repeatable = {}
    InMemory = FALSE
    NoCall = NoCall
INVARIANTS
    SnapTypeOK
    VersionRecordsScripts
    Openable
    CachesOfThisDatabase
PROPERTIES
    OpenedIsCurrent
    FirstRestoreExact
    RestoredIsSearchable
    CreateLosesNothing
