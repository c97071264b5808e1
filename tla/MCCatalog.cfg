SPECIFICATION CatalogSpec
CONSTANTS
    Names = {a}
    Times <- MCTimes
    MaxSpace = 2
    MaxVersion = 3
    MaxIndex = 2
INVARIANTS
    CatalogTypeOK
    OneDefaultVersion
    UidNamesOneVersion
    OneDefaultIndex
PROPERTIES
    DefaultVersionKept
    DeadIdsStayDead
    VersionsAreASelection
    IndexesAreASelection
CHECK_DEADLOCK FALSE
