SPECIFICATION FairThreadSpec
CONSTANTS
    Names = {a}
    Times <- MCTimes
    MaxSpace = 2
    MaxVersion = 2
    MaxIndex = 1
    Threads = {t1, t2}
    Nobody = Nobody
    AnySpaces = 1
    AnyVersions = 1
    NamesSpaces = 1
INVARIANTS
    MutexesMatchCalls
    OnlyIndexLookupDeadlocks
    DeletedSpaceForgotten
PROPERTIES
    SomeCallEnds
CHECK_DEADLOCK FALSE
