SPECIFICATION NamesSpec
CONSTANTS
    Names = {a}
    Times <- MCTimes
    MaxSpace = 1
    MaxVersion = 2
    MaxIndex = 1
    Threads = {t1, t2}
    Nobody = Nobody
    AnySpaces = 1
    AnyVersions = 1
    NamesSpaces = 1
SYMMETRY ThreadSymmetry
INVARIANTS
    DefaultCurrentWhenQuiet
CHECK_DEADLOCK FALSE
