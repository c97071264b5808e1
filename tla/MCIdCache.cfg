SPECIFICATION Spec
CONSTANTS
    Names = {a, b}
    Times <- MCTimes
    MaxSpace = 2
    MaxVersion = 3
    MaxIndex = 1
SYMMETRY NameSymmetry
INVARIANTS
    VersionLookupsCurrent
    DefaultLookupsCurrent
    IndexLookupsCurrent
CHECK_DEADLOCK FALSE
