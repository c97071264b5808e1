SPECIFICATION StoreSpec
CONSTANTS
    Embeddings = {x}
    Capacities = {1, 2}
    MaxIndex = 2
    MaxVector = 2
    MaxEntries = 2
    Torn = Torn
    Requests <- MCWithValues
INVARIANTS
    StoreTypeOK
    UidNamesOneVector
    SearchExact
PROPERTIES
    FirstAddReindexes
    AddedIsSearchable
CHECK_DEADLOCK FALSE
