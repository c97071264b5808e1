SPECIFICATION GrowSpec
CONSTANTS
    Embeddings = {x, y}
    Capacities = {1}
    MaxIndex = 2
    MaxVector = 3
    MaxEntries = 3
    Torn = Torn
    Requests <- MCRequests
SYMMETRY EmbeddingSymmetry
PROPERTIES
    SnapshotHasVectors
CHECK_DEADLOCK FALSE
