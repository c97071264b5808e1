SPECIFICATION DocSpec
CONSTANTS
    Keys = {"a", "b"}
    Values = {9, 12}
    Formulas <- MCFormulas
    Rows <- MCRows
    Versions = {u, w}
    Uids = {1, 2}
    Threads = {t1, t2}
    Requests <- MCRequests
    MaxCalls = 3
    MaxVector = 2
    MaxDocuments = 2
    MaxLength = 2
    NoCall = NoCall
SYMMETRY MCSymmetry
INVARIANTS
    DocsTypeOK
    FilterAgrees
    ListingsStayInVersion
    LatestDocRanks
PROPERTIES
    UpsertsStayWhole
CHECK_DEADLOCK FALSE
