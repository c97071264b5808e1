SPECIFICATION Spec
CONSTANTS
    Threads = {t1}
    Tokens = {k}
    Permissions = {1, 2}
    ExpireDays <- MCExpireDays
    DefaultDays = 1
    Day = 1
    IntMax = 2
    MaxTime = 2
    MaxToken = 2
    Nobody = Nobody
INVARIANTS
    DeletedTokenThrows
CHECK_DEADLOCK FALSE
