SPECIFICATION Spec
CONSTANTS
    Threads = {t1, t2}
    Tokens = {k}
    Permissions = {1, 2}
    ExpireDays <- MCExpireDays
    DefaultDays = 1
    Day = 1
    IntMax = 2
    MaxTime = 2
    MaxToken = 2
    Nobody = Nobody
SYMMETRY ThreadSymmetry
INVARIANTS
    TypeOK
    RevokedStaysRevoked
PROPERTIES
    OnlyExpiredArePurged
CHECK_DEADLOCK FALSE
