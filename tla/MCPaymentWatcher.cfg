SPECIFICATION Spec
CONSTANTS
    t1 = t1
    s1 = s1
    s2 = s2
    Transfers = {t1}
    Passes = {s1, s2}
    MaxBlock = 3
    Confirmations = 1
    StartBlock = 1
    StartWindow = 1
    MaxCatchup = 2
    MaxBlocksPerPass = 1
    AuditWindow = 0
    Budget <- Overlap
SYMMETRY AnyPass
INVARIANTS NothingFromTheTip CursorCovers
