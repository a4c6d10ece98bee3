SPECIFICATION Spec
CONSTANTS
    s1 = s1
    s2 = s2
    Passes = {s1, s2}
    Payments = {1}
    Buyer <- Lone
    Allowance = 1
    MaxPerWallet = 1
    MaxAttempts = 2
    BatchLimit = 1
    Doubtful = {1}
    SlowPasses = FALSE
    Budget <- Overlap
SYMMETRY AnyPass
INVARIANTS TypeOK RowsHeldOnce MintedIsBacked
PROPERTIES FinalStays
CHECK_DEADLOCK FALSE
