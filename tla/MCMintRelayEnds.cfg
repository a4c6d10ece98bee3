SPECIFICATION FairSpec
CONSTANTS
    s1 = s1
    s2 = s2
    Passes = {s1}
    Payments = {1, 2}
    Buyer <- OneBuyer
    Allowance = 1
    MaxPerWallet = 2
    MaxAttempts = 1
    BatchLimit = 1
    Doubtful = {}
    SlowPasses = FALSE
    Budget <- OneCrash
INVARIANTS AllowanceKept
PROPERTIES EverySaleEnds KeepsSale
CHECK_DEADLOCK FALSE
