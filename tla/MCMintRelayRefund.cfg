SPECIFICATION Spec
CONSTANTS
    s1 = s1
    s2 = s2
    Passes = {s1}
    Payments = {1}
    Buyer <- Lone
    Allowance = 1
    MaxPerWallet = 1
    MaxAttempts = 2
    BatchLimit = 1
    Doubtful = {}
    SlowPasses = FALSE
    Budget <- OneRefund
PROPERTIES RefundIsTerminal
CHECK_DEADLOCK FALSE
