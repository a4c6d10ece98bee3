SPECIFICATION Spec
CONSTANTS
    a = a
    b = b
    x = x
    d1 = d1
    d2 = d2
    Nodes = {a}
    Inert = {}
    Drivers = {d1}
    BatchLimit = 1
    MinAmount = 1
    MaxAmount = 1
    DailyCap = 2
    MaxTxs = 2
    Budget <- Lost
INVARIANTS RetryPaysOnce
