SPECIFICATION FairSpec
CONSTANTS
    a = a
    b = b
    x = x
    d1 = d1
    d2 = d2
    Nodes = {a, b, x}
    Inert = {x}
    Drivers = {d1}
    BatchLimit = 2
    MinAmount = 1
    MaxAmount = 1
    DailyCap = 2
    MaxTxs = 2
    Budget <- Restless
INVARIANTS TypeOK
PROPERTIES DueIsServed
