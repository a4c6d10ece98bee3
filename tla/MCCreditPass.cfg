\* Two drivers of which one may lose the lock while its pass goes on, two nodes,
\* a cap of one credit a day; a receipt, a ledger write and its substitute fail.
SPECIFICATION Spec
CONSTANTS
    a = a
    b = b
    x = x
    d1 = d1
    d2 = d2
    Nodes = {a, b}
    Inert = {}
    Drivers = {d1, d2}
    BatchLimit = 1
    MinAmount = 1
    MaxAmount = 1
    DailyCap = 1
    MaxTxs = 3
    Budget <- Faults
SYMMETRY Anybody
INVARIANTS RecordedIsPaid RecordedUnderCap PaidOncePerTurn
PROPERTIES TimersMoveForCredits
