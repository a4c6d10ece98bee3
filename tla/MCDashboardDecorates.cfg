SPECIFICATION Spec
CONSTANTS
    a = a
    b = b
    Address = {a, b}
    None = None
    Node = {1}
    Holder <- First
    MaxSigns = 1
    MaxMoves = 1
    MaxReceived = 2
    MaxFaults = 0
    MaxLoads = 2
INVARIANTS NeverDecorates
CHECK_DEADLOCK FALSE
