SPECIFICATION FairSpec
CONSTANTS
    a = a
    b = b
    Address = {a, b}
    None = None
    Node = {1}
    Holder <- First
    MaxSigns = 2
    MaxMoves = 1
    MaxReceived = 2
    MaxFaults = 1
    MaxLoads = 2
INVARIANTS TypeOK ReadyIsOwn FreshIsFresh
PROPERTIES FiguresNeverGoBack SessionLossIsNoticed ScreenCatchesUp NobodyStranded
CHECK_DEADLOCK FALSE
