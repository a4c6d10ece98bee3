SPECIFICATION FairSpec
CONSTANTS
    Withdrawal = {x, y}
    Node = {1, 2}
    Pass = {cron, admin}
    None = None
    Confirmations = 1
    MaxSpan = 1
    MaxBlocks = 3
    MaxCrashes = 1
INVARIANTS HistoryIsChains
PROPERTIES WithdrawalsAreIndexed
