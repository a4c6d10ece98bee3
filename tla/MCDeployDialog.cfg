SPECIFICATION FairSpec
CONSTANTS
    tab = tab
    server = server
    Me = Me
    None = None
    Mint = {1, 2}
    Buyer <- OneWallet
    Writer = {tab, server}
    Tab = tab
    Batch = 1
    Budget <- Once
INVARIANTS RowsAreChains DeployedIsTrue
PROPERTIES EveryNodeEarns
CHECK_DEADLOCK FALSE
