SPECIFICATION FairSpec
CONSTANTS
    Env <- Narrow
    Patch <- Patches
    ByHand <- Strays
    Unusable = Unusable
    Nobody = Nobody
    MaxEdits = 2
    Budget <- Once
INVARIANTS SettingsHold
PROPERTIES RequestIsServed
