\* Two accounts, three nodes under a ceiling of two per wallet that the owner may
\* lower, and a uint128 that holds 1, so that totals overflow, wallets fill up,
\* recipients call back in, and wei are rescued between credits.
SPECIFICATION Spec
CONSTANTS
    Accounts = {alice, bob}
    Self = Self
    NoOne = NoOne
    Refs = {r1, r2, r3}
    NoRef = NoRef
    Ceiling = 2
    InitialMax = 2
    MaxUint128 = 1
    MaxNodes = 3
    MaxWei = 2
SYMMETRY Interchangeable
INVARIANTS
    TypeOK
    Solvent
    BooksAgree
    WithdrawalsFit
    OneNodePerPayment
    SweepBounded
PROPERTIES
    NodesAreKept
    KeepsEscrow
