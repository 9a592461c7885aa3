SPECIFICATION Spec
CONSTANTS
    eth = eth
    token = token
    alice = alice
    bob = bob
    vault = vault
    safe = safe
    Native = eth
    Fallback = safe
    Assets <- BothAssets
    Bound <- BothAssets
    Accounts <- PeopleAndVault
    CodeFree <- People
    Genesis <- Vault
    HonestApp = TRUE
    MAX = 1000
    Amounts <- OneAndThree
    MaxDeposits = 1
    MaxBatches = 3
INVARIANTS
    BalancesBacked
    CloseMakesWhole
SYMMETRY Swap
CHECK_DEADLOCK FALSE
