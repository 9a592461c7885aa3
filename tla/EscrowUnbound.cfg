SPECIFICATION Spec
CONSTANTS
    eth = eth
    token = token
    alice = alice
    bob = bob
    vault = vault
    safe = safe
    Native = eth
    Fallback = safe
    Assets <- BothAssets
    Bound <- JustToken
    Accounts <- People
    CodeFree <- People
    Genesis <- Nobody
    HonestApp = TRUE
    MAX = 10
    Amounts <- UpTo2
    MaxDeposits = 1
    MaxBatches = 1
INVARIANTS
    ControlledIsWithdrawable
CHECK_DEADLOCK FALSE
