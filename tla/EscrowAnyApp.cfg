SPECIFICATION Spec
CONSTANTS
    eth = eth
    token = token
    alice = alice
    bob = bob
    vault = vault
    safe = safe
    Native = eth
    Fallback = safe
    Assets <- BothAssets
    Bound <- JustToken
    Accounts <- Alice
    CodeFree <- Alice
    Genesis <- Nobody
    HonestApp = FALSE
    MAX = 4
    Amounts <- UpTo2
    MaxDeposits = 2
    MaxBatches = 2
INVARIANTS
    TypeOK
    Conservation
    TotalsAreQueues
    RecordsMintedOnce
    ClosedRoomIsEmpty
CHECK_DEADLOCK FALSE
