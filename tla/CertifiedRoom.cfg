CONSTANTS
    a = a
    b = b
    c = c
    app = app
    reg = reg
    new = new
    pre = pre
    member = member
    nothing = nothing
    noCode = noCode
    noSelector = noSelector
    Addr <- MCAddr
    Slot <- MCSlot
    NoCode = noCode
    MaxAccounts = 5
    MaxSlots = 7
    Member = member
    Precompiles <- MCPrecompiles
    NoSelector = noSelector
    Nothing = nothing
    Accounts <- MCAccounts
    Capacities <- MCCapacities
    Policies <- MCPolicies
    Genesis <- MCGenesis
    FirstRoster <- MCFirstRoster
    Modes <- MCModes
    Bodies <- MCBodies
    Envelopes <- MCEnvelopes
    GoodCapacity <- MCGoodCapacity
    CreditAt <- MCCreditAt
    Requests <- MCRequests
    MaxQueue = 2
    MaxBatches = 2
    MaxMirror = 1
SPECIFICATION Spec
INVARIANTS
    GuestSeesTruth
    Reopens
    ReadOnlyKept
    RosterIsReplay
CHECK_DEADLOCK FALSE
