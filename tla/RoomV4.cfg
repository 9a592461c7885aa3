CONSTANTS
    a = a
    b = b
    c = c
    tok = tok
    pool = pool
    lib = lib
    member = member
    nothing = nothing
    noCode = noCode
    noSelector = noSelector
    never = never
    zero = zero
    Addr <- MCAddr
    Slot <- MCSlot
    NoCode = noCode
    MaxAccounts = 6
    MaxSlots = 40
    Member = member
    Precompiles <- MCPrecompiles
    NoSelector = noSelector
    Nothing = nothing
    MaxMembers = 3
    ZeroAccount = zero
    Never = never
    MaxBatchBlocks = 2
    MaxWitness = 40
    Domain = 1
    MaxAssets = 16
    JoinSlot = 99
    MaxU256 <- MCMaxU256
    MaxColdBlocks = 1
    MaxColdTxs = 2
    MaxColdGas = 2
    CodeBytes <- MCCodeBytes
    MaxCode = 6
    ColdInputs <- MCColdInputs
    Openings <- MCOpenings
    Bodies <- MCBodies
    Deltas <- MCDeltas
    Requests <- MCRequests
    Heirs <- MCHeirs
    Envelope <- MCEnvelope
    MaxInbox = 2
    MaxBatches = 2
SPECIFICATION Spec
INVARIANTS
    
    ExitsPayEverything
    RetiredExitsFrozen
    OneSlotForLife
    NewcomersPaid
    TemplateKept
    StatementsBind
CHECK_DEADLOCK FALSE
