CONSTANTS
    alice = alice
    operator = operator
    Senders <- MCSenders
    Txs <- MCTxs
    Requested <- MCRequested
    Funds = 1
    MaxBatches = 2
    MaxTxs = 2
    MaxForced = 2
    MaxReceipts = 1
SPECIFICATION Spec
INVARIANTS
    RanOnce
    AnswersTrue
    ForcedNeverWedges
CHECK_DEADLOCK FALSE
