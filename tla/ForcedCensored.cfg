CONSTANTS
    alice = alice
    operator = operator
    Senders <- MCSenders
    Txs <- MCTxs
    Requested <- MCRequested
    Funds = 1
    MaxBatches = 2
    MaxTxs = 2
    MaxForced = 1
    MaxReceipts = 0
SPECIFICATION Spec
INVARIANTS
    RejectedCouldNotRun
CHECK_DEADLOCK FALSE
