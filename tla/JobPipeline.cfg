SPECIFICATION FairSpec
CONSTANTS
    n1 = n1
    n2 = n2
    good = good
    bad = bad
    NoNode = NoNode
    NoJob = NoJob
    Nodes <- Pair
    Jobs <- GoodJob
    BadJobs <- Nothing
    Stoppable <- JustN1
    MaxFaults = 4
    MaxLate = 2
INVARIANTS
    NoDoubleProving
    TraceTruthful
PROPERTIES
    ImplementsLedger
    EveryJobSettles
    StopDrains
CHECK_DEADLOCK FALSE
