SPECIFICATION Spec
CONSTANTS
    n1 = n1
    n2 = n2
    good = good
    bad = bad
    NoNode = NoNode
    NoJob = NoJob
    Nodes <- Pair
    Jobs <- GoodAndBad
    BadJobs <- BadJob
    Stoppable <- Nothing
    MaxFaults = 1
    MaxLate = 0
INVARIANTS
    OnlyBadJobsCondemned
CHECK_DEADLOCK FALSE
