SPECIFICATION FairSpec
CONSTANTS
    g1 = g1
    g2 = g2
    c1 = c1
    ProveRequests <- MCProve
    GpuRequests <- MCGpu
    Requests <- MCRequests
INVARIANTS
    OneProofAtATime
PROPERTIES
    NoCpuFallback
    EveryRequestSettles
    LostGpuIsReported
