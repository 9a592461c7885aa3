SPECIFICATION FairSpec
CONSTANTS
    MaxSchema = 2
    Confirmations = 2
    MaxTurns = 1
INVARIANTS
    OneOperationPerBeat
    AcceptedStaysIncluded
PROPERTIES
    BeatEnds
CHECK_DEADLOCK FALSE
