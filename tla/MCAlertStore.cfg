CONSTANTS
    FP <- mcFP
    Events <- mcEvents
    Objects <- mcObjects
    ObjectOf <- mcObjectOf
    Rules <- mcRules
    EscalateAfter <- mcEscalateAfter
    Matches <- mcMatches
    MuteWindow = 2
    ResolveTTL = 2
    MinHistoryRetention = 3
    Snapshots <- mcSnapshots
    MaxNow = 7
    MaxGen = 5
SPECIFICATION Spec
INVARIANTS
    ActiveHasDeadline
    MutedUntilWindowEnds
    EscalatedOncePerIncident
PROPERTIES
    GenCoversDurableState
CHECK_DEADLOCK FALSE
