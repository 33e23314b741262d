\* Every watcher, every cloud service and CloudTrail.
CONSTANTS
    FP <- mcFP
    Events = {"event"}
    Objects = {"object"}
    ObjectOf <- mcObjectOf
    Rules = {}
    EscalateAfter <- mcNoRules
    Matches <- mcNoRules
    MuteWindow = 7
    ResolveTTL = 8
    MinHistoryRetention = 6
    Snapshots = {}
    MaxNow = 20
    MaxGen = 0
    MaxStatusChanges = 2
    MaxObjectChanges = 3
    Interval = 1
    Jitter = 1
    Teardown = 1
    EventId = "event"
    PendingThreshold = 2
    IgnoreRestartCount = 1
    IgnoreExitZero = TRUE
    MaxRestartCount = 2
    Resync = 3
    EnrichWorkers = 1
    EnrichTime = 1
SPECIFICATION DetectorsSpec
INVARIANTS
    StandingIsKnown
    EndedIsNotReasserted
    DeletedIsCleared
    OOMIsReported
    NoEventLost
    EventSentOnce
VIEW mcView
CHECK_DEADLOCK FALSE
