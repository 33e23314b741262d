\* Startup grace, grouping, rollbacks and a restart.
CONSTANTS
    FP = {f}
    Events = {}
    Objects = {"pod"}
    ObjectOf <- mcObjectOf
    Rules = {}
    EscalateAfter <- mcNoRules
    Matches <- mcNoRules
    MuteWindow = 3
    ResolveTTL = 4
    MinHistoryRetention = 4
    Snapshots = {}
    MaxNow = 8
    MaxGen = 0
    Resync = 2
    Grace = 1
    Grouping = TRUE
    MaxChanges = 2
    MaxRestarts = 1
SPECIFICATION PipeSpec
INVARIANTS
    AliveWhileStanding
    StandingBecomesActive
PROPERTIES
    NoRepageWhileStanding
VIEW mcView
CHECK_DEADLOCK FALSE
