CONSTANTS
    a = a
    b = b
    hb = hb
    esc = esc
    storm = storm
    both = both
    missing = missing
    r1 = r1
    page = page
    chat = chat
    FP <- MCFP
    Events = {}
    Objects <- MCFP
    ObjectOf <- MCObjectOf
    Rules = {r1}
    EscalateAfter <- MCEscalateAfter
    Matches <- MCMatches
    EscalationSinks <- MCEscalationSinks
    Saved = {5}
    MuteWindow = 3
    ResolveTTL = 3
    MinHistoryRetention = 2
    Snapshots <- MCSnapshots
    MaxNow = 14
    MaxGen = 0
    SilenceIds = {"s"}
    Lengths = {1, 9}
    MaxSilenceDuration = 3
    CRDResync = 2
    DayLength = 4
    Configs <- MCConfigs
    Routes <- MCRoutes
    DefaultSinks = {chat}
    Stateful = {page}
    AbsentTick = 1
    Resync = 2
    Grace = 3
    Stall = 1
    MaxSilenced = 2
SPECIFICATION EmitSpec
VIEW MCView
INVARIANT PagesWhenFree AbsenceIsPaged
PROPERTY QuietWhileSuppressed WindowsAreCounted NoFalseAbsence
CHECK_DEADLOCK FALSE
