\* Two workers on one sink: trip, cool down, probe, recover.
CONSTANTS
    Workers = {w1, w2}
    Sinks = {slack}
    Threshold = 2
    SlowRun = 2
    Cooldown = 3
    SlowThreshold = 1
    SendTimeout = 2
    MaxNow = 5
    MaxCalls = 4
SPECIFICATION FairSpec
INVARIANTS
    HalfOpenHasProbe
    OneProbeAtATime
    NoSilentLoss
PROPERTIES
    EveryDispatchReturns
CHECK_DEADLOCK FALSE
