\* Two goroutines fire and resolve; fires and resolves may fail.  The receiver's
\* upstream may say that the alert is over as often as it likes.
CONSTANTS
    Producers = {p1, p2}
    FP = {f}
    Kinds = {"fire", "resolve"}
    Queues = {w}
    QueueOf <- mcOneQueue
    Cap = 1
    MaxRetries = 1
    MaxJobs = 4
    Failing = {"fire", "resolve"}
    Received = {f}
SPECIFICATION FairIncidentSpec
INVARIANTS
    DanglingIsExplained
PROPERTIES
    IncidentEnds
CHECK_DEADLOCK FALSE
