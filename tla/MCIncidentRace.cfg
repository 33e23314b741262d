\* An enrichment goroutine and the informer; no delivery fails.
CONSTANTS
    Producers = {p1, p2}
    FP = {f}
    Kinds = {"fire", "resolve"}
    Queues = {w}
    QueueOf <- mcOneQueue
    Cap = 1
    MaxRetries = 1
    MaxJobs = 4
    Failing = {}
    Received = {}
SPECIFICATION IncidentSpec
INVARIANTS
    NoDanglingIncident
CHECK_DEADLOCK FALSE
