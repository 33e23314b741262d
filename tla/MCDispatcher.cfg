\* One worker, two producers: full queue, parking, retries, shutdown.
CONSTANTS
    Producers = {p1, p2}
    FP = {f}
    Kinds = {"fire", "resolve"}
    Queues = {w}
    QueueOf <- mcOneQueue
    Cap = 1
    MaxRetries = 1
    MaxJobs = 3
SPECIFICATION FairSpec
INVARIANTS
    OutboxIsExact
    NoSendAfterClose
    AttemptedInOrder
PROPERTIES
    ShutdownGetsLock
    EveryDeliverySettles
CHECK_DEADLOCK FALSE
