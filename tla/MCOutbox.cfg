\* Two restarts, also cold and in the middle of a replay, and a change of shard.
CONSTANTS
    Boot = boot
    Producers = {boot, p}
    FP = {f}
    Kinds = {"resolve", "once", "escalation", "fire"}
    Queues = {w}
    QueueOf <- mcOneQueue
    Cap = 1
    MaxRetries = 1
    MaxJobs = 2
    Shards <- mcShards
    MaxRestarts = 2
SPECIFICATION Spec
INVARIANTS
    SavedIsNeverLost
    SentOncePerProcess
PROPERTIES
    OrderAcrossRestarts
CHECK_DEADLOCK FALSE
