\* A pod and its standby.
CONSTANTS
    Replicas = {"a", "b"}
    Skew <- mcSkew
    MaxSkew = 1
    MaxTries = 2
    MaxFaults = 1
    MaxNow = 2
    None = none
    MaxVersion = 2
SPECIFICATION Spec
INVARIANTS
    OneController
    NoAbandonedController
    HandoverKeepsState
    NoChangeSkipped
    ShutdownNeverStuck
PROPERTIES
    NewestWins
CHECK_DEADLOCK FALSE
