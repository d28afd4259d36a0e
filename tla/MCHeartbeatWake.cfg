\* Three requests, two targets, one restart.  The last runner may stop for good.
CHECK_DEADLOCK FALSE
SPECIFICATION LiveSpec
CONSTANTS
    Requests <- ThreeRequests
    Target <- TwoTargets
    Priority <- Priorities
    Delays = {0}
    Coalesce = 1
    RetryDelay = 2
    MaxRunners = 2
    MaxBatches = 2
INVARIANTS
    TypeOK
    NoRequestIsLost
    OneBatchAtATime
PROPERTIES
    EveryRequestIsAnswered
