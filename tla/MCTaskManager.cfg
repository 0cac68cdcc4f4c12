SPECIFICATION FairSpec
CONSTANTS
    Apps = {a1, a2, a3}
    TASK_CONCURRENCY = 2
    Setups = 1
    MaxPending = 1
    MaxRequests = 1
INVARIANTS TypeOK LockMatchesWork NeverAborts NoLostWakeup
PROPERTIES MutualExclusion QueuedTaskStarts
