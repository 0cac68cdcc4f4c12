SPECIFICATION FairLifeSpec
CONSTANTS
    Apps = {a1}
    TASK_CONCURRENCY = 1
    Setups = 1
    MaxPending = 2
    MaxRequests = 2
    Commands <- AllCommands
    Faults = TRUE
    MaxCommands = 3
    MaxRestarts = 1
INVARIANTS InstalledHasContainer RunningIsRunning QueueIsWoken
PROPERTIES CommandSettles
