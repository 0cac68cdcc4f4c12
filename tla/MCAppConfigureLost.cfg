SPECIFICATION LifeSpec
CONSTANTS
    Apps = {a1}
    TASK_CONCURRENCY = 1
    Setups = 1
    MaxPending = 3
    MaxRequests = 3
    Commands <- InstallAndConfigure
    Faults = FALSE
    MaxCommands = 3
    MaxRestarts = 0
INVARIANTS InstalledIsCurrent
