CONSTANTS
    Tasks = {"t1"}
    JobNames = {"t1"}
    JobName <- OwnNames
    LostReplies = FALSE
    PodsVanish = FALSE
    NamesReused = FALSE
    MaxTasks = 1
    MaxJobs = 2
    MaxFaults = 0
    MaxRestarts = 1
SPECIFICATION Spec
INVARIANTS TtlKept
CHECK_DEADLOCK FALSE
