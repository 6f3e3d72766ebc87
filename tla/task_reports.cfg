CONSTANTS
    Tasks = {"t1"}
    JobNames = {"t1"}
    JobName <- OwnNames
    LostReplies = FALSE
    PodsVanish = FALSE
    NamesReused = FALSE
    MaxTasks = 1
    MaxJobs = 2
    MaxFaults = 2
    MaxRestarts = 0
SPECIFICATION FairSpec
INVARIANTS TtlKept
PROPERTIES OutcomeReported JobRemovedAfterTtl
CHECK_DEADLOCK FALSE
