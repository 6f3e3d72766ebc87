CONSTANTS
    Tasks = {"t1"}
    JobNames = {"t1"}
    JobName <- OwnNames
    LostReplies = FALSE
    PodsVanish = FALSE
    NamesReused = TRUE
    MaxTasks = 2
    MaxJobs = 3
    MaxFaults = 0
    MaxRestarts = 0
SPECIFICATION Spec
INVARIANTS OutcomeIsItsOwn
CHECK_DEADLOCK FALSE
