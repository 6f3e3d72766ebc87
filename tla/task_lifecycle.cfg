CONSTANTS
    Tasks = {"t1"}
    JobNames = {"t1"}
    JobName <- OwnNames
    LostReplies = TRUE
    PodsVanish = TRUE
    NamesReused = FALSE
    MaxTasks = 1
    MaxJobs = 2
    MaxFaults = 2
    MaxRestarts = 2
SPECIFICATION Spec
INVARIANTS TypeOK
PROPERTIES ImplementsLifecycle
CHECK_DEADLOCK FALSE
