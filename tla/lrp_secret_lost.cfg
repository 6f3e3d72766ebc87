CONSTANTS
    Instances = {1, 2}
    Images = {"app"}
    NoImage = "none"
    PrivateRegistry = TRUE
    LostReplies = TRUE
    MaxLrps = 1
    MaxRevs = 2
    MaxReadies = 0
    MaxSts = 1
    MaxFaults = 1
    MaxRestarts = 0
SPECIFICATION Spec
INVARIANTS SecretPresent
CHECK_DEADLOCK FALSE
