CONSTANTS
    Instances = {0, 2}
    Images = {"app", "none"}
    NoImage = "none"
    PrivateRegistry = TRUE
    LostReplies = FALSE
    MaxLrps = 2
    MaxRevs = 2
    MaxReadies = 0
    MaxSts = 2
    MaxFaults = 1
    MaxRestarts = 1
SPECIFICATION FairSpec
INVARIANTS SecretPresent
PROPERTIES EventuallySettles
CHECK_DEADLOCK FALSE
