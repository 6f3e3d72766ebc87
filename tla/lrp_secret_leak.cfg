CONSTANTS
    Instances = {1, 2}
    Images = {"app"}
    NoImage = "none"
    PrivateRegistry = TRUE
    LostReplies = FALSE
    MaxLrps = 1
    MaxRevs = 2
    MaxReadies = 1
    MaxSts = 1
    MaxFaults = 0
    MaxRestarts = 0
SPECIFICATION Spec
INVARIANTS NoSecretLeak
CHECK_DEADLOCK FALSE
