CONSTANTS
    Instances = {1, 2}
    Images = {"app"}
    NoImage = "none"
    PrivateRegistry = FALSE
    LostReplies = FALSE
    MaxLrps = 1
    MaxRevs = 1
    MaxReadies = 0
    MaxSts = 1
    MaxFaults = 1
    MaxRestarts = 0
SPECIFICATION Spec
INVARIANTS PdbMatches
CHECK_DEADLOCK FALSE
