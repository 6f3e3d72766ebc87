CONSTANTS
    Pods = {"a", "b"}
    Apps = {"a", "b"}
    Lrps = {"lrp-a", "lrp-b"}
    Lrp <- LrpOfPod
    Index <- OneIndex
    Reasons = {"Error"}
    LostReplies = FALSE
    MaxPods = 2
    MaxCrashes = 2
    MaxMishaps = 0
    MaxTroubles = 0
SPECIFICATION Spec
INVARIANTS CountedForItsLrp
CHECK_DEADLOCK FALSE
