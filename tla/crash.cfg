CONSTANTS
    Pods = {"a"}
    Apps = {"a"}
    Lrps = {"lrp-a"}
    Lrp <- LrpOfPod
    Index <- OneIndex
    Reasons = {"Error"}
    LostReplies = TRUE
    MaxPods = 2
    MaxCrashes = 2
    MaxMishaps = 1
    MaxTroubles = 1
SPECIFICATION FairSpec
INVARIANTS TypeOK AnnotatedAtRest
PROPERTIES RecountOnlyByStaleRead ImplementsLedger CrashReported
CHECK_DEADLOCK FALSE
