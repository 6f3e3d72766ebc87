CONSTANTS
    SanitizedNameMaxLen = 4
    SanitizedJobNameMaxLen = 6
    MaxIndex = 99
    Config <- MCConfig
    Int32Limit = 4
    Specs <- MCSpecs
    TaskSpecs <- MCTasks
    MaxOrdinal = 1
SPECIFICATION Spec
INVARIANTS IndexIsOrdinal PlatformVarsWin PdbSelectsOwnPods UpdatedAsIfNew OneStatefulSetPerLrp NamesAccepted CacheUntouched
CHECK_DEADLOCK FALSE
