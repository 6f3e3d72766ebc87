CONSTANTS
    Instances = {1, 2}
    Images = {app, app2}
    app = app
    app2 = app2
    NoImage = "none"
    PrivateRegistry = FALSE
    LostReplies = TRUE
    MaxLrps = 2
    MaxRevs = 3
    MaxReadies = 1
    MaxSts = 1
    MaxFaults = 1
    MaxRestarts = 0
SPECIFICATION Spec
INVARIANTS TypeOK Converged LastReconcileCurrent RevsOrdered PdbMatchesUndisturbed
PROPERTIES ImplementsLifecycle RollbackOnlyAfterStatusFailure
CHECK_DEADLOCK FALSE
SYMMETRY Symmetry
