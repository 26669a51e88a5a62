SPECIFICATION Spec
CONSTANTS
    MaxPaths = 3
    MaxRows = 6
    MaxResources = 4
    PageSize = 3
    Statuses <- MCStatuses
    Words = {w1, w2}
INVARIANTS
    TypeOK
    SuccessTells
    RefusalsDoNothing
    ChangedUpToFailure
    OnlyWithLogin
    SyncAsWritten
    ListsAll
    FailureHasCause
    ModMeansArguments
CHECK_DEADLOCK FALSE
