CONSTANTS
    Threads = {t1, t2}
    StepCount = 2
    Plans <- MCOrdinaryPlan
    MaxOperations = 3
    MaxRevision = 1
    MaxVersion = 9
SPECIFICATION SteadySpec
PROPERTY CancelPreventsCommit
CHECK_DEADLOCK FALSE
