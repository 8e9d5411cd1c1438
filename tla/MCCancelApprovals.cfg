CONSTANTS
    Threads = {t1, t2}
    StepCount = 2
    Plans <- MCGovernedPlan
    MaxOperations = 3
    MaxRevision = 1
    MaxVersion = 9
SPECIFICATION SteadySpec
INVARIANT CancelledRunHasNoLiveApproval
CHECK_DEADLOCK FALSE
