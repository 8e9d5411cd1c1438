CONSTANTS
    Threads = {t1}
    StepCount = 2
    Plans <- MCGovernedPlan
    MaxOperations = 6
    MaxRevision = 1
    MaxVersion = 14
SPECIFICATION SteadySpec
INVARIANT LiveApprovalIsReused
CHECK_DEADLOCK FALSE
