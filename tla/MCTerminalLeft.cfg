CONSTANTS
    Threads = {t1, t2}
    StepCount = 2
    Plans <- MCOrdinaryPlan
    MaxOperations = 3
    MaxRevision = 1
    MaxVersion = 9
SPECIFICATION FairSpec
INVARIANT NobodyIsStuck
PROPERTY TerminalRunIsLeft
CHECK_DEADLOCK FALSE
