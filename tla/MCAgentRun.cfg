CONSTANTS
    Threads = {t1, t2}
    StepCount = 2
    Plans <- MCPlans
    MaxOperations = 4
    MaxRevision = 2
    MaxVersion = 8
SPECIFICATION Spec
SYMMETRY Symmetry
INVARIANTS
    TypeOK
    CommittedInPlanOrder
    GovernedStepsAreApproved
PROPERTIES
    TerminalRunIsFrozen
    PlanSpec
    RunSharesTheLedger
