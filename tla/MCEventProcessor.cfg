CONSTANTS
    Events = {e1, e2, e3}
    Clients = {c}
    Workers = {w1, w2}
    Capacity <- MCCapacity
    MaxRetries = 1
    FailureThreshold = 2
    None = None
SPECIFICATION FairSpec
INVARIANTS
    ProcessorTypeOK
    EventInOnePlace
    DeadEventsWereRetried
    IntakeIsForLife
PROPERTIES
    JamIsForGood
    LossIsExplained
    FatesSpec
    EveryEventIsSettled
CHECK_DEADLOCK FALSE
