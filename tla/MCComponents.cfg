CONSTANTS
    c1 = c1
    c2 = c2
    p1 = p1
    x = x
    Workers = {w1, w2}
    CommandIds = {c1, c2}
    Projects = {p1}
    Payloads = {x}
    Requests <- MCRequests
    Editors = {e1}
    Importers = {i1}
    Nobody = nobody
    MaxRevision = 2
    d1 = d1
    d2 = d2
    Updates = {u1, u2, u3, d1, d2}
    BimParameters = {u1, u2, u3}
    Batches <- MCBatches
    Malformed = {u3}
    LocalCapacity = 2
    FailureThreshold = 1
    Events = {v1, v2}
    Unencodable = {v2}
    Subscriptions = {s1, s2, s3}
    Replayers = {r1}
    PoolThreads = 1
    MaxRetries = 2
    DlqMaxSize = 1
    Sessions = {k1, k2}
    Calls = {m1, m2}
SPECIFICATION ComponentsSpec
INVARIANTS
    PartsAreNotStuck
    AtMostOnce
    ModeBypassesNothing
    CompletedDesignProtects
    AnswersAreTrue CapacityBoundsForwarding ExecutedInOrder
    DeadLetterHasOnePlace DlqOutgrowsByReplays
    NobodyAwaitsTheDeparted NoFutureLeaks
PROPERTIES
    TighteningNeverRelaxes ClientsAreServed
    LivesSpec UpdateFatesSpec CallsSpec
    EveryUpdateIsAnswered EveryDeliveryEnds EveryCallEnds
CHECK_DEADLOCK FALSE
