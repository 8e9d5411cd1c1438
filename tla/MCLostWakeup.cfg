CONSTANTS
    Updates = {u1, u2}
    BimParameters = {u1, u2}
    Batches = {}
    Malformed = {}
    LocalCapacity = 3
    FailureThreshold = 2
SPECIFICATION BridgeSpec
PROPERTY ForwardedUpdateIsExecuted
CHECK_DEADLOCK FALSE
