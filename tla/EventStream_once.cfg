SPECIFICATION Spec
CONSTANTS
    Workers = {w1}
    Events = 1
    Malformed = {}
    MaxDeliveries = 2
    Batch = 1
    ClaimBatch = 1
    HandlerErrors = FALSE
    MaxFaults = 1
INVARIANT ProcessedAtLeastOnce
CHECK_DEADLOCK FALSE
