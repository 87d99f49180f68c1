\* A failure is overwritten by the request that caused it.
SPECIFICATION Spec
CONSTANTS
    Runs = {r1}
    NoRun = NoRun
    Workers = {w1}
    MaxRetries = 1
    Faults = {}
    OverlapRequests = FALSE
SYMMETRY Symmetry
PROPERTIES
    FailureStays
CHECK_DEADLOCK FALSE
