\* A record goes stale and a new run takes over.
SPECIFICATION Spec
CONSTANTS
    Runs = {r1, r2}
    NoRun = NoRun
    Workers = {w1}
    MaxRetries = 1
    Faults = {"stale"}
    OverlapRequests = FALSE
SYMMETRY Symmetry
PROPERTIES
    OldRunKeepsOut
CHECK_DEADLOCK FALSE
