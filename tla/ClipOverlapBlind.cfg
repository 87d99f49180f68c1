\* Two requests read the job before either has written it.
SPECIFICATION Spec
CONSTANTS
    Runs = {r1, r2}
    NoRun = NoRun
    Workers = {w1}
    MaxRetries = 1
    Faults = {}
    OverlapRequests = TRUE
SYMMETRY Symmetry
PROPERTIES
    NoFreshOverwrite
CHECK_DEADLOCK FALSE
