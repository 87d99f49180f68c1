\* One run; calls of D1 may throw.
SPECIFICATION Spec
CONSTANTS
    Runs = {r1}
    NoRun = NoRun
    Workers = {w1}
    Forms = {f1}
    MaxRetries = 1
    Faults = {"throw"}
    MaxFaults = 2
INVARIANTS
    FailureShows
CHECK_DEADLOCK FALSE
