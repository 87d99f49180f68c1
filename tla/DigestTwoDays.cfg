\* Two days, no faults.
SPECIFICATION Spec
CONSTANTS
    LastDay = 2
    Runs = {r1, r2, r3}
    NoRun = NoRun
    Workers = {w1}
    MaxRetries = 1
    MaxPages = 1
    MaxRefs = 0
    MaxPicks = 1
    Faults = {}
    MaxFaults = 0
SYMMETRY Symmetry
INVARIANTS
    NewerIssueStays
CHECK_DEADLOCK FALSE
