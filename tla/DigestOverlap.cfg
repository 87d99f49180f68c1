\* Two invocations at once, a start that may be delivered twice, one fault.
SPECIFICATION Spec
CONSTANTS
    LastDay = 1
    Runs = {r1, r2}
    NoRun = NoRun
    Workers = {w1, w2}
    MaxRetries = 1
    MaxPages = 1
    MaxRefs = 1
    MaxPicks = 1
    Faults = {"crash", "throw", "duplicate", "send"}
    MaxFaults = 1
SYMMETRY Symmetry
INVARIANTS
    TypeOK
    DeadBranches
    QuietCatalogue
PROPERTIES
    DayKept
CHECK_DEADLOCK FALSE
