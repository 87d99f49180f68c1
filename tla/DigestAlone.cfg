\* One invocation at a time, three crashes or exceptions.
SPECIFICATION FairSpec
CONSTANTS
    LastDay = 1
    Runs = {r1, r2}
    NoRun = NoRun
    Workers = {w1}
    MaxRetries = 1
    MaxPages = 1
    MaxRefs = 0
    MaxPicks = 1
    Faults = {"crash", "throw"}
    MaxFaults = 3
INVARIANTS
    PublishedIsThere
PROPERTIES
    FinishedStays
    RunDecides
CHECK_DEADLOCK FALSE
