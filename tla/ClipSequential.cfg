\* One request at a time; a send may fail; any invocation may crash.
SPECIFICATION Spec
CONSTANTS
    Runs = {r1, r2}
    NoRun = NoRun
    Workers = {w1, w2}
    MaxRetries = 1
    Faults = {"crash", "send"}
    OverlapRequests = FALSE
SYMMETRY Symmetry
INVARIANTS
    ReadyServesItsOwnRun
    CheckpointIsTemporary
PROPERTIES
    NoFreshOverwrite
    OutcomeKept
CHECK_DEADLOCK FALSE
