\* One request and one invocation at a time: a run may be overtaken by the
\* other when its record goes stale, crash, and throw.
SPECIFICATION FairSpec
CONSTANTS
    Runs = {r1, r2}
    NoRun = NoRun
    Workers = {w1}
    MaxRetries = 2
    Faults = {"crash", "throw", "stale"}
    OverlapRequests = FALSE
INVARIANTS
    OwnTranslation
PROPERTIES
    NoSecondTranslation
    EveryMessageSettles
    EnqueuedIsDecided
CHECK_DEADLOCK FALSE
