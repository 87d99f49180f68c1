\* One request whose message may be worked on by two invocations at once,
\* under every fault but the passing of time, which ClipOvertaken has.
SPECIFICATION Spec
CONSTANTS
    Runs = {r1}
    NoRun = NoRun
    Workers = {w1, w2}
    MaxRetries = 1
    Faults = {"crash", "throw", "duplicate", "send", "lost_reply", "delete"}
    OverlapRequests = TRUE
SYMMETRY Symmetry
INVARIANTS
    Safe
    Downloadable
    EpubBeforeMeta
    ReadyWasStored
CHECK_DEADLOCK FALSE
