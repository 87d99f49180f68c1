\* Requests, a form and overlapping deliveries of two runs, one fault of any
\* kind, and rows that go stale at any time.
SPECIFICATION Spec
CONSTANTS
    Runs = {r1, r2}
    NoRun = NoRun
    Workers = {w1, w2}
    Forms = {f1}
    MaxRetries = 1
    Faults = {"crash", "throw", "duplicate", "send", "lost_reply", "stale"}
    MaxFaults = 1
SYMMETRY Symmetry
INVARIANTS
    Safe
    ResultIsItsOwn
    FetchFailureIsFinal
CHECK_DEADLOCK FALSE
