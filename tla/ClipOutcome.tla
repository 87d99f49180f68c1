----------------------------- MODULE ClipOutcome -----------------------------
(***************************************************************************)
(* What the clip service is to whoever asks for a URL: one run at a time   *)
(* is accepted, works, puts its article on offer and then reports that it  *)
(* is ready, or fails; only then the next is accepted.  What was reported  *)
(* stays, with one exception: the request that asked may put the record    *)
(* back to queued, once, when it ends.                                     *)
(***************************************************************************)
CONSTANTS Runs, NoRun

VARIABLES
    outcome,  \* "absent", "queued", "running", "ready" or "failed"
    run,      \* the run it is said of
    offered,  \* the run whose EPUB the catalog leads to
    asking    \* has the request that asked for the run not ended yet?

vars == <<outcome, run, offered, asking>>

Init ==
    /\ outcome = "absent" /\ run = NoRun
    /\ offered = NoRun /\ asking = FALSE

Pending == outcome \in {"queued", "running"}

Accept(r) ==
    /\ ~Pending /\ ~asking /\ r # run
    /\ outcome' = "queued" /\ run' = r /\ asking' = TRUE
    /\ UNCHANGED offered

Work ==
    /\ Pending /\ outcome' = "running"
    /\ UNCHANGED <<run, offered, asking>>

Offer ==
    /\ Pending /\ offered' = run
    /\ UNCHANGED <<outcome, run, asking>>

Finish ==
    /\ Pending /\ offered = run /\ outcome' = "ready"
    /\ UNCHANGED <<run, offered, asking>>

Fail ==
    /\ Pending /\ outcome' = "failed"
    /\ asking' \in {asking, FALSE}
    /\ UNCHANGED <<run, offered>>

\* The request ends, with its second put of the queued record or without.
Answer ==
    /\ asking /\ asking' = FALSE
    /\ outcome' \in {outcome, "queued"}
    /\ UNCHANGED <<run, offered>>

Next ==
    \/ \E r \in Runs : Accept(r)
    \/ Work \/ Offer \/ Finish \/ Fail \/ Answer

Spec == Init /\ [][Next]_vars
=============================================================================
