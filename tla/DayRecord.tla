------------------------------ MODULE DayRecord ------------------------------
(***************************************************************************)
(* What the daily digest keeps of each day, for whoever reads the record:  *)
(* a run that nobody has seen before takes the day, goes through its four  *)
(* steps in their order and never back, and is published, stays empty or   *)
(* fails.  Only a run with a summary is published, and only one that       *)
(* skipped nothing stays empty.                                            *)
(***************************************************************************)
EXTENDS Naturals

CONSTANTS Days, Runs, NoRun

VARIABLES
    day,   \* of each day: the run, how far it is, and what became of it
    taken  \* the run ids that have been used

vars == <<day, taken>>

AtStart(r, status) ==
    [run |-> r, status |-> status, phase |-> "plan", cursor |-> 0,
     kept |-> FALSE, exhausted |-> FALSE]

Nothing  == AtStart(NoRun, "none")
Begun(r) == AtStart(r, "running")

Init ==
    /\ day = [d \in Days |-> Nothing]
    /\ taken = {}

Order == [plan |-> 0, evaluate |-> 1, summarize |-> 2, publish |-> 3]

\* The next step, or further on in the same one.
Ahead(new, rec) ==
    \/ Order[new.phase] = Order[rec.phase] + 1
    \/ new.phase = rec.phase /\ new.cursor >= rec.cursor

\* A summary is found while summarizing, and nothing that was noted is forgotten.
Noted(new, rec) ==
    /\ rec.kept => new.kept
    /\ new.kept => rec.kept \/ rec.phase = "summarize"
    /\ new.phase = "publish" => new.kept
    /\ rec.exhausted => new.exhausted

\* A run takes the day, whatever became of the one before.
Begin(d, r) ==
    /\ r \notin taken
    /\ taken' = taken \union {r}
    /\ day' = [day EXCEPT ![d] = Begun(r)]

Running(d) == day[d].status = "running"

Advance(d) ==
    /\ Running(d)
    /\ day'[d].run = day[d].run /\ day'[d].status = "running"
    /\ Ahead(day'[d], day[d]) /\ Noted(day'[d], day[d])
    /\ day' = [day EXCEPT ![d] = day'[d]]
    /\ UNCHANGED taken

Settle(d, status) ==
    /\ day' = [day EXCEPT ![d].status = status]
    /\ UNCHANGED taken

Publish(d) ==
    /\ Running(d) /\ day[d].phase = "publish" /\ day[d].kept
    /\ Settle(d, "published")

StayEmpty(d) ==
    /\ Running(d) /\ day[d].phase \in {"evaluate", "summarize"}
    /\ ~day[d].kept /\ ~day[d].exhausted
    /\ Settle(d, "empty")

\* At any time, even when it was published: nothing is looked at.
Fail(d) ==
    /\ day[d].status # "none"
    /\ Settle(d, "failed")

Next ==
    \E d \in Days :
       \/ \E r \in Runs : Begin(d, r)
       \/ Advance(d) \/ Publish(d) \/ StayEmpty(d) \/ Fail(d)

Spec == Init /\ [][Next]_vars
=============================================================================
