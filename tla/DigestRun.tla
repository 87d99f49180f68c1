------------------------------- MODULE DigestRun -------------------------------
(***************************************************************************)
(* The daily digest: queue messages that drive one run per day through     *)
(* plan, evaluate, summarize and publish (daily/deliver.ts), a watchdog    *)
(* message that fails a run which no longer moves, and what they share:    *)
(* the run record of each day in R2, the issues in the catalogue, and the  *)
(* history of published articles in D1.                                    *)
(*                                                                         *)
(* The run record is the only object of the program that is written with   *)
(* a condition: R2 puts it only if its etag is still the one that was      *)
(* read.  An invocation is therefore given a flag `fresh`, true from its   *)
(* read until someone else writes the record, and the etags themselves     *)
(* are left out.                                                           *)
(***************************************************************************)
EXTENDS Naturals, FiniteSets, Sequences

CONSTANTS
    LastDay,    \* the days are 1 .. LastDay
    Runs,       \* run ids: bounds how many starts succeed
    NoRun,      \* no run
    Workers,    \* consumer invocations that may run at the same time
    MaxRetries, \* redeliveries after the first delivery
    MaxPages,   \* bound: pages of the candidate list
    MaxRefs,    \* bound: candidates to evaluate
    MaxPicks,   \* bound: candidates selected
    Faults,     \* which of the faults below the environment may produce
    MaxFaults   \* bound: how many of them

FaultKinds ==
    { "crash",      \* an invocation ends without ack: CPU limit, eviction
      "throw",      \* a call of R2, D1 or the publisher throws
      "duplicate",  \* the queue hands out a message and keeps it as well
      "send" }      \* queue.send throws, whether or not it enqueued

ASSUME DaysAssumption   == LastDay \in Nat \ {0}
ASSUME NoRunAssumption  == NoRun \notin Runs
ASSUME BoundsAssumption == /\ MaxRetries \in Nat
                           /\ MaxPages \in Nat \ {0}
                           /\ MaxRefs \in Nat
                           /\ MaxPicks \in Nat
                           /\ MaxFaults \in Nat
ASSUME FaultsAssumption == Faults \subseteq FaultKinds

VARIABLES
    record,  \* digest-runs/{date}.json of each day
    old,     \* has the record of the day been left alone for 150 seconds?
    issue,   \* the day's issue in the catalogue: the run that built it
    history, \* digest_published_items of the day: the run that wrote them
    queue,   \* the messages waiting to be delivered
    worker,  \* the consumer invocations: program counter and locals
    today,   \* the day of the last request
    minted,  \* the run ids that are taken
    faults,  \* how many faults have happened
    lost     \* history: the messages whose last delivery did not do its work

catalogueVars == <<issue, history>>
clockVars     == <<today, minted>>
onlyWorker    == <<record, old, catalogueVars, queue, clockVars, lost>>
vars == <<record, old, issue, history, queue, worker, today, minted, faults, lost>>

Days      == 1 .. LastDay
RunOrNone == Runs \union {NoRun}
Phases    == {"plan", "evaluate", "summarize", "publish"}
Finished  == {"published", "empty", "failed"}

(***************************************************************************)
(* `cursor` is the cursor of the phase: planOffset in pages, evalIndex or  *)
(* summarizeIndex.  `size` is the length of the list it runs over, known   *)
(* once the list is complete.  `kept` says that there is a summary, and    *)
(* `exhausted` that work was skipped on a last delivery.                   *)
(***************************************************************************)
RunRecord ==
    [run: RunOrNone, status: Finished \union {"none", "running"}, phase: Phases,
     cursor: Nat, size: Nat, kept: BOOLEAN, exhausted: BOOLEAN]

BlankRecord(r) ==
    [run |-> r, status |-> "running", phase |-> "plan", cursor |-> 0,
     size |-> 0, kept |-> FALSE, exhausted |-> FALSE]

NoRecord == [BlankRecord(NoRun) EXCEPT !.status = "none"]

MessageSteps == Phases \union {"start", "watchdog"}
Message == [day: Days, step: MessageSteps, run: RunOrNone, cursor: Nat, tries: Nat \ {0}]

StartMessage(d) ==
    [day |-> d, step |-> "start", run |-> NoRun, cursor |-> 0, tries |-> 1]
WatchdogMessage(d, r) ==
    [day |-> d, step |-> "watchdog", run |-> r, cursor |-> 0, tries |-> 1]

\* The message of the step that a run has reached.
MessageFor(d, rec) ==
    [day |-> d, step |-> rec.phase, run |-> rec.run, tries |-> 1,
     cursor |-> IF rec.phase = "publish" THEN 0 ELSE rec.cursor]

isFinalDigestAttempt(m) == m.tries > MaxRetries

\* The steps inside the try block of processDigestDelivery, and the others.
TrySteps    == {"open", "begin", "read", "touch", "work", "choose", "history",
                "finish"}
RemoveSteps == {"list", "delete"}
LastSteps   == {"recheck", "rescue", "send", "ack", "retry"}
Goals       == Finished \union {"none"}

NoMessage == [StartMessage(1) EXCEPT !.tries = 0]

Invocation ==
    [pc: {"idle"} \union TrySteps \union RemoveSteps \union LastSteps,
     msg: Message \union {NoMessage}, seen: RunRecord, fresh: BOOLEAN,
     goal: Goals, rescue: BOOLEAN, doomed: SUBSET Days, out: Seq(Message)]

Idle == [pc |-> "idle", msg |-> NoMessage, seen |-> NoRecord, fresh |-> FALSE,
         goal |-> "none", rescue |-> FALSE, doomed |-> {}, out |-> <<>>]

Busy(w)  == worker[w].pc # "idle"
DayOf(w) == worker[w].msg.day
Last(w)  == isFinalDigestAttempt(worker[w].msg)

\* Only w moves, to the invocation l.
Become(w, l) == worker' = [worker EXCEPT ![w] = l]
Goto(w, step) == Become(w, [worker[w] EXCEPT !.pc = step])

\* What w turns to next: with nothing left to remember but its message, ...
Only(w, step) == [Idle EXCEPT !.pc = step, !.msg = worker[w].msg]
\* ... with messages to send, ...
Sending(w, ms) == [Only(w, "send") EXCEPT !.out = ms]
\* ... or with the terminal status to record.
Finishing(l, status) == [l EXCEPT !.pc = "finish", !.goal = status]

\* Slip: a status of its own.
WithoutSummariesSkipped(rec) == IF rec.exhausted THEN "skipped" ELSE "empty"

\* An issue without summaries: failed if work was skipped, else empty.
WithoutSummaries(rec) == IF rec.exhausted THEN "failed" ELSE "empty"

Fault(kind) ==
    /\ kind \in Faults
    /\ faults < MaxFaults
    /\ faults' = faults + 1

-----------------------------------------------------------------------------
(***************************************************************************)
(* put(record, etag): the conditional put.                                 *)
(***************************************************************************)
\* It succeeds: w goes on as l, and every other etag of the day is outdated.
Write(w, rec, l) ==
    /\ record' = [record EXCEPT ![DayOf(w)] = rec]
    /\ old' = [old EXCEPT ![DayOf(w)] = FALSE]
    /\ worker' = [v \in Workers |->
                    IF v = w THEN l
                    ELSE IF DayOf(v) = DayOf(w) THEN [worker[v] EXCEPT !.fresh = FALSE]
                    ELSE worker[v]]

\* Slip: the put does not look at the etag.
SaveBlindly(w, rec, l) == Write(w, rec, l)

\* save: go on as l, or have the message redelivered.
Save(w, rec, l) ==
    \/ /\ worker[w].fresh
       /\ Write(w, rec, l)
    \/ /\ ~worker[w].fresh
       /\ Become(w, Only(w, "retry"))
       /\ UNCHANGED <<record, old>>

\* The invocation that has just read or written rec.
Holding(w, step, rec) ==
    [worker[w] EXCEPT !.pc = step, !.seen = rec, !.fresh = TRUE]

-----------------------------------------------------------------------------
(***************************************************************************)
(* enqueueDailyDigest, which POST /digest and the 04:00 cron call: a       *)
(* request is for the day on which it is made.                             *)
(* Bound: one request at a time, while run ids are left for redeliveries.  *)
(***************************************************************************)
Request(d) ==
    /\ d >= today
    /\ \A m \in queue : m.step # "start"
    /\ \A w \in Workers : Busy(w) => worker[w].msg.step # "start"
    /\ Cardinality(Runs \ minted) > MaxRetries
    /\ today' = d
    /\ queue' = queue \union {StartMessage(d)}
    /\ UNCHANGED <<record, old, catalogueVars, worker, minted, faults, lost>>

\* Bound: a start is delivered only while there is a run id for it.
RunLeftFor(m) ==
    m.step = "start" =>
        Cardinality({v \in Workers : worker[v].pc \in {"open", "begin"}})
            < Cardinality(Runs \ minted)

Take(w, m) ==
    /\ ~Busy(w)
    /\ m \in queue
    /\ RunLeftFor(m)
    /\ Become(w, [Idle EXCEPT !.pc = IF m.step = "start" THEN "open" ELSE "read",
                              !.msg = m])

Deliver(w, m) ==
    /\ Take(w, m)
    /\ queue' = queue \ {m}
    /\ UNCHANGED <<record, old, catalogueVars, clockVars, faults, lost>>

DeliverTwice(w, m) ==
    /\ Take(w, m)
    /\ Fault("duplicate")
    /\ UNCHANGED <<record, old, catalogueVars, queue, clockVars, lost>>

\* The delivery ends without having done its work.
Fails(w) ==
    lost' = IF Last(w) THEN lost \union {<<DayOf(w), worker[w].msg.step>>} ELSE lost

\* The invocation ends without an ack: the message goes back if it may.
GiveBack(w) ==
    /\ queue' = IF Last(w) THEN queue
                ELSE queue \union {[worker[w].msg EXCEPT !.tries = @ + 1]}
    /\ Fails(w)
    /\ Become(w, Idle)

Ack(w) ==
    /\ worker[w].pc = "ack"
    /\ Become(w, Idle)
    /\ UNCHANGED <<onlyWorker, faults>>

Retry(w) ==
    /\ worker[w].pc = "retry"
    /\ GiveBack(w)
    /\ UNCHANGED <<record, old, catalogueVars, clockVars, faults>>

Crash(w) ==
    /\ Busy(w)
    /\ Fault("crash")
    /\ GiveBack(w)
    /\ UNCHANGED <<record, old, catalogueVars, clockVars>>

Send(w) ==
    /\ worker[w].pc = "send"
    /\ LET ms == worker[w].out
       IN  /\ queue' = queue \union {Head(ms)}
           /\ Become(w, IF Len(ms) = 1 THEN Only(w, "ack") ELSE Sending(w, Tail(ms)))
    /\ UNCHANGED <<record, old, catalogueVars, clockVars, faults, lost>>

SendFails(w) ==
    /\ worker[w].pc = "send"
    /\ Fault("send")
    /\ queue' \in {queue, queue \union {Head(worker[w].out)}}
    /\ Become(w, Only(w, "retry"))
    /\ UNCHANGED <<record, old, catalogueVars, clockVars, lost>>

-----------------------------------------------------------------------------
(***************************************************************************)
(* stepStart.                                                              *)
(***************************************************************************)
OpenDay(w) ==
    /\ worker[w].pc = "open"
    /\ Become(w, Holding(w, "begin", record[DayOf(w)]))
    /\ UNCHANGED <<onlyWorker, faults>>

\* Slip: nobody watches the run.
BeginRunUnwatched(w) ==
    /\ worker[w].pc = "begin"
    /\ worker[w].fresh
    /\ \E r \in Runs \ minted :
         LET rec == BlankRecord(r)
         IN  /\ Write(w, rec, Sending(w, <<MessageFor(DayOf(w), rec)>>))
             /\ minted' = minted \union {r}
    /\ UNCHANGED <<catalogueVars, queue, today, faults, lost>>

BeginRun(w) ==
    /\ worker[w].pc = "begin"
    /\ worker[w].fresh
    /\ \E r \in Runs \ minted :
         LET rec == BlankRecord(r)
         IN  /\ Write(w, rec, Sending(w, <<MessageFor(DayOf(w), rec),
                                           WatchdogMessage(DayOf(w), r)>>))
             /\ minted' = minted \union {r}
    /\ UNCHANGED <<catalogueVars, queue, today, faults, lost>>

BeginLost(w) ==
    /\ worker[w].pc = "begin"
    /\ ~worker[w].fresh
    /\ Become(w, Only(w, IF Last(w) THEN "ack" ELSE "retry"))
    /\ UNCHANGED <<onlyWorker, faults>>

-----------------------------------------------------------------------------
(***************************************************************************)
(* dispatch: the read of the record, and where it leads.                   *)
(***************************************************************************)
Found(w) == record[DayOf(w)]
Mine(w)  == worker[w].pc = "read" /\ Found(w).run = worker[w].msg.run

IgnoreOtherRun(w) ==
    /\ worker[w].pc = "read"
    /\ Found(w).run # worker[w].msg.run
    /\ Become(w, Only(w, "ack"))
    /\ UNCHANGED <<onlyWorker, faults>>

\* Slip: a finished run has nothing to repair.
AfterObservingNothing(status) == IF status \in Finished THEN "ack" ELSE "list"

\* A finished run: its issue is taken down once more if it has none.
AfterObserving(status) == IF status = "published" THEN "ack" ELSE "list"

ObserveFinished(w) ==
    /\ Mine(w)
    /\ Found(w).status \in Finished
    /\ Become(w, Only(w, AfterObserving(Found(w).status)))
    /\ UNCHANGED <<onlyWorker, faults>>

\* Slip: whatever has become of the run.
OnAny(w) == Mine(w)

OnRunning(w) == Mine(w) /\ Found(w).status = "running"

\* stepWatchdog: come back later, ...
KeepWatching(w) ==
    /\ OnRunning(w)
    /\ worker[w].msg.step = "watchdog"
    /\ ~old[DayOf(w)]
    /\ Become(w, Sending(w, <<WatchdogMessage(DayOf(w), Found(w).run)>>))
    /\ UNCHANGED <<onlyWorker, faults>>

\* ... or fail the run.
FailStuckRun(w) ==
    /\ OnRunning(w)
    /\ worker[w].msg.step = "watchdog"
    /\ old[DayOf(w)]
    /\ Become(w, Finishing(Holding(w, "finish", Found(w)), "failed"))
    /\ UNCHANGED <<onlyWorker, faults>>

Aligned(m, rec) ==
    /\ m.step = rec.phase
    /\ m.step = "publish" \/ m.cursor = rec.cursor

\* alignOrRepair: a message for another step sends the one that is due.
Repair(w) ==
    /\ OnRunning(w)
    /\ worker[w].msg.step # "watchdog"
    /\ ~Aligned(worker[w].msg, Found(w))
    /\ Become(w, Sending(w, <<MessageFor(DayOf(w), Found(w))>>))
    /\ UNCHANGED <<onlyWorker, faults>>

Summarized(rec) == rec.phase = "summarize" /\ rec.cursor >= rec.size

(***************************************************************************)
(* What the aligned step does before it touches the record.  The branch    *)
(* that promotes a complete list of summaries to publish is left out: by   *)
(* DeadBranches of DigestRunProperties no record takes it.                 *)
(***************************************************************************)
FirstMove(w, rec) ==
    IF rec.phase = "publish" /\ Last(w)
    THEN Finishing(Holding(w, "finish", rec), "failed")
    ELSE IF Summarized(rec)
    THEN Finishing(Holding(w, "finish", rec), WithoutSummaries(rec))
    ELSE Holding(w, "touch", rec)

StartStep(w) ==
    /\ OnRunning(w)
    /\ Aligned(worker[w].msg, Found(w))
    /\ Become(w, FirstMove(w, Found(w)))
    /\ UNCHANGED <<onlyWorker, faults>>

-----------------------------------------------------------------------------
(***************************************************************************)
(* The steps of a run.  Reading candidates, judging and summarizing them   *)
(* change nothing that is shared, so they belong to the save that follows. *)
(***************************************************************************)
stepOnly == <<catalogueVars, queue, clockVars, faults, lost>>

\* touch: the record is alive.
Touch(w) ==
    /\ worker[w].pc = "touch"
    /\ Save(w, worker[w].seen, Holding(w, "work", worker[w].seen))
    /\ UNCHANGED stepOnly

SaveAndSend(w, rec) == Save(w, rec, Sending(w, <<MessageFor(DayOf(w), rec)>>))

PlanPage(w) ==
    /\ worker[w].pc = "work"
    /\ worker[w].seen.phase = "plan"
    /\ LET rec == worker[w].seen
       IN  \/ /\ rec.cursor + 1 < MaxPages
              /\ SaveAndSend(w, [rec EXCEPT !.cursor = @ + 1])
           \/ \E n \in 0 .. MaxRefs :
                SaveAndSend(w, [rec EXCEPT !.phase = "evaluate", !.cursor = 0, !.size = n])
    /\ UNCHANGED stepOnly

(***************************************************************************)
(* The loop passes over candidates that need no judgment and stops after   *)
(* one that does.  It is done at the end of the list, when the judgments   *)
(* are used up, or when the selection is saturated.  A last delivery       *)
(* skips the judgment.                                                     *)
(***************************************************************************)
Evaluations(rec, last) ==
    { e \in [cursor: rec.cursor .. rec.size, exhausted: BOOLEAN, done: BOOLEAN] :
        /\ e.cursor = rec.size => e.done
        /\ e.cursor = rec.cursor => e.done /\ e.exhausted = rec.exhausted
        /\ e.exhausted # rec.exhausted => last /\ e.exhausted
        /\ last /\ ~e.done => e.exhausted }

Evaluate(w) ==
    /\ worker[w].pc = "work"
    /\ worker[w].seen.phase = "evaluate"
    /\ \E e \in Evaluations(worker[w].seen, Last(w)) :
         LET rec == [worker[w].seen EXCEPT !.cursor = e.cursor, !.exhausted = e.exhausted]
         IN  IF e.done THEN Save(w, rec, Holding(w, "choose", rec))
                       ELSE SaveAndSend(w, rec)
    /\ UNCHANGED stepOnly

\* beginSummarize.
ChooseNone(w) ==
    /\ worker[w].pc = "choose"
    /\ Become(w, Finishing(worker[w], WithoutSummaries(worker[w].seen)))
    /\ UNCHANGED <<onlyWorker, faults>>

Choose(w) ==
    /\ worker[w].pc = "choose"
    /\ \E n \in 1 .. MaxPicks :
         SaveAndSend(w, [worker[w].seen EXCEPT
                           !.phase = "summarize", !.cursor = 0, !.size = n])
    /\ UNCHANGED stepOnly

\* Slip: the last article ends the summaries, whatever became of them.
PhaseAfterAlways(rec) == IF rec.cursor = rec.size THEN "publish" ELSE "summarize"

PhaseAfter(rec) ==
    IF rec.cursor = rec.size /\ rec.kept THEN "publish" ELSE "summarize"

\* One article: its summary is kept or skipped, always skipped if last.
Summarize(w) ==
    /\ worker[w].pc = "work"
    /\ worker[w].seen.phase = "summarize"
    /\ \E good \in IF Last(w) THEN {FALSE} ELSE BOOLEAN :
         LET counted == [worker[w].seen EXCEPT
                           !.cursor = @ + 1, !.kept = @ \/ good, !.exhausted = @ \/ Last(w)]
             rec == [counted EXCEPT !.phase = PhaseAfter(counted)]
         IN  IF Summarized(rec)
             THEN Save(w, rec, Finishing(Holding(w, "finish", rec), WithoutSummaries(rec)))
             ELSE SaveAndSend(w, rec)
    /\ UNCHANGED stepOnly

-----------------------------------------------------------------------------
(***************************************************************************)
(* stepPublish: the catalogue, the history, and then the record.  There is *)
(* always a summary to publish, again by DeadBranches.                     *)
(***************************************************************************)
StoreIssue(w) ==
    /\ worker[w].pc = "work"
    /\ worker[w].seen.phase = "publish"
    /\ issue' = [issue EXCEPT ![DayOf(w)] = worker[w].seen.run]
    /\ Become(w, [worker[w] EXCEPT !.pc = "list", !.goal = "published"])
    /\ UNCHANGED <<record, old, history, queue, clockVars, faults, lost>>

\* removeDailyDigests: list the issues of every day, ...
Publishing(w) == worker[w].goal = "published"
Removing(w, ds) ==
    IF ds # {} THEN [worker[w] EXCEPT !.pc = "delete", !.doomed = ds]
    ELSE IF Publishing(w) THEN [worker[w] EXCEPT !.pc = "history", !.doomed = {}]
    ELSE Only(w, "ack")

\* Slip: the issue that was just stored is removed with the others.
ExceptedNone(w) == {}

\* exceptId.
Excepted(w) == IF Publishing(w) THEN {DayOf(w)} ELSE {}

ListIssues(w) ==
    /\ worker[w].pc = "list"
    /\ Become(w, Removing(w, {d \in Days : issue[d] # NoRun} \ Excepted(w)))
    /\ UNCHANGED <<onlyWorker, faults>>

\* ... and delete them one by one.
DeleteIssue(w) ==
    /\ worker[w].pc = "delete"
    /\ \E d \in worker[w].doomed :
         /\ issue' = [issue EXCEPT ![d] = NoRun]
         /\ Become(w, Removing(w, worker[w].doomed \ {d}))
    /\ UNCHANGED <<record, old, history, queue, clockVars, faults, lost>>

\* removeCurrentIssue swallows the exception.
RemovalFails(w) ==
    /\ worker[w].pc \in RemoveSteps
    /\ ~Publishing(w)
    /\ Fault("throw")
    /\ Fails(w)
    /\ Become(w, Only(w, IF Last(w) THEN "ack" ELSE "retry"))
    /\ UNCHANGED <<record, old, catalogueVars, queue, clockVars>>

ReplaceHistory(w) ==
    /\ worker[w].pc = "history"
    /\ history' = [history EXCEPT ![DayOf(w)] = worker[w].seen.run]
    /\ Goto(w, "finish")
    /\ UNCHANGED <<record, old, issue, queue, clockVars, faults, lost>>

-----------------------------------------------------------------------------
(***************************************************************************)
(* finishPublished, finishEmpty, failDay.                                  *)
(***************************************************************************)
Finish(w) ==
    /\ worker[w].pc = "finish"
    /\ worker[w].fresh
    /\ LET status == worker[w].goal
       IN  Write(w, [worker[w].seen EXCEPT !.status = status],
                 Only(w, IF status = "published" THEN "ack" ELSE "list"))
    /\ UNCHANGED stepOnly

FinishLost(w) ==
    /\ worker[w].pc = "finish"
    /\ ~worker[w].fresh
    /\ Become(w, IF worker[w].goal = "failed"
                 THEN [worker[w] EXCEPT !.pc = "recheck"] ELSE Only(w, "retry"))
    /\ UNCHANGED <<onlyWorker, faults>>

\* failDay lost the record: is the run finished by someone else?
FinishedElsewhere(w) ==
    /\ Found(w).run = worker[w].seen.run
    /\ Found(w).status # "running"

AckSettled(w) ==
    /\ worker[w].pc = "recheck"
    /\ FinishedElsewhere(w)
    /\ Become(w, Only(w, "ack"))
    /\ UNCHANGED <<onlyWorker, faults>>

\* Not so, or it cannot be read: try again, or leave the record as it is.
LeaveUnsaved(w) ==
    /\ worker[w].pc = "recheck"
    /\ \/ ~FinishedElsewhere(w) /\ UNCHANGED faults
       \/ Fault("throw")
    /\ Fails(w)
    /\ Become(w, Only(w, IF Last(w) THEN "ack" ELSE "retry"))
    /\ UNCHANGED <<record, old, catalogueVars, queue, clockVars>>

-----------------------------------------------------------------------------
(***************************************************************************)
(* The catch block of processDigestDelivery.                               *)
(***************************************************************************)
Throwing(w) ==
    \/ worker[w].pc \in TrySteps
    \/ worker[w].pc \in RemoveSteps /\ Publishing(w)

Throw(w) ==
    /\ Throwing(w)
    /\ ~worker[w].rescue
    /\ Fault("throw")
    /\ Become(w, Only(w, IF Last(w) THEN "rescue" ELSE "retry"))
    /\ UNCHANGED onlyWorker

Rescuable(w) == IF worker[w].msg.step = "start" THEN Runs ELSE {worker[w].msg.run}

RescueNothing(w) ==
    /\ worker[w].pc = "rescue"
    /\ Found(w).run \notin Rescuable(w)
    /\ Become(w, Only(w, "ack"))
    /\ UNCHANGED <<onlyWorker, faults>>

RescueUnreadable(w) ==
    /\ worker[w].pc = "rescue"
    /\ Fault("throw")
    /\ Fails(w)
    /\ Become(w, Only(w, "ack"))
    /\ UNCHANGED <<record, old, catalogueVars, queue, clockVars>>

\* failDay on whatever the record says.
Rescue(w) ==
    /\ worker[w].pc = "rescue"
    /\ Found(w).run \in Rescuable(w)
    /\ Become(w, [Finishing(Holding(w, "finish", Found(w)), "failed") EXCEPT !.rescue = TRUE])
    /\ UNCHANGED <<onlyWorker, faults>>

\* An exception in the catch block ends the invocation.
RescueThrows(w) ==
    /\ worker[w].rescue
    /\ Throwing(w)
    /\ Fault("throw")
    /\ GiveBack(w)
    /\ UNCHANGED <<record, old, catalogueVars, clockVars>>

-----------------------------------------------------------------------------
\* DIGEST_STEP_STALE_MS pass without a write to the record.
GoStale(d) ==
    /\ record[d].status = "running"
    /\ ~old[d]
    /\ old' = [old EXCEPT ![d] = TRUE]
    /\ UNCHANGED <<record, catalogueVars, queue, worker, clockVars, faults, lost>>

Init ==
    /\ record  = [d \in Days |-> NoRecord]
    /\ old     = [d \in Days |-> FALSE]
    /\ issue   = [d \in Days |-> NoRun]
    /\ history = [d \in Days |-> NoRun]
    /\ queue   = {}
    /\ worker  = [w \in Workers |-> Idle]
    /\ today   = 1
    /\ minted  = {}
    /\ faults  = 0
    /\ lost    = {}

\* What an invocation does by itself ...
Step(w) ==
    \/ Ack(w) \/ Retry(w) \/ Send(w)
    \/ OpenDay(w) \/ BeginRun(w) \/ BeginLost(w)
    \/ IgnoreOtherRun(w) \/ ObserveFinished(w) \/ KeepWatching(w)
    \/ FailStuckRun(w) \/ Repair(w) \/ StartStep(w)
    \/ Touch(w) \/ PlanPage(w) \/ Evaluate(w) \/ ChooseNone(w) \/ Choose(w)
    \/ Summarize(w)
    \/ StoreIssue(w) \/ ListIssues(w) \/ DeleteIssue(w) \/ ReplaceHistory(w)
    \/ Finish(w) \/ FinishLost(w) \/ AckSettled(w) \/ LeaveUnsaved(w)
    \/ RescueNothing(w) \/ Rescue(w)

\* ... and what happens to it.
Mishap(w) ==
    \/ Crash(w) \/ SendFails(w) \/ RemovalFails(w)
    \/ Throw(w) \/ RescueUnreadable(w) \/ RescueThrows(w)

Next ==
    \/ \E d \in Days : Request(d) \/ GoStale(d)
    \/ \E w \in Workers :
         \/ \E m \in queue : Deliver(w, m) \/ DeliverTwice(w, m)
         \/ Step(w)
         \/ Mishap(w)

Spec == Init /\ [][Next]_vars

(***************************************************************************)
(* Time passes, an invocation that is not cut short goes on, and the queue *)
(* delivers while it has messages and an invocation is free.               *)
(***************************************************************************)
Fairness ==
    /\ \A d \in Days : WF_vars(GoStale(d))
    /\ \A w \in Workers : /\ WF_vars(Step(w))
                          /\ WF_vars(\E m \in queue : Deliver(w, m))

FairSpec == Spec /\ Fairness
=============================================================================
