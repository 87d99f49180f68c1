---------------------------- MODULE FeedCollection ----------------------------
(***************************************************************************)
(* The collection of one feed source: the requests that enqueue a run      *)
(* (feeds/enqueue.ts, from the sources page or the cron), the consumer of  *)
(* FEED_QUEUE (queue/feed.ts), and the forms of the sources page that      *)
(* create and edit the source (http/source-routes.ts).  They share one row *)
(* of feed_sources in D1, and every one of them reads the row, works on    *)
(* its copy and writes the whole copy back.                                *)
(*                                                                         *)
(* Sources are collected independently of each other, so one is enough.    *)
(* Of a row the settings are reduced to `enabled`, and the counters and    *)
(* texts are left out; time is the flag `stale`, true once updatedAt is    *)
(* FEED_COLLECTION_STALE_MS in the past.                                   *)
(***************************************************************************)
EXTENDS Naturals

CONSTANTS
    Runs,       \* run ids, one for each request to collect
    NoRun,      \* no run
    Workers,    \* consumer invocations that may run at the same time
    Forms,      \* submissions of the create and edit forms
    MaxRetries, \* FEED_QUEUE_MAX_RETRIES, also max_retries of the queue
    Faults,     \* which of the faults below may happen
    MaxFaults   \* bound: how many of them, time not counted

FaultKinds ==
    { "crash",     \* an invocation or a request ends early
      "throw",     \* a call of D1 or of the collection throws
      "duplicate", \* a message is delivered while it is worked on
      "send",      \* queue.send throws, and the message is not enqueued
      "lost_reply",\* queue.send throws, and the message is enqueued
      "stale" }    \* a queued or running row is left alone for 15 minutes

ASSUME NoRunAssumption   == NoRun \notin Runs
ASSUME RetriesAssumption == MaxRetries \in Nat
ASSUME MaxFaultsAssumption == MaxFaults \in Nat
ASSUME FaultsAssumption  == Faults \subseteq FaultKinds

VARIABLES
    source,  \* the row of the source
    post,    \* the requests to collect: program counter and copy of the row
    form,    \* the form submissions: program counter and copy of the row
    msg,     \* where the message of each run is
    tries,   \* how often it was delivered
    worker,  \* the consumer invocations: program counter and locals
    faults,  \* how many faults have happened
    outcome  \* history: the results that the collections of a run had

queueVars == <<msg, tries>>
histVars  == <<faults, outcome>>
vars == <<source, post, form, msg, tries, worker, faults, outcome>>

RunOrNone == Runs \union {NoRun}
Results   == {"ready", "fetch_failed", "rejected"}

(***************************************************************************)
(* FeedSource.  "absent" is getById returning null, "new" is a null        *)
(* collectionStatus.  "rejected" stands for the errors that are not        *)
(* retried: invalid_feed, payload_too_large, invalid_url.                  *)
(***************************************************************************)
Statuses == {"absent", "new", "queued", "running", "ready", "failed"}
Codes    == {"none", "queue_failed", "fetch_failed", "rejected", "internal_error"}

FeedSource ==
    [run: RunOrNone, status: Statuses, code: Codes, enabled: BOOLEAN, stale: BOOLEAN]

NoSource == [run |-> NoRun, status |-> "absent", code |-> "none",
             enabled |-> FALSE, stale |-> FALSE]

NewSource(on) == [NoSource EXCEPT !.status = "new", !.enabled = on]

MessagePlaces == {"unsent", "waiting", "leased", "acked", "dropped"}

Request    == [pc: {"idle", "put", "send", "fail", "done"}, seen: FeedSource]
Submission == [pc: {"idle", "create", "edit", "done"}, seen: FeedSource]

TrySteps    == {"collect", "reread", "apply"}
UncaughtSteps == {"read", "begin", "recheck", "fail"}
Invocation ==
    [pc: {"idle", "ack", "retry"} \union TrySteps \union UncaughtSteps,
     run: RunOrNone, attempt: Nat, seen: FeedSource, result: Results]

Idle == [pc |-> "idle", run |-> NoRun, attempt |-> 0, seen |-> NoSource,
         result |-> "ready"]

Fault(kind) == kind \in Faults /\ faults < MaxFaults /\ faults' = faults + 1

-----------------------------------------------------------------------------
(* The decisions. *)

isActiveFeedCollection(s) == s.status \in {"queued", "running"} /\ ~s.stale

shouldProcessFeedRun(s, r) ==
    /\ s.run = r
    /\ s.status # "ready"
    /\ s.status = "failed" => s.code = "queue_failed"

\* Slip: the last delivery counts as one too many.
shouldRetryBelow(attempt) == attempt < MaxRetries

shouldRetryFeedAttempt(attempt) == attempt <= MaxRetries

\* Slip: a failed fetch is taken for final, a broken feed for passing.
shouldRetryRejected(result, attempt) ==
    shouldRetryFeedAttempt(attempt) /\ result = "rejected"

shouldRetryFeedError(result, attempt) ==
    shouldRetryFeedAttempt(attempt) /\ result = "fetch_failed"

\* What each write makes of the copy of the row it is based on.
\* Slip: the new run takes over the status of the run before it.
QueuedFromKeeping(s, r) ==
    [s EXCEPT !.run = r, !.code = "none", !.stale = FALSE]

QueuedFrom(s, r) ==
    [s EXCEPT !.run = r, !.status = "queued", !.code = "none", !.stale = FALSE]

FailedFrom(s, code) ==
    [s EXCEPT !.status = "failed", !.code = code, !.stale = FALSE]

RunningFrom(s) == [s EXCEPT !.status = "running", !.stale = FALSE]

\* Slip: the kind of the result is written as the status.
ResultFromKind(s, r, result) ==
    [s EXCEPT !.run = r, !.stale = FALSE, !.status = result,
              !.code = IF result = "ready" THEN "none" ELSE result]

ResultFrom(s, r, result) ==
    [s EXCEPT !.run = r, !.stale = FALSE,
              !.status = IF result = "ready" THEN "ready" ELSE "failed",
              !.code = IF result = "ready" THEN "none" ELSE result]

-----------------------------------------------------------------------------
(***************************************************************************)
(* enqueueCollection, called by POST /sources/:id/collect, and for every   *)
(* enabled source by POST /sources/collect and the cron.                   *)
(***************************************************************************)
requestOnly == <<form, tries, worker, outcome>>

NoRequest(step) == [pc |-> step, seen |-> NoSource]
AskTo(r, step) == post' = [post EXCEPT ![r].pc = step]
Answer(r) == post' = [post EXCEPT ![r] = NoRequest("done")]

\* Read the row; a source that is gone, stopped or busy gets no run.
Lookup(r) ==
    /\ post[r].pc = "idle"
    /\ IF source.status # "absent" /\ source.enabled
          /\ ~isActiveFeedCollection(source)
       THEN post' = [post EXCEPT ![r] = [pc |-> "put", seen |-> source]]
       ELSE Answer(r)
    /\ UNCHANGED <<source, msg, faults, requestOnly>>

PutQueued(r) ==
    /\ post[r].pc = "put"
    /\ source' = QueuedFrom(post[r].seen, r)
    /\ post' = [post EXCEPT ![r] = [pc |-> "send", seen |-> QueuedFrom(@.seen, r)]]
    /\ UNCHANGED <<msg, faults, requestOnly>>

Send(r) ==
    /\ post[r].pc = "send"
    /\ msg' = [msg EXCEPT ![r] = "waiting"]
    /\ Answer(r)
    /\ UNCHANGED <<source, faults, requestOnly>>

SendFails(r) ==
    /\ post[r].pc = "send"
    /\ \/ Fault("send") /\ msg' = msg
       \/ Fault("lost_reply") /\ msg' = [msg EXCEPT ![r] = "waiting"]
    /\ AskTo(r, "fail")
    /\ UNCHANGED <<source, requestOnly>>

PutQueueFailed(r) ==
    /\ post[r].pc = "fail"
    /\ source' = FailedFrom(post[r].seen, "queue_failed")
    /\ Answer(r)
    /\ UNCHANGED <<msg, faults, requestOnly>>

RequestDies(r) ==
    /\ Fault("crash")
    /\ post[r].pc \in {"put", "send", "fail"}
    /\ Answer(r)
    /\ UNCHANGED <<source, msg, requestOnly>>

-----------------------------------------------------------------------------
(***************************************************************************)
(* POST /sources and POST /sources/:id.  Between the read and the write of *)
(* an edit the site and the feed are fetched to resolve their URLs; a form *)
(* that is then turned down is one that is never saved.                    *)
(***************************************************************************)
formOnly == <<post, queueVars, worker, outcome>>

CloseForm(f) == form' = [form EXCEPT ![f] = NoRequest("done")]

OpenForm(f, kind) ==
    /\ form[f].pc = "idle"
    /\ IF (kind = "create") = (source.status = "absent")
       THEN form' = [form EXCEPT ![f] = [pc |-> kind, seen |-> source]]
       ELSE CloseForm(f)
    /\ UNCHANGED <<source, faults, formOnly>>

SaveForm(f) ==
    /\ form[f].pc \in {"create", "edit"}
    /\ \E on \in BOOLEAN :
          source' = IF form[f].pc = "create" THEN NewSource(on)
                    ELSE [form[f].seen EXCEPT !.enabled = on, !.stale = FALSE]
    /\ CloseForm(f)
    /\ UNCHANGED <<faults, formOnly>>

-----------------------------------------------------------------------------
(* The queue. *)

Become(w, l)   == worker' = [worker EXCEPT ![w] = l]
Goto(w, step)  == Become(w, [worker[w] EXCEPT !.pc = step])
Leave(w, step) ==  \* with nothing left to do but to settle the message
    Become(w, [worker[w] EXCEPT !.pc = step, !.seen = NoSource, !.result = "ready"])
Busy(w)        == worker[w].pc # "idle"

Begin(w, r, attempt) ==
    Become(w, [Idle EXCEPT !.pc = "read", !.run = r, !.attempt = attempt])

Deliver(w, r) ==
    /\ ~Busy(w)
    /\ msg[r] = "waiting"
    /\ msg' = [msg EXCEPT ![r] = "leased"]
    /\ tries' = [tries EXCEPT ![r] = @ + 1]
    /\ Begin(w, r, tries[r] + 1)
    /\ UNCHANGED <<source, post, form, histVars>>

DeliverTwice(w, r) ==
    /\ Fault("duplicate")
    /\ ~Busy(w)
    /\ msg[r] = "leased"
    /\ Begin(w, r, tries[r])
    /\ UNCHANGED <<source, post, form, queueVars, outcome>>

\* A delivery ends without an ack: the message comes back or is lost.
HandBack(w) ==
    /\ msg' = IF msg[worker[w].run] # "leased" THEN msg
              ELSE [msg EXCEPT ![worker[w].run] =
                       IF tries[worker[w].run] <= MaxRetries
                       THEN "waiting" ELSE "dropped"]
    /\ Become(w, Idle)
    /\ UNCHANGED <<source, post, form, tries, outcome>>

Ack(w) ==
    /\ worker[w].pc = "ack"
    /\ msg' = [msg EXCEPT ![worker[w].run] = "acked"]
    /\ Become(w, Idle)
    /\ UNCHANGED <<source, post, form, tries, histVars>>

Retry(w) == worker[w].pc = "retry" /\ HandBack(w) /\ UNCHANGED faults

Crash(w) == Fault("crash") /\ Busy(w) /\ HandBack(w)

-----------------------------------------------------------------------------
(* processMessage. *)

consumerOnly == <<post, form, queueVars>>

ReadSource(w) ==
    /\ worker[w].pc = "read"
    /\ IF shouldProcessFeedRun(source, worker[w].run)
       THEN Become(w, [worker[w] EXCEPT !.pc = "begin", !.seen = source])
       ELSE Leave(w, "ack")
    /\ UNCHANGED <<source, consumerOnly, histVars>>

PutRunning(w) ==
    /\ worker[w].pc = "begin"
    /\ source' = RunningFrom(worker[w].seen)
    /\ Goto(w, "collect")
    /\ UNCHANGED <<consumerOnly, histVars>>

\* collectFeed: what comes of the feed and its items.  A stopped source is
\* not fetched and counts as collected.
CollectFeed(w) ==
    /\ worker[w].pc = "collect"
    /\ \E result \in IF worker[w].seen.enabled THEN Results ELSE {"ready"} :
          /\ Become(w, [worker[w] EXCEPT !.pc = "reread", !.result = result])
          /\ outcome' = [outcome EXCEPT ![worker[w].run] = @ \union {result}]
    /\ UNCHANGED <<source, consumerOnly, faults>>

\* Is the run still the source's?  Is it worth another delivery?
Reread(w) ==
    /\ worker[w].pc = "reread"
    /\ LET latest == IF source.status = "absent" THEN worker[w].seen ELSE source IN
       CASE latest.run # worker[w].run -> Leave(w, "ack")
         [] latest.run = worker[w].run
            /\ shouldRetryFeedError(worker[w].result, worker[w].attempt) ->
               Leave(w, "retry")
         [] OTHER -> Become(w, [worker[w] EXCEPT !.pc = "apply", !.seen = latest])
    /\ UNCHANGED <<source, consumerOnly, histVars>>

ApplyResult(w) ==
    /\ worker[w].pc = "apply"
    /\ source' = ResultFrom(worker[w].seen, worker[w].run, worker[w].result)
    /\ Leave(w, "ack")
    /\ UNCHANGED <<consumerOnly, histVars>>

\* A call inside the try block throws, before or after it did its work.  The
\* catch block retries, or reads the row again and fails it.
Throw(w) ==
    /\ Fault("throw")
    /\ worker[w].pc \in TrySteps
    /\ \/ source' = source
       \/ worker[w].pc = "apply"
          /\ source' = ResultFrom(worker[w].seen, worker[w].run, worker[w].result)
    /\ IF shouldRetryFeedAttempt(worker[w].attempt)
       THEN Leave(w, "retry") ELSE Goto(w, "recheck")
    /\ UNCHANGED <<consumerOnly, outcome>>

Recheck(w) ==
    /\ worker[w].pc = "recheck"
    /\ Become(w, [worker[w] EXCEPT
          !.pc = "fail",
          !.seen = IF source.status = "absent" THEN @ ELSE source])
    /\ UNCHANGED <<source, consumerOnly, histVars>>

PutFailed(w) ==
    /\ worker[w].pc = "fail"
    /\ source' = FailedFrom(worker[w].seen, "internal_error")
    /\ Leave(w, "ack")
    /\ UNCHANGED <<consumerOnly, histVars>>

\* A call outside the try block throws, before or after it did its work:
\* createFeedQueueHandler acknowledges the message.
ThrowUncaught(w) ==
    /\ Fault("throw")
    /\ worker[w].pc \in UncaughtSteps
    /\ \/ source' = source
       \/ worker[w].pc = "begin" /\ source' = RunningFrom(worker[w].seen)
       \/ worker[w].pc = "fail"
          /\ source' = FailedFrom(worker[w].seen, "internal_error")
    /\ Leave(w, "ack")
    /\ UNCHANGED <<consumerOnly, outcome>>

GoStale ==
    /\ "stale" \in Faults
    /\ isActiveFeedCollection(source)
    /\ source' = [source EXCEPT !.stale = TRUE]
    /\ UNCHANGED <<consumerOnly, worker, histVars>>

-----------------------------------------------------------------------------
Init ==
    /\ source \in {NoSource, NewSource(TRUE)}
    /\ post = [r \in Runs |-> NoRequest("idle")]
    /\ form = [f \in Forms |-> NoRequest("idle")]
    /\ msg = [r \in Runs |-> "unsent"]
    /\ tries = [r \in Runs |-> 0]
    /\ worker = [w \in Workers |-> Idle]
    /\ faults = 0
    /\ outcome = [r \in Runs |-> {}]

RequestStep(r) == PutQueued(r) \/ Send(r) \/ SendFails(r) \/ PutQueueFailed(r)

ConsumerStep(w) ==
    \/ ReadSource(w) \/ PutRunning(w) \/ CollectFeed(w) \/ Reread(w)
    \/ ApplyResult(w) \/ Recheck(w) \/ PutFailed(w) \/ Ack(w) \/ Retry(w)

\* What users and faults do; nothing makes them.
Environment ==
    \/ \E r \in Runs : Lookup(r) \/ RequestDies(r)
    \/ \E f \in Forms, kind \in {"create", "edit"} : OpenForm(f, kind)
    \/ \E w \in Workers, r \in Runs : DeliverTwice(w, r)
    \/ \E w \in Workers : Crash(w) \/ Throw(w) \/ ThrowUncaught(w)
    \/ GoStale

Next ==
    \/ \E r \in Runs : RequestStep(r)
    \/ \E f \in Forms : SaveForm(f)
    \/ \E w \in Workers, r \in Runs : Deliver(w, r)
    \/ \E w \in Workers : ConsumerStep(w)
    \/ Environment

Spec == Init /\ [][Next]_vars
=============================================================================
