------------------------------- MODULE ClipJob -------------------------------
(***************************************************************************)
(* The life of one clipped URL: HTTP requests that record a job and put a  *)
(* message on the queue (job/enqueue.ts), the queue that delivers it at    *)
(* least once, the consumer invocations that turn it into an article       *)
(* (queue/clip.ts, pipeline/clip.ts), and the objects they share: the job  *)
(* record, the translation checkpoint, the EPUB and its metadata in R2,    *)
(* and the candidate row in D1.                                            *)
(*                                                                         *)
(* Every R2 or D1 call of the code is an await, so every call is a step of *)
(* its own here and all the processes interleave between any two of them.  *)
(* No store operation is conditional: a put overwrites whatever is there.  *)
(*                                                                         *)
(* A request mints at most one runId, so a request is named by the run it  *)
(* may create.  An EPUB, a metadata object, and a checkpoint are each      *)
(* represented by the run whose translation they hold.                     *)
(***************************************************************************)
EXTENDS ClipRules

CONSTANTS
    Workers,        \* consumer invocations that may run at the same time
    Faults,         \* which of the faults below the environment may produce
    OverlapRequests \* may two requests for the URL be in flight together?

FaultKinds ==
    { "crash",      \* an invocation ends without ack: CPU limit, eviction
      "throw",      \* an R2 call, or the pipeline, throws in the consumer
      "duplicate",  \* the queue hands out a message that is still leased
      "send",       \* queue.send throws and nothing was enqueued
      "lost_reply", \* queue.send throws although the message was enqueued
      "stale",      \* a queued or running record grows 15 minutes old
      "delete" }    \* DELETE of the article

ASSUME FaultsAssumption == Faults \subseteq FaultKinds
ASSUME OverlapAssumption == OverlapRequests \in BOOLEAN

VARIABLES
    job,      \* jobs/{jobId}.json
    ckpt,     \* jobs/{jobId}.checkpoint.json: the run it belongs to
    epub,     \* articles/{id}/book.epub: the run that produced it
    meta,     \* articles/{id}/meta.json: the run and whether it is labelled
    cand,     \* the candidate row of the URL, as far as clipping writes it
    msg,      \* queue: where the message of each run is
    tries,    \* queue: how often the message of each run was delivered
    post,     \* the request that mints each run: its program counter
    worker,   \* the consumer invocations: program counter and locals
    stored,   \* history: runs whose store.put came to its end
    rebuild,  \* history: runs asked to retry after a failed EPUB build,
              \* until they are ready or given up
    deleted   \* history: has the article been deleted?

articleVars == <<epub, meta, cand>>
queueVars   == <<msg, tries>>
histVars    == <<stored, rebuild, deleted>>
vars == <<job, ckpt, epub, meta, cand, msg, tries, post, worker,
          stored, rebuild, deleted>>

ArticleMeta == [of: RunOrNone, label: BOOLEAN]
NoMeta == [of |-> NoRun, label |-> FALSE]

\* completedArticleId is set or not: one URL has one article id.
CandidateRow == [run: RunOrNone, done: BOOLEAN]
NoLink == [run |-> NoRun, done |-> FALSE]

MessagePlaces == {"unsent", "waiting", "leased", "acked", "dropped"}
RequestSteps  == {"idle", "put", "send", "fail", "record", "done"}

\* The steps of a consumer invocation, in the order of the code, ...
TrySteps ==
    { "read", "loadCkpt", "purgeCkpt", "translate", "saveCheck", "saveCkpt",
      "build", "confirmPut", "putEpub", "putMeta", "confirmClassify",
      "classify", "confirmLabel", "readMeta", "writeMeta" }
\* ... the ones that the try block and its catch block share, ...
SharedSteps == {"findCkpt", "dropCkpt", "checkRun", "writeJob"}
\* ... and the ones that no exception leaves.
LastSteps   == {"findCand", "attach", "ack", "retry"}
Steps == {"idle"} \union TrySteps \union SharedSteps \union LastSteps
Goals == {"none", "skip", "running", "retry", "ready", "failed"}

Invocation ==
    [pc: Steps, run: RunOrNone, attempt: Nat, goal: Goals, caught: BOOLEAN,
     text: RunOrNone, seen: ArticleMeta, row: CandidateRow]

Idle == [pc |-> "idle", run |-> NoRun, attempt |-> 0, goal |-> "none",
         caught |-> FALSE, text |-> NoRun, seen |-> NoMeta, row |-> NoLink]

Busy(w) == worker[w].pc # "idle"

\* Only w moves: to a whole new invocation, ...
Become(w, l) == worker' = [worker EXCEPT ![w] = l]
\* ... or to another step, with the goal and the locals it had.
Goto(w, step) == Become(w, [worker[w] EXCEPT !.pc = step])

-----------------------------------------------------------------------------
(***************************************************************************)
(* enqueueClipJob: the requests POST /clip, POST /clip/web and the         *)
(* candidate routes make.  All of them pass reuseReady = false.            *)
(***************************************************************************)
RequestOpen(p) == post[p] \notin {"idle", "done"}

\* getJob and the early return for an active job.
Lookup(p) ==
    /\ post[p] = "idle"
    /\ OverlapRequests \/ \A q \in Runs : ~RequestOpen(q)
    /\ post' = [post EXCEPT ![p] = IF isActiveClipJob(job) THEN "done" ELSE "put"]
    /\ UNCHANGED <<job, ckpt, articleVars, queueVars, worker, histVars>>

PutQueued(p) ==
    /\ post[p] = "put"
    /\ job' = JobOf(p, "queued", "none")
    /\ post' = [post EXCEPT ![p] = "send"]
    /\ UNCHANGED <<ckpt, articleVars, queueVars, worker, histVars>>

Send(p) ==
    /\ post[p] = "send"
    /\ msg' = [msg EXCEPT ![p] = "waiting"]
    /\ post' = [post EXCEPT ![p] = "record"]
    /\ UNCHANGED <<job, ckpt, articleVars, tries, worker, histVars>>

SendFails(p) ==
    /\ post[p] = "send"
    /\ \/ "send" \in Faults /\ UNCHANGED msg
       \/ "lost_reply" \in Faults /\ msg' = [msg EXCEPT ![p] = "waiting"]
    /\ post' = [post EXCEPT ![p] = "fail"]
    /\ UNCHANGED <<job, ckpt, articleVars, tries, worker, histVars>>

PutQueueFailed(p) ==
    /\ post[p] = "fail"
    /\ job' = JobOf(p, "failed", "queue_failed")
    /\ post' = [post EXCEPT ![p] = "done"]
    /\ UNCHANGED <<ckpt, articleVars, queueVars, worker, histVars>>

\* The put of `recorded`, after the send: the queued record once more.
PutRecorded(p) ==
    /\ post[p] = "record"
    /\ job' = JobOf(p, "queued", "none")
    /\ post' = [post EXCEPT ![p] = "done"]
    /\ UNCHANGED <<ckpt, articleVars, queueVars, worker, histVars>>

\* The request ends where it is: R2 throws, or its invocation is evicted.
RequestDies(p) ==
    /\ "crash" \in Faults
    /\ RequestOpen(p)
    /\ post' = [post EXCEPT ![p] = "done"]
    /\ UNCHANGED <<job, ckpt, articleVars, queueVars, worker, histVars>>

-----------------------------------------------------------------------------
(***************************************************************************)
(* The queue: at least once, max_retries redeliveries, no dead letters.    *)
(***************************************************************************)
Begin(w, r, attempt) ==
    Become(w, [Idle EXCEPT !.pc = "read", !.run = r, !.attempt = attempt])

Deliver(w, r) ==
    /\ ~Busy(w)
    /\ msg[r] = "waiting"
    /\ msg' = [msg EXCEPT ![r] = "leased"]
    /\ tries' = [tries EXCEPT ![r] = @ + 1]
    /\ Begin(w, r, tries[r] + 1)
    /\ UNCHANGED <<job, ckpt, articleVars, post, histVars>>

DeliverTwice(w, r) ==
    /\ "duplicate" \in Faults
    /\ ~Busy(w)
    /\ msg[r] = "leased"
    /\ Begin(w, r, tries[r])
    /\ UNCHANGED <<job, ckpt, articleVars, queueVars, post, histVars>>

\* The lease of r ends without an ack.
Returned(r) ==
    IF msg[r] # "leased" THEN msg
    ELSE [msg EXCEPT ![r] = IF tries[r] <= MaxRetries THEN "waiting" ELSE "dropped"]

Ack(w) ==
    /\ worker[w].pc = "ack"
    /\ msg' = [msg EXCEPT ![worker[w].run] = "acked"]
    /\ Become(w, Idle)
    /\ UNCHANGED <<job, ckpt, articleVars, tries, post, histVars>>

Retry(w) ==
    /\ worker[w].pc = "retry"
    /\ msg' = Returned(worker[w].run)
    /\ Become(w, Idle)
    /\ UNCHANGED <<job, ckpt, articleVars, tries, post, histVars>>

Crash(w) ==
    /\ "crash" \in Faults
    /\ Busy(w)
    /\ msg' = Returned(worker[w].run)
    /\ Become(w, Idle)
    /\ UNCHANGED <<job, ckpt, articleVars, tries, post, histVars>>

-----------------------------------------------------------------------------
(***************************************************************************)
(* runClipQueueMessage, up to the pipeline.                                *)
(***************************************************************************)
consumerOnly == <<post, queueVars>>

\* The first getJob: work on the message, or drop it.
ReadJob(w) ==
    /\ worker[w].pc = "read"
    /\ IF shouldProcessClipRun(job, worker[w].run)
       THEN Become(w, [worker[w] EXCEPT !.pc = "checkRun", !.goal = "running"])
       ELSE Become(w, [worker[w] EXCEPT !.pc = "findCkpt", !.goal = "skip"])
    /\ UNCHANGED <<job, ckpt, articleVars, consumerOnly, histVars>>

\* putJobIfCurrentRun: the read ...
AfterLosingTheJob(goal) == IF goal = "retry" THEN "retry" ELSE "ack"

\* Slip: an invocation that lost the job waits for its turn.
CheckRunWaiting(w) ==
    /\ worker[w].pc = "checkRun"
    /\ Goto(w, IF job.run \in {NoRun, worker[w].run} THEN "writeJob" ELSE "checkRun")
    /\ UNCHANGED <<job, ckpt, articleVars, consumerOnly, histVars>>

CheckRun(w) ==
    /\ worker[w].pc = "checkRun"
    /\ Goto(w, IF job.run \in {NoRun, worker[w].run}
               THEN "writeJob" ELSE AfterLosingTheJob(worker[w].goal))
    /\ UNCHANGED <<job, ckpt, articleVars, consumerOnly, histVars>>

\* Slip: the record says that it waits for a retry, which is not a status.
RecordForRetrying(l) ==
    CASE l.goal = "running" -> JobOf(l.run, "running", "none")
      [] l.goal = "ready"   -> JobOf(l.run, "ready", "none")
      [] l.goal = "retry"   -> JobOf(l.run, "retrying", "none")
      [] OTHER              -> JobOf(l.run, "failed", "pipeline")

\* ... and the put, which trusts the read.
RecordFor(l) ==
    CASE l.goal \in {"running", "retry"} -> JobOf(l.run, "running", "none")
      [] l.goal = "ready"  -> JobOf(l.run, "ready", "none")
      [] OTHER -> JobOf(l.run, "failed",
                        IF l.caught THEN "internal_error" ELSE "pipeline")

\* Slip: a finished run leaves its checkpoint behind.
AfterWritingKeepsCheckpoint(goal) ==
    CASE goal = "running" -> "loadCkpt"
      [] goal = "ready"   -> "findCand"
      [] goal = "retry"   -> "retry"
      [] OTHER            -> "ack"

AfterWriting(goal) ==
    CASE goal = "running" -> "loadCkpt"
      [] goal = "ready"   -> "findCkpt"
      [] goal = "retry"   -> "retry"
      [] OTHER            -> "ack"

WriteJob(w) ==
    /\ worker[w].pc = "writeJob"
    /\ job' = RecordFor(worker[w])
    /\ Goto(w, AfterWriting(worker[w].goal))
    /\ rebuild' = IF worker[w].goal = "ready" THEN rebuild \ {worker[w].run} ELSE rebuild
    /\ UNCHANGED <<ckpt, articleVars, consumerOnly, stored, deleted>>

\* Slip: a skipped message attaches its candidate like a finished one.
AfterTheCheckpointAttach(goal) ==
    IF goal \in {"skip", "ready"} THEN "findCand" ELSE "checkRun"

\* Slip: a run that is given up is acknowledged without its record.
AfterTheCheckpointSilent(goal) ==
    CASE goal \in {"skip", "failed"} -> "ack"
      [] goal = "ready" -> "findCand"
      [] OTHER          -> "checkRun"

\* deleteCheckpointForRun: the read and, if the checkpoint is ours, the delete.
AfterTheCheckpoint(goal) ==
    CASE goal = "skip"  -> "ack"
      [] goal = "ready" -> "findCand"
      [] OTHER          -> "checkRun"

FindCheckpoint(w) ==
    /\ worker[w].pc = "findCkpt"
    /\ Goto(w, IF ckpt = worker[w].run
               THEN "dropCkpt" ELSE AfterTheCheckpoint(worker[w].goal))
    /\ UNCHANGED <<job, ckpt, articleVars, consumerOnly, histVars>>

DropCheckpoint(w) ==
    /\ worker[w].pc = "dropCkpt"
    /\ ckpt' = NoRun
    /\ Goto(w, AfterTheCheckpoint(worker[w].goal))
    /\ UNCHANGED <<job, articleVars, consumerOnly, histVars>>

\* Slip: any translation of the URL will do.
LoadAnyCheckpoint(w) ==
    /\ worker[w].pc = "loadCkpt"
    /\ IF ckpt # NoRun
       THEN Become(w, [worker[w] EXCEPT !.pc = "build", !.text = ckpt])
       ELSE Goto(w, "translate")
    /\ UNCHANGED <<job, ckpt, articleVars, consumerOnly, histVars>>

\* checkpointForRun: resume from our own translation, discard another run's.
LoadCheckpoint(w) ==
    /\ worker[w].pc = "loadCkpt"
    /\ IF ckpt = worker[w].run
       THEN Become(w, [worker[w] EXCEPT !.pc = "build", !.text = ckpt])
       ELSE Goto(w, IF ckpt = NoRun THEN "translate" ELSE "purgeCkpt")
    /\ UNCHANGED <<job, ckpt, articleVars, consumerOnly, histVars>>

PurgeCheckpoint(w) ==
    /\ worker[w].pc = "purgeCkpt"
    /\ ckpt' = NoRun
    /\ Goto(w, "translate")
    /\ UNCHANGED <<job, articleVars, consumerOnly, histVars>>

-----------------------------------------------------------------------------
(***************************************************************************)
(* The pipeline, its onTranslated hook, and what its errors lead to.       *)
(***************************************************************************)
\* Slip: whatever goes wrong, the checkpoint is dropped.
GiveUpDropping(w, error) ==
    Become(w, [worker[w] EXCEPT
        !.pc = "findCkpt",
        !.goal = IF shouldRetryClipError(error, worker[w].attempt)
                 THEN "retry" ELSE "failed"])

\* An error that will be retried keeps the checkpoint only after the EPUB.
GiveUp(w, error) ==
    IF shouldRetryClipError(error, worker[w].attempt)
    THEN Become(w, [worker[w] EXCEPT
            !.pc = IF error = "epub_failed" THEN "checkRun" ELSE "findCkpt",
            !.goal = "retry"])
    ELSE Become(w, [worker[w] EXCEPT !.pc = "findCkpt", !.goal = "failed"])

\* Fetch, extract and translate: no shared state until onTranslated.
Translate(w) ==
    /\ worker[w].pc = "translate"
    /\ \/ Become(w, [worker[w] EXCEPT !.pc = "saveCheck", !.text = worker[w].run])
       \/ \E error \in FetchErrors : GiveUp(w, error)
    /\ UNCHANGED <<job, ckpt, articleVars, consumerOnly, histVars>>

SaveCheck(w) ==
    /\ worker[w].pc = "saveCheck"
    /\ Goto(w, IF job.run = worker[w].run THEN "saveCkpt" ELSE "build")
    /\ UNCHANGED <<job, ckpt, articleVars, consumerOnly, histVars>>

SaveCheckpoint(w) ==
    /\ worker[w].pc = "saveCkpt"
    /\ ckpt' = worker[w].text
    /\ Goto(w, "build")
    /\ UNCHANGED <<job, articleVars, consumerOnly, histVars>>

BuildEpub(w) ==
    /\ worker[w].pc = "build"
    /\ Goto(w, "confirmPut")
    /\ UNCHANGED <<job, ckpt, articleVars, consumerOnly, histVars>>

BuildFails(w) ==
    /\ worker[w].pc = "build"
    /\ GiveUp(w, "epub_failed")
    /\ rebuild' = IF shouldRetryClipError("epub_failed", worker[w].attempt)
                  THEN rebuild \union {worker[w].run} ELSE rebuild \ {worker[w].run}
    /\ UNCHANGED <<job, ckpt, articleVars, consumerOnly, stored, deleted>>

-----------------------------------------------------------------------------
(***************************************************************************)
(* A translated and built article: store.put, classification, ready.       *)
(***************************************************************************)
\* Slip: the job is ready as soon as the EPUB is built.
ConfirmReadyFirst(w) ==
    /\ worker[w].pc \in {"confirmPut", "confirmClassify", "confirmLabel"}
    /\ IF job.run = worker[w].run
       THEN Become(w, [worker[w] EXCEPT !.pc = "checkRun", !.goal = "ready"])
       ELSE Goto(w, "ack")
    /\ UNCHANGED <<job, ckpt, articleVars, consumerOnly, histVars>>

\* Slip: store.put begins with the metadata.
ConfirmMetaFirst(w) ==
    /\ worker[w].pc \in {"confirmPut", "confirmClassify", "confirmLabel"}
    /\ IF job.run = worker[w].run
       THEN \/ worker[w].pc = "confirmPut" /\ Goto(w, "putMeta")
            \/ worker[w].pc = "confirmClassify" /\ Goto(w, "classify")
            \/ worker[w].pc = "confirmLabel" /\ Goto(w, "readMeta")
       ELSE Goto(w, "ack")
    /\ UNCHANGED <<job, ckpt, articleVars, consumerOnly, histVars>>

\* continueCurrentRunOrAck.  After the classifier, "skipped" goes straight
\* to the ready record and any other result to putClassification.
ConfirmRun(w) ==
    /\ worker[w].pc \in {"confirmPut", "confirmClassify", "confirmLabel"}
    /\ IF job.run = worker[w].run
       THEN \/ worker[w].pc = "confirmPut" /\ Goto(w, "putEpub")
            \/ worker[w].pc = "confirmClassify" /\ Goto(w, "classify")
            \/ worker[w].pc = "confirmLabel" /\ Goto(w, "readMeta")
            \/ /\ worker[w].pc = "confirmLabel"
               /\ Become(w, [worker[w] EXCEPT !.pc = "checkRun", !.goal = "ready"])
       ELSE Goto(w, "ack")
    /\ UNCHANGED <<job, ckpt, articleVars, consumerOnly, histVars>>

\* Slip: an EPUB that is there is not written again.
PutEpubOnce(w) ==
    /\ worker[w].pc = "putEpub"
    /\ epub' = IF epub = NoRun THEN worker[w].text ELSE epub
    /\ Goto(w, "putMeta")
    /\ UNCHANGED <<job, ckpt, meta, cand, consumerOnly, histVars>>

PutEpub(w) ==
    /\ worker[w].pc = "putEpub"
    /\ epub' = worker[w].text
    /\ Goto(w, "putMeta")
    /\ UNCHANGED <<job, ckpt, meta, cand, consumerOnly, histVars>>

PutMeta(w) ==
    /\ worker[w].pc = "putMeta"
    /\ meta' = [of |-> worker[w].text, label |-> FALSE]
    /\ stored' = stored \union {worker[w].run}
    /\ Goto(w, "confirmClassify")
    /\ UNCHANGED <<job, ckpt, epub, cand, consumerOnly, rebuild, deleted>>

\* classifyQueuedArticle turns every failure into a result.
Classify(w) ==
    /\ worker[w].pc = "classify"
    /\ Goto(w, "confirmLabel")
    /\ UNCHANGED <<job, ckpt, articleVars, consumerOnly, histVars>>

\* putClassification: read the metadata, write all of it back.
ReadMeta(w) ==
    /\ worker[w].pc = "readMeta"
    /\ Become(w, [worker[w] EXCEPT
                     !.pc = IF meta.of = NoRun THEN "checkRun" ELSE "writeMeta",
                     !.seen = meta, !.goal = "ready"])
    /\ UNCHANGED <<job, ckpt, articleVars, consumerOnly, histVars>>

WriteMeta(w) ==
    /\ worker[w].pc = "writeMeta"
    /\ meta' = [worker[w].seen EXCEPT !.label = TRUE]
    /\ Goto(w, "checkRun")
    /\ UNCHANGED <<job, ckpt, epub, cand, consumerOnly, histVars>>

-----------------------------------------------------------------------------
(***************************************************************************)
(* attachCompletedCandidate: read the row, write all of it back.  Having   *)
(* no row, or a D1 error, is the same silent return.                       *)
(***************************************************************************)
FindCandidate(w) ==
    /\ worker[w].pc = "findCand"
    /\ \/ Goto(w, "ack")
       \/ /\ ~(cand.done /\ cand.run = worker[w].run)
          /\ Become(w, [worker[w] EXCEPT !.pc = "attach", !.row = cand])
    /\ UNCHANGED <<job, ckpt, articleVars, consumerOnly, histVars>>

AttachCandidate(w) ==
    /\ worker[w].pc = "attach"
    /\ cand' = [worker[w].row EXCEPT !.run = worker[w].run, !.done = TRUE]
    /\ Goto(w, "ack")
    /\ UNCHANGED <<job, ckpt, epub, meta, consumerOnly, histVars>>

-----------------------------------------------------------------------------
(***************************************************************************)
(* The catch block of processMessage: while deliveries are left, put the   *)
(* job back to running and retry; on the last one, fail.  A call that      *)
(* throws either did nothing, or did its work: that is Throw one step      *)
(* later.  An exception inside the catch block leaves the handler, which   *)
(* is the step Crash.                                                      *)
(***************************************************************************)
Throw(w) ==
    /\ "throw" \in Faults
    /\ ~worker[w].caught
    /\ worker[w].pc \in TrySteps \union SharedSteps
    /\ IF shouldRetryClipAttempt(worker[w].attempt)
       THEN Become(w, [worker[w] EXCEPT
                         !.pc = "checkRun", !.goal = "retry", !.caught = TRUE])
       ELSE Become(w, [worker[w] EXCEPT
                         !.pc = "findCkpt", !.goal = "failed", !.caught = TRUE])
    /\ UNCHANGED <<job, ckpt, articleVars, consumerOnly, histVars>>

-----------------------------------------------------------------------------
(***************************************************************************)
(* The rest of the environment.                                            *)
(***************************************************************************)
GoStale ==
    /\ "stale" \in Faults
    /\ isClipJobInFlight(job) /\ ~job.stale
    /\ job' = [job EXCEPT !.stale = TRUE]
    /\ UNCHANGED <<ckpt, articleVars, consumerOnly, worker, histVars>>

DeleteArticle ==
    /\ "delete" \in Faults
    /\ epub' = NoRun
    /\ meta' = NoMeta
    /\ deleted' = TRUE
    /\ UNCHANGED <<job, ckpt, cand, consumerOnly, worker, stored, rebuild>>

-----------------------------------------------------------------------------
Init ==
    /\ job = NoJob
    /\ ckpt = NoRun
    /\ epub = NoRun
    /\ meta = NoMeta
    /\ cand = NoLink
    /\ msg = [r \in Runs |-> "unsent"]
    /\ tries = [r \in Runs |-> 0]
    /\ post = [r \in Runs |-> "idle"]
    /\ worker = [w \in Workers |-> Idle]
    /\ stored = {}
    /\ rebuild = {}
    /\ deleted = FALSE

\* A request that was accepted goes on by itself, ...
RequestStep(p) ==
    \/ PutQueued(p) \/ Send(p) \/ SendFails(p)
    \/ PutQueueFailed(p) \/ PutRecorded(p)

\* ... and so does a consumer invocation.
ConsumerStep(w) ==
    \/ ReadJob(w) \/ CheckRun(w) \/ WriteJob(w)
    \/ FindCheckpoint(w) \/ DropCheckpoint(w)
    \/ LoadCheckpoint(w) \/ PurgeCheckpoint(w)
    \/ Translate(w) \/ SaveCheck(w) \/ SaveCheckpoint(w)
    \/ BuildEpub(w) \/ BuildFails(w)
    \/ ConfirmRun(w) \/ PutEpub(w) \/ PutMeta(w)
    \/ Classify(w) \/ ReadMeta(w) \/ WriteMeta(w)
    \/ FindCandidate(w) \/ AttachCandidate(w)
    \/ Ack(w) \/ Retry(w)

\* What no process does of its own accord.
Environment ==
    \/ \E p \in Runs : RequestDies(p)
    \/ \E w \in Workers, r \in Runs : DeliverTwice(w, r)
    \/ \E w \in Workers : Crash(w) \/ Throw(w)
    \/ GoStale
    \/ DeleteArticle

\* Everything that happens to requests already made.
SystemStep ==
    \/ \E p \in Runs : RequestStep(p)
    \/ \E w \in Workers, r \in Runs : Deliver(w, r)
    \/ \E w \in Workers : ConsumerStep(w)
    \/ Environment

Next == (\E p \in Runs : Lookup(p)) \/ SystemStep

Spec == Init /\ [][Next]_vars

(***************************************************************************)
(* The platform runs what it started: an open request and an invocation    *)
(* take their next step, and the queue hands out a message while an        *)
(* invocation is free.  Nothing makes a user send a request, nothing makes *)
(* a fault happen, and no progress waits for a record to grow old.         *)
(***************************************************************************)
Fairness ==
    /\ \A p \in Runs : WF_vars(RequestStep(p))
    /\ \A r \in Runs : WF_vars(\E w \in Workers : Deliver(w, r))
    /\ \A w \in Workers : WF_vars(ConsumerStep(w))

FairSpec == Spec /\ Fairness
=============================================================================
