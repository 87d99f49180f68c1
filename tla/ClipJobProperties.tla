-------------------------- MODULE ClipJobProperties --------------------------
(***************************************************************************)
(* What the clip job protocol promises.  The properties of the first group *)
(* hold whatever the environment does; those of the second hold when one   *)
(* request is served at a time and only invocations crash; those of the    *)
(* third are promises of the documentation that the code does not keep.    *)
(***************************************************************************)
EXTENDS ClipJob

\* Every variable keeps to the shape the code gives it, ClipJobRecord first.
TypeOK ==
    /\ job \in ClipJobRecord
    /\ ckpt \in RunOrNone
    /\ epub \in RunOrNone
    /\ meta \in ArticleMeta
    /\ cand \in CandidateRow
    /\ msg \in [Runs -> MessagePlaces]
    /\ tries \in [Runs -> Nat]
    /\ post \in [Runs -> RequestSteps]
    /\ worker \in [Workers -> Invocation]
    /\ stored \in SUBSET Runs
    /\ rebuild \in SUBSET Runs
    /\ deleted \in BOOLEAN

-----------------------------------------------------------------------------
(* Under every fault and every overlap. *)

\* A ready job, or a candidate shown as completed, has an EPUB and metadata
\* to download, unless somebody deleted the article: queue/clip.ts writes
\* the article before the record, and the record before the candidate.
Downloadable ==
    ~deleted /\ (job.status = "ready" \/ cand.done)
        => epub # NoRun /\ meta.of # NoRun

\* Metadata never comes before the EPUB it describes, so the catalog has no
\* entry without a file (README: the EPUB is written before meta.json).
EpubBeforeMeta == ~deleted /\ meta.of # NoRun => epub # NoRun

\* A job is ready, and a candidate completed, only for a run that stored its
\* article to the end: no other run's work, and no half of a store.put.
ReadyWasStored ==
    /\ job.status = "ready" => job.run \in stored
    /\ cand.done => cand.run \in stored

\* An invocation publishes only the translation of its own run (README: the
\* translation of another run is not used), whatever checkpoint it finds.
OwnTranslation == \A w \in Workers : worker[w].text \in {NoRun, worker[w].run}

-----------------------------------------------------------------------------
(***************************************************************************)
(* Why the first group holds: an inductive invariant of the whole system.  *)
(***************************************************************************)
\* Between the translation and the end of the attempt the text is at hand ...
WithText == {"saveCheck", "saveCkpt", "build", "confirmPut", "putEpub", "putMeta"}
\* ... and after store.put the article of the run has been stored.
AfterStore == { "confirmClassify", "classify", "confirmLabel", "readMeta",
                "writeMeta", "findCand", "attach" }

BusyOnARun == \A w \in Workers : Busy(w) => worker[w].run \in Runs

TextAtHand ==
    \A w \in Workers : worker[w].pc \in WithText => worker[w].text = worker[w].run

StoredFirst ==
    \A w \in Workers :
        worker[w].pc \in AfterStore \/ worker[w].goal = "ready"
            => worker[w].run \in stored

\* Between its two halves store.put has already written the EPUB, ...
HalfStored ==
    \A w \in Workers : ~deleted /\ worker[w].pc = "putMeta" => epub # NoRun

\* ... and putClassification only writes back metadata that it found.
FoundMeta == \A w \in Workers : worker[w].pc = "writeMeta" => worker[w].seen.of # NoRun

StoredIsOnOffer == ~deleted /\ stored # {} => epub # NoRun /\ meta.of # NoRun

\* The strengthening under which every step of the system keeps the
\* properties of the first group.
ClipInvariant ==
    /\ BusyOnARun
    /\ OwnTranslation
    /\ TextAtHand
    /\ StoredFirst
    /\ HalfStored
    /\ FoundMeta
    /\ StoredIsOnOffer
    /\ EpubBeforeMeta
    /\ ReadyWasStored

(***************************************************************************)
(* The inductive invariant of the proofs: all of that, of well-formed      *)
(* records, objects and invocations.                                       *)
(***************************************************************************)
Safe == TypeOK /\ ClipInvariant

-----------------------------------------------------------------------------
(* One request at a time; invocations may crash. *)

\* A request never replaces the record of another run that is still queued
\* or running and not stale (README: 15 分以内の queued / running は再投入しない).
NoFreshOverwrite ==
    [][job'.run # job.run => ~isActiveClipJob(job)]_job

\* The run that is ready is the run whose EPUB and metadata are on offer.
ReadyServesItsOwnRun ==
    job.status = "ready" => epub = job.run /\ meta.of = job.run

\* Once a run is ready its record does not go back to running.
ReadyIsNotReopened ==
    [][job.status = "ready" /\ job'.run = job.run => job'.status # "running"]_job

\* After an EPUB failure that is retried, the run is not translated again
\* before it is ready or given up.
NoSecondTranslation ==
    [][\A w \in Workers :
          worker[w].pc = "translate" /\ worker'[w].pc = "saveCheck"
              => worker[w].run \notin rebuild]_worker

\* When the message of a run is acknowledged and nobody works on the run any
\* more, no checkpoint of it is left.
CheckpointIsTemporary ==
    \A r \in Runs :
        msg[r] = "acked" /\ (\A w \in Workers : worker[w].run # r)
            => ckpt # r

(***************************************************************************)
(* Why the second group holds: what is true besides Safe while requests    *)
(* come one at a time and nothing worse happens than a crash, or a send    *)
(* that fails without having sent.                                         *)
(***************************************************************************)
OneAtATime == ~OverlapRequests /\ Faults \subseteq {"crash", "send"}

\* An invocation that still has to write what others read: not one that is
\* about to look at the record, or has done its work and tidies up.
Working(l) ==
    /\ l.pc \notin {"idle", "read", "ack", "findCand", "attach"}
    /\ ~(l.pc \in {"findCkpt", "dropCkpt"} /\ l.goal \in {"skip", "ready"})

\* The record between two steps of a request, of which one is open at most.
RequestsFit ==
    \A p \in Runs :
        /\ \A q \in Runs : RequestOpen(p) /\ RequestOpen(q) => p = q
        /\ post[p] \in {"idle", "put"} => msg[p] = "unsent" /\ job.run # p
        /\ post[p] = "put" => ~isActiveClipJob(job)
        /\ post[p] \in {"send", "fail"} =>
              job.run = p /\ job.status = "queued" /\ msg[p] = "unsent"
        /\ post[p] = "record" => job.run = p

RecordFits ==
    /\ ~job.stale
    /\ job.status = "absent" => \A r \in Runs : msg[r] = "unsent"
    /\ job.code = "queue_failed" =>
          job.status = "failed" /\ \A r \in Runs : r = job.run => msg[r] = "unsent"

\* A leased message is in the hands of one invocation, ...
OneInvocationEach ==
    \A v, w \in Workers :
        /\ Busy(w) => msg[worker[w].run] = "leased"
        /\ Busy(v) /\ Busy(w) /\ worker[v].run = worker[w].run => v = w

\* ... which works on it only while the record is that of its run, ...
WorksForTheRecord ==
    \A w \in Workers :
        Working(worker[w]) => job.run = worker[w].run /\ isActiveClipJob(job)

\* ... has its own article in place behind each half of store.put, ...
OwnArticle ==
    \A w \in Workers :
        LET l == worker[w] IN
        /\ l.pc = "putMeta" => epub = l.run
        /\ l.pc = "writeMeta" => l.seen.of = l.run /\ l.goal = "ready"
        /\ Working(l) /\ (l.pc \in AfterStore \/ l.goal = "ready") =>
              epub = l.run /\ meta.of = l.run

\* ... and has seen to its checkpoint before it acknowledges.
CheckpointGone ==
    /\ \A r \in Runs : msg[r] = "acked" => ckpt # r
    /\ \A w \in Workers :
          LET l == worker[w] IN
          \/ l.pc \in {"ack", "findCand", "attach"}
          \/ l.pc \in {"checkRun", "writeJob"} /\ l.goal \notin {"running", "retry", "ready"}
          => ckpt # l.run

OneAtATimeInvariant ==
    /\ RequestsFit
    /\ RecordFits
    /\ OneInvocationEach
    /\ WorksForTheRecord
    /\ OwnArticle
    /\ CheckpointGone
    /\ ReadyServesItsOwnRun

-----------------------------------------------------------------------------
(* Progress, when the platform runs what it started. *)

\* Every message that was enqueued is acknowledged or runs out of deliveries.
EveryMessageSettles ==
    \A r \in Runs :
        msg[r] = "waiting" ~> msg[r] \in {"acked", "dropped"}

\* A run that was enqueued comes to a decision: its record is put to ready or
\* failed, another run takes its place, or its message is dropped; and since
\* no invocation asks for a delivery that is not left, only a crash drops it.
\* Time alone unblocks the URL of a run that was dropped (processMessage,
\* shouldRetryClipAttempt, shouldRetryClipError).
EnqueuedIsDecided ==
    /\ []\A w \in Workers :
            worker[w].pc = "retry" => tries[worker[w].run] <= MaxRetries
    /\ \A r \in Runs :
            msg[r] = "waiting" ~>
                \/ job.run # r
                \/ job.status \in {"ready", "failed"}
                \/ msg[r] = "dropped"

-----------------------------------------------------------------------------
(* What the documentation says and the code does not keep. *)

\* README: "失敗は job レコードに残る".  A failure that the consumer wrote
\* stays on the record until another run replaces it.
FailureStays ==
    [][job.status = "failed" /\ job.code # "queue_failed" /\ job'.run = job.run
          => job' = job]_job

\* README: "古い runId の再配信は状態を running に戻さない".  An invocation
\* never writes the record while it belongs to another run.
OldRunKeepsOut ==
    [][\A w \in Workers :
          worker[w].pc = "writeJob" /\ worker'[w].pc # "writeJob" /\ job' # job
              => job.run = worker[w].run]_<<job, worker>>
-----------------------------------------------------------------------------
(***************************************************************************)
(* Why a translation that was kept for a retry is not made again: what is  *)
(* true besides Safe while one invocation works and one request is served  *)
(* at a time, whatever faults there are.                                   *)
(***************************************************************************)
OneWorker == ~OverlapRequests /\ \A v, w \in Workers : v = w

\* The invocation, of which there is one at most.
Sole == IF Workers = {} THEN Idle ELSE worker[CHOOSE w \in Workers : TRUE]

\* From the running record to the checkpoint of this attempt.
Translating == {"loadCkpt", "purgeCkpt", "translate", "saveCheck", "saveCkpt"}

\* An invocation that was let in by the record and has not written it since, ...
LetIn(l) == l.pc \in Translating \union {"writeJob", "build"}

\* A message is sent by its request, after the record, and leased to Sole.
QueueFits ==
    /\ \A p, q \in Runs : RequestOpen(p) /\ RequestOpen(q) => p = q
    /\ \A p \in Runs :
        /\ post[p] \in {"idle", "put", "send"} => msg[p] = "unsent"
        /\ msg[p] # "unsent" \/ post[p] = "send" =>
              job.status # "absent" /\ job.run # NoRun
    /\ \A r \in rebuild : msg[r] # "unsent"
    /\ Sole.pc # "idle" =>
          msg[Sole.run] = "leased" /\ Sole.attempt = tries[Sole.run]

\* The record is that of the run whose request is open, once it has been let in.
RequestsOwn ==
    /\ LetIn(Sole) /\ RequestOpen(Sole.run) => job.run = Sole.run
    /\ \A r \in rebuild :
        /\ RequestOpen(r) => job.run = r
        /\ Sole.pc = "writeJob" /\ Sole.run # r => ~RequestOpen(r)

\* A run that asked for its checkpoint is over when its last delivery is.
GivingUp(r) ==
    \/ msg[r] \in {"acked", "dropped"}
    \/ Sole.run = r /\ Sole.goal = "failed" /\ Sole.attempt > MaxRetries

\* While the record is that of such a run, its checkpoint is there.
CheckpointKept ==
    \A r \in rebuild :
        job.run = r => GivingUp(r) \/ (ckpt = r /\ shouldProcessClipRun(job, r))

\* What an invocation is out for at each step.
GoalFits ==
    /\ Sole.pc = "idle" => Sole.run = NoRun
    /\ Sole.pc = "read" => Sole.goal = "none"
    /\ Sole.pc = "retry" => Sole.goal = "retry"
    /\ Sole.pc \in TrySteps => Sole.goal \in {"none", "running", "ready"}
    /\ Sole.pc = "writeMeta" => Sole.goal = "ready"
    /\ Sole.pc \in {"checkRun", "writeJob"} =>
          Sole.goal \in {"running", "ready", "retry", "failed"}
    /\ Sole.pc \in {"findCkpt", "dropCkpt"} =>
          Sole.goal \in {"skip", "ready", "retry", "failed"}

\* What it may find, and do to the checkpoint of its run or another's.
StepFits ==
    /\ Sole.pc = "dropCkpt" => ckpt = Sole.run
    /\ Sole.pc \in Translating \union {"build"} /\ job.run = Sole.run =>
          shouldProcessClipRun(job, Sole.run)
    /\ Sole.pc = "build" /\ job.run = Sole.run => ckpt = Sole.run
    /\ Sole.run \in rebuild =>
        /\ Sole.pc \notin {"purgeCkpt", "translate"}
        /\ Sole.pc \in {"findCkpt", "dropCkpt"} => Sole.goal \in {"skip", "failed"}
        /\ Sole.goal = "skip" => job.run # Sole.run
        /\ Sole.goal = "failed" => Sole.attempt > MaxRetries
        /\ Sole.pc = "loadCkpt" => ckpt = Sole.run
        /\ Sole.pc = "writeJob" /\ Sole.goal \in {"running", "retry"} => ckpt = Sole.run
    /\ \A r \in rebuild : r # Sole.run /\ Sole.pc \in Translating => job.run # r

RebuildInvariant ==
    QueueFits /\ RequestsOwn /\ CheckpointKept /\ GoalFits /\ StepFits

-----------------------------------------------------------------------------
(***************************************************************************)
(* What whoever asks for the URL sees of all this, while requests come one *)
(* at a time: the abstract service of ClipOutcome.  The catalog leads to   *)
(* the EPUB once there is metadata (listMeta, getEpub).                    *)
(***************************************************************************)
onOffer == IF meta.of = NoRun THEN NoRun ELSE epub

stillAsking ==
    \E p \in Runs : p = job.run /\ post[p] \in {"send", "fail", "record"}

Service == INSTANCE ClipOutcome
    WITH outcome <- job.status, run <- job.run, offered <- onOffer,
         asking <- stillAsking

\* The protocol implements the service: a record changes hands only when it is
\* free, its run is offered before it is reported ready, and no late invocation
\* takes back what was reported (enqueueClipJob, runClipQueueMessage).
OutcomeKept == Service!Spec
=============================================================================
