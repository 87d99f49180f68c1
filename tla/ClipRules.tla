------------------------------ MODULE ClipRules ------------------------------
(***************************************************************************)
(* The records of the clip job protocol and the pure decisions that the    *)
(* HTTP side (job/enqueue.ts) and the queue consumer (queue/clip.ts) take  *)
(* on them.  Time is abstracted to one flag: a record is "stale" when its  *)
(* updatedAt is at least CLIP_JOB_STALE_MS in the past.                    *)
(***************************************************************************)
EXTENDS Naturals

CONSTANTS
    Runs,        \* the runIds that the requests of one URL may mint
    NoRun,       \* "no run": an absent record, checkpoint, EPUB or link
    MaxRetries   \* CLIP_QUEUE_MAX_RETRIES, also max_retries of the queue

ASSUME NoRunAssumption == NoRun \notin Runs
ASSUME RetriesAssumption == MaxRetries \in Nat

RunOrNone == Runs \union {NoRun}

(***************************************************************************)
(* ClipJobRecord, the object jobs/{jobId}.json of one URL.  The "absent"   *)
(* status is getJob returning null.  "pipeline" stands for the error kinds *)
(* of a PipelineError, which no decision tells apart once on the record.   *)
(***************************************************************************)
Statuses == {"absent", "queued", "running", "ready", "failed"}
Codes    == {"none", "queue_failed", "pipeline", "internal_error"}

ClipJobRecord ==
    [run: RunOrNone, status: Statuses, code: Codes, stale: BOOLEAN]

NoJob == [run |-> NoRun, status |-> "absent", code |-> "none", stale |-> FALSE]

JobOf(r, status, code) ==
    [run |-> r, status |-> status, code |-> code, stale |-> FALSE]

isClipJobInFlight(j) == j.status \in {"queued", "running"}

isClipJobStale(j) == isClipJobInFlight(j) /\ j.stale

\* Slip: a job that is being worked on does not count.
isActiveWhileQueued(j) == j.status = "queued" /\ ~isClipJobStale(j)

isActiveClipJob(j) == isClipJobInFlight(j) /\ ~isClipJobStale(j)

(***************************************************************************)
(* May a delivery of run r work on the job?  A failed job is final, except *)
(* when the failure was the send itself: the message may have arrived.     *)
(***************************************************************************)
\* Slip: a ready job is worked on again when its message comes back.
shouldProcessReadyAgain(j, r) ==
    \/ j.status = "absent"
    \/ /\ j.run = r
       /\ \/ j.status \in {"queued", "running", "ready"}
          \/ j.status = "failed" /\ j.code = "queue_failed"

shouldProcessClipRun(j, r) ==
    \/ j.status = "absent"
    \/ /\ j.run = r
       /\ \/ isClipJobInFlight(j)
          \/ j.status = "failed" /\ j.code = "queue_failed"

(***************************************************************************)
(* What the pipeline can return instead of an article.  "rejected" stands  *)
(* for a fetch failure marked terminal, extract_failed, payload_too_large  *)
(* and invalid_url: the errors that are never retried.                     *)
(***************************************************************************)
FetchErrors == {"fetch_failed", "translate_failed", "rejected"}

shouldRetryClipAttempt(attempts) == attempts <= MaxRetries

shouldRetryClipError(error, attempts) ==
    /\ shouldRetryClipAttempt(attempts)
    /\ \/ error \in {"translate_failed", "fetch_failed"}
       \/ error = "epub_failed" /\ attempts = 1
=============================================================================
