---------------------------- MODULE CandidateRow ----------------------------
(***************************************************************************)
(* The row of one page in candidate_articles and the requests that change  *)
(* it.  Every one reads the row, waits (for the page, Jev, R2 or the       *)
(* queue) and writes the whole row back, so a request carries the copy it  *)
(* read; only the repair of published dates updates its column alone.  The *)
(* clip job behind the row is reduced to its record: ClipJob has its steps.*)
(***************************************************************************)
EXTENDS ClipRules, Recommendation

CONSTANTS
    Requests,    \* requests that may be under way together
    Canonical,   \* the article id of the candidate's own URL
    Redirected,  \* the article id of the address the page redirects to
    Replies,     \* the replies of Jev that are told apart
    MaxRequests, \* bound on the requests that come one after the other
    MaxOverlaps  \* and on those that overlap

ASSUME ArticleIdsAssumption == Null \notin {Canonical, Redirected}
ASSUME RepliesAssumption == Replies # {} /\ Replies \subseteq Reply
ASSUME BoundsAssumption == MaxRequests \in Nat /\ MaxOverlaps \in Nat

VARIABLES
    crow,     \* the row, or NoRow
    cjob,     \* jobs/{jobId}.json of the page
    readyId,  \* the article id on that record when it is ready
    articles, \* the article ids with an EPUB and metadata in R2
    requests, \* what each request does, where it stands and its copy
    started,  \* how many requests were started
    runs,     \* how many runs were minted
    repaired, \* TRUE once the published date was repaired
    serial,   \* TRUE when a request starts only after the last one ended
    failures  \* TRUE once a write of the row or a send to the queue failed

candidateVars ==
    <<crow, cjob, readyId, articles, requests, started, runs, repaired, serial,
      failures>>

\* What the requests for the row leave alone, sends excepted.
jobVars == <<cjob, readyId, articles, runs, repaired, serial>>

NoRow == [exists |-> FALSE]

(***************************************************************************)
(* The fetched page, reduced to what the handlers tell apart: one with a   *)
(* text that can be extracted carries a date, the others do not.           *)
(***************************************************************************)
PageKinds == {"unreachable", "paywalled", "empty"} \union Hashes

pageHash(page) == IF page \in Hashes THEN page ELSE Null

idle == [op |-> "idle", step |-> 0, copy |-> NoRow, page |-> "empty",
         run |-> NoRun, article |-> Null]

Alone == \A r \in Requests : requests[r].op = "idle"

Begin(r, op) ==
    /\ requests[r].op = "idle"
    /\ serial => Alone
    /\ started < IF serial THEN MaxRequests ELSE MaxOverlaps
    /\ started' = started + 1
    /\ requests' = [requests EXCEPT ![r] = op]

Go(r, req)  == requests' = [requests EXCEPT ![r] = req]
Finish(r)   == Go(r, idle)
At(r, op, step) == requests[r].op = op /\ requests[r].step = step

\* A put of the whole row; in some handlers a failed one is swallowed.
Put(row) == crow' = row /\ UNCHANGED failures
PutOrSwallow(row) ==
    \/ Put(row)
    \/ crow' = crow /\ failures' = TRUE

(***************************************************************************)
(* registerCandidate and the collection's judgeCollectedCandidate          *)
(***************************************************************************)
clipPointers(row) ==
    IF row.exists
    THEN [done |-> row.done, run |-> row.run, selected |-> row.selected,
          rec |-> row.rec]
    ELSE [done |-> Null, run |-> NoRun, selected |-> FALSE,
          rec |-> Unevaluated]

incomingCandidate(existing, page) ==
    LET old == clipPointers(existing) IN
    [exists    |-> TRUE,
     fetched   |-> page # "unreachable",
     excluded  |-> page = "paywalled",
     fullText  |-> CASE page = "paywalled" -> "unavailable"
                     [] page \in Hashes    -> "confirmed_free"
                     [] OTHER              -> "unconfirmed",
     published |-> page \in Hashes \/ (existing.exists /\ existing.published),
     done      |-> old.done, run |-> old.run, selected |-> old.selected,
     rec       |-> old.rec]

\* Slip: the page as it is now replaces everything the row knew.
savedIncomingOnly(existing, incoming) ==
    [incoming EXCEPT !.done = Null, !.run = NoRun, !.selected = FALSE]

savedCandidate(existing, incoming) ==
    IF ~existing.exists \/ incoming.excluded \/ ~existing.fetched
    THEN incoming
    ELSE [existing EXCEPT
            !.published = incoming.published,
            !.fullText = IF @ = "confirmed_free" THEN @ ELSE incoming.fullText]

resolveWith(rec, page, paywalled, force, budget, deps, reply) ==
    resolveDeRecommendation(
        [existing |-> rec, hash |-> pageHash(page), paywalled |-> paywalled,
         force |-> force, budget |-> budget, deps |-> deps, reply |-> reply])

\* The page is fetched first, then the row is read.
RegisterRead(r, op, page) ==
    /\ op \in {"register", "collect"}
    /\ Begin(r, [idle EXCEPT !.op = op, !.step = 1, !.copy = crow, !.page = page])
    /\ UNCHANGED <<crow, failures, jobVars>>

\* persistJudged of a request: the judgement comes before the row is written.
RegisterWrite(r, deps, reply) ==
    /\ At(r, "register", 1)
    /\ LET q     == requests[r]
           saved == savedCandidate(q.copy, incomingCandidate(q.copy, q.page))
           out   == resolveWith(saved.rec, q.page, q.page = "paywalled", FALSE,
                                1, deps, reply)
       IN  Put([saved EXCEPT !.rec = out.rec])
    /\ Finish(r)
    /\ UNCHANGED <<started, jobVars>>

\* persistJudged of a collection (deferRecommendation): written unjudged.
CollectWrite(r) ==
    /\ At(r, "collect", 1)
    /\ LET q == requests[r]
       IN  /\ Put(savedCandidate(q.copy, incomingCandidate(q.copy, q.page)))
           /\ Go(r, [q EXCEPT !.step = 2, !.copy = NoRow])
    /\ UNCHANGED <<started, jobVars>>

JudgeRead(r) ==
    /\ At(r, "collect", 2)
    /\ Go(r, [requests[r] EXCEPT !.step = 3, !.copy = crow])
    /\ UNCHANGED <<crow, failures, started, jobVars>>

\* A judgement that throws is recorded as failed when there was a text.
JudgeWrite(r, deps, reply) ==
    /\ At(r, "collect", 3)
    /\ LET q   == requests[r]
           out == resolveWith(q.copy.rec, q.page, q.page = "paywalled", FALSE,
                              1, deps, reply)
       IN  \/ out.skipped /\ UNCHANGED <<crow, failures>>
           \/ ~out.skipped /\ Put([q.copy EXCEPT !.rec = out.rec])
           \/ /\ q.page \in Hashes
              /\ Put([q.copy EXCEPT
                        !.rec = FailedRec(@.hash, "recommend_internal")])
           \/ q.page \notin Hashes /\ UNCHANGED <<crow, failures>>
    /\ Finish(r)
    /\ UNCHANGED <<started, jobVars>>

(***************************************************************************)
(* reevaluateCandidate: the button that asks for a judgement               *)
(***************************************************************************)
ReevaluateRead(r, page) ==
    /\ crow.exists
    /\ Begin(r, [idle EXCEPT !.op = "reevaluate", !.step = 1, !.copy = crow,
                             !.page = page])
    /\ UNCHANGED <<crow, failures, jobVars>>

ReevaluateWrite(r, force, deps, reply) ==
    /\ At(r, "reevaluate", 1)
    /\ LET q   == requests[r]
           out == resolveWith(q.copy.rec, q.page,
                              q.page = "paywalled" \/ q.copy.excluded,
                              force, 1, deps, reply)
       IN  Put([q.copy EXCEPT !.rec = out.rec])
    /\ Finish(r)
    /\ UNCHANGED <<started, jobVars>>

(***************************************************************************)
(* sendCandidateClip: the candidate is sent to the reader                  *)
(***************************************************************************)
candidateClipBlocked(row) ==
    row.excluded \/ row.fullText = "unavailable" \/ ~row.fetched

recordClipLink(row, run, done) ==
    [row EXCEPT !.run = run, !.selected = TRUE, !.done = done]

\* A new run, and the send that may fail; a run under way is left to finish.
enqueueClipJob ==
    /\ ~isActiveClipJob(cjob)
    /\ runs + 1 \in Runs
    /\ runs' = runs + 1
    /\ readyId' = Null
    /\ \E sent \in BOOLEAN :
          /\ cjob' = IF sent THEN JobOf(runs + 1, "queued", "none")
                     ELSE JobOf(runs + 1, "failed", "queue_failed")
          /\ failures' = (failures \/ ~sent)

\* The page is clipped by the other routes, whatever the candidate is.
ClipPosted ==
    /\ serial => Alone
    /\ enqueueClipJob
    /\ UNCHANGED <<crow, articles, requests, started, repaired, serial>>

\* The row is read; a blocked one ends the request.
SendRead(r, regenerate) ==
    /\ crow.exists
    /\ ~candidateClipBlocked(crow)
    /\ Begin(r, [idle EXCEPT !.op = IF regenerate THEN "regenerate" ELSE "send",
                             !.step = 1, !.copy = crow])
    /\ UNCHANGED <<crow, failures, jobVars>>

\* The job and the stored article are read: reuse one of them, or enqueue
\* (enqueueClipJob reads the job once more, in the same step here).
SendDecide(r) ==
    /\ At(r, "send", 1) \/ At(r, "regenerate", 1)
    /\ LET q       == requests[r]
           stored  == IF cjob.status = "ready" THEN readyId ELSE Canonical
           cleared == IF q.op = "regenerate" THEN Null ELSE q.copy.done
           Link(run, done) == Go(r, [q EXCEPT !.step = 2,
                                     !.copy = recordClipLink(@, run, done)])
       IN  \/ /\ isActiveClipJob(cjob)
              /\ Link(cjob.run, cleared)
              /\ UNCHANGED <<cjob, readyId, runs, failures>>
           \/ /\ ~isActiveClipJob(cjob)
              /\ q.op = "send" /\ stored \in articles
              /\ Link(IF cjob.status = "absent" THEN q.copy.run ELSE cjob.run,
                      stored)
              /\ UNCHANGED <<cjob, readyId, runs, failures>>
           \/ /\ q.op = "regenerate" \/ stored \notin articles
              /\ enqueueClipJob
              /\ Link(runs + 1, cleared)
    /\ UNCHANGED <<crow, articles, started, repaired, serial>>

SendLink(r) ==
    /\ At(r, "send", 2) \/ At(r, "regenerate", 2)
    /\ PutOrSwallow(requests[r].copy)
    /\ Finish(r)
    /\ UNCHANGED <<started, jobVars>>

(***************************************************************************)
(* attachCompletedCandidate: the queue consumer finishes the current run   *)
(***************************************************************************)
JobRuns ==
    /\ isClipJobInFlight(cjob)
    /\ \/ cjob' = JobOf(cjob.run, "running", "none")
       \/ cjob' = [cjob EXCEPT !.stale = TRUE]
       \/ cjob' = JobOf(cjob.run, "failed", "pipeline")
    /\ UNCHANGED <<crow, readyId, articles, requests, started, runs, repaired,
                   serial, failures>>

\* The article is stored and the job is ready; the candidate comes after.
JobReady(r, article) ==
    /\ cjob.status = "running"
    /\ Begin(r, [idle EXCEPT !.op = "attach", !.step = 1, !.run = cjob.run,
                             !.article = article])
    /\ articles' = articles \union {article}
    /\ cjob' = JobOf(cjob.run, "ready", "none")
    /\ readyId' = article
    /\ UNCHANGED <<crow, runs, repaired, serial, failures>>

AttachRead(r) ==
    /\ At(r, "attach", 1)
    /\ IF crow.exists
       THEN Go(r, [requests[r] EXCEPT !.step = 2, !.copy = crow])
       ELSE Finish(r)
    /\ UNCHANGED <<crow, failures, started, jobVars>>

\* Slip: only the article is attached, not the run that made it.
attachedArticle(q) == [q.copy EXCEPT !.done = q.article]

attached(q) == [q.copy EXCEPT !.done = q.article, !.run = q.run]

AttachWrite(r) ==
    /\ At(r, "attach", 2)
    /\ LET q == requests[r]
       IN  IF q.copy = attached(q) THEN UNCHANGED <<crow, failures>>
           ELSE PutOrSwallow(attached(q))
    /\ Finish(r)
    /\ UNCHANGED <<started, jobVars>>

(***************************************************************************)
(* loadCandidateDelivery and syncCandidateCompletion: the list is shown    *)
(***************************************************************************)
\* Slip: the link in the row is believed before the job's own article.
deliveredByRow(row) ==
    IF row.done # Null THEN row.done ELSE readyId

linkedId(row) == IF cjob.status = "ready" THEN readyId ELSE row.done

presentId(row) ==
    IF linkedId(row) \in articles THEN linkedId(row)
    ELSE IF Canonical \in articles THEN Canonical ELSE Null

loadCandidateDelivery(row) ==
    CASE isActiveClipJob(cjob)                  -> "preparing"
      [] isClipJobStale(cjob)                   -> "failed"
      [] cjob.status = "failed"                 -> "failed"
      [] OTHER -> IF presentId(row) # Null THEN "available"
                  ELSE IF cjob.status = "ready" THEN "failed" ELSE "unsent"

\* Excluded candidates are not listed.
ListRead(r) ==
    /\ crow.exists
    /\ ~crow.excluded
    /\ Begin(r, [idle EXCEPT !.op = "list", !.step = 1, !.copy = crow])
    /\ UNCHANGED <<crow, failures, jobVars>>

ListView(r) ==
    /\ At(r, "list", 1)
    /\ LET q == requests[r]
       IN  IF loadCandidateDelivery(q.copy) # "available" THEN Finish(r)
           ELSE Go(r, [q EXCEPT !.step = 2, !.article = presentId(q.copy),
                        !.run = IF cjob.status = "absent" THEN q.copy.run
                                ELSE cjob.run])
    /\ UNCHANGED <<crow, failures, started, jobVars>>

syncCandidateCompletion(r) ==
    /\ At(r, "list", 2)
    /\ LET q == requests[r]
       IN  IF q.copy = attached(q) THEN UNCHANGED <<crow, failures>>
           ELSE PutOrSwallow(attached(q))
    /\ Finish(r)
    /\ UNCHANGED <<started, jobVars>>

(***************************************************************************)
(* The repair of published dates updates one column, once per row, and     *)
(* clears it when the page gives no date; the reader deletes an article.   *)
(***************************************************************************)
writePublishedAt ==
    /\ crow.exists
    /\ ~repaired
    /\ serial => Alone
    /\ repaired' = TRUE
    /\ \E dated \in BOOLEAN : crow' = [crow EXCEPT !.published = dated]
    /\ UNCHANGED <<cjob, readyId, articles, requests, started, runs, serial,
                   failures>>

DeleteArticle(article) ==
    /\ article \in articles
    /\ articles' = articles \ {article}
    /\ UNCHANGED <<crow, cjob, readyId, requests, started, runs, repaired,
                   serial, failures>>

\* Without a key Jev is not asked, and one reply stands for all.
RepliesTo(deps) ==
    IF deps = "key" THEN Replies ELSE {CHOOSE reply \in Replies : TRUE}

\* Requests that overlap meet a candidate that is already registered.
CandidateInit ==
    /\ cjob = NoJob
    /\ readyId = Null
    /\ articles = {}
    /\ requests = [r \in Requests |-> idle]
    /\ started = 0
    /\ runs = 0
    /\ repaired = FALSE
    /\ serial \in BOOLEAN
    /\ crow \in IF serial THEN {NoRow}
               ELSE {incomingCandidate(NoRow, page) : page \in Hashes}
    /\ failures = FALSE

CandidateNext ==
    \/ \E r \in Requests :
        \/ \E page \in PageKinds :
            \/ \E op \in {"register", "collect"} : RegisterRead(r, op, page)
            \/ ReevaluateRead(r, page)
        \/ \E deps \in {"absent", "nokey", "key"} : \E reply \in RepliesTo(deps) :
            \/ RegisterWrite(r, deps, reply)
            \/ JudgeWrite(r, deps, reply)
            \/ \E force \in BOOLEAN : ReevaluateWrite(r, force, deps, reply)
        \/ CollectWrite(r)
        \/ JudgeRead(r)
        \/ \E regenerate \in BOOLEAN : SendRead(r, regenerate)
        \/ SendDecide(r)
        \/ SendLink(r)
        \/ \E article \in {Canonical, Redirected} : JobReady(r, article)
        \/ AttachRead(r)
        \/ AttachWrite(r)
        \/ ListRead(r)
        \/ ListView(r)
        \/ syncCandidateCompletion(r)
    \/ ClipPosted
    \/ JobRuns
    \/ writePublishedAt
    \/ \E article \in articles : DeleteArticle(article)

CandidateSpec == CandidateInit /\ [][CandidateNext]_candidateVars
=============================================================================
