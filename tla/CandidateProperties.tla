------------------------ MODULE CandidateProperties ------------------------
(***************************************************************************)
(* What the row of a candidate is worth although every request writes it   *)
(* whole from a copy it read before.                                       *)
(***************************************************************************)
EXTENDS CandidateRow

Recommendations ==
    [status: {"unevaluated", "insufficient_material", "skipped", "failed",
              "low_confidence", "evaluated"},
     version: {Null, "current"}, hash: Hashes \union {Null},
     code: RecommendErrorCodes \union {Null},
     grade: Grades \union {Null}, decided: Grades \union {Null},
     conf: {"low", "high", Null}, model: {"jev", Null},
     axes: [Axes -> {"yes", "no", Null}]]

ArticleIds == {Canonical, Redirected}

Rows ==
    [exists: {TRUE}, fetched: BOOLEAN, excluded: BOOLEAN,
     fullText: {"unavailable", "confirmed_free", "unconfirmed"},
     published: BOOLEAN, done: ArticleIds \union {Null},
     run: Runs \union {NoRun}, selected: BOOLEAN, rec: Recommendations]

\* The row, the job and every request hold what their handlers put there.
CandidateTypeOK ==
    /\ crow = NoRow \/ crow \in Rows
    /\ readyId \in ArticleIds \union {Null}
    /\ articles \subseteq ArticleIds
    /\ \A r \in Requests :
        /\ requests[r].copy = NoRow \/ requests[r].copy \in Rows
        /\ requests[r].article \in ArticleIds \union {Null}
        /\ requests[r].run \in Runs \union {NoRun}
    /\ started \in 0..IF serial THEN MaxRequests ELSE MaxOverlaps
    /\ {repaired, serial, failures} \subseteq BOOLEAN

(***************************************************************************)
(* Requests that do not overlap never take back what the reader did or     *)
(* what was learnt: a selection, an exclusion, a date, a judgement and the *)
(* finished article stay (savedCandidate, clipPointers, judgements are     *)
(* kept), unless the repair clears the date or the reader asks to          *)
(* regenerate.  Overlapping requests do forget; see the hazards.           *)
(***************************************************************************)
NothingForgotten ==
    [][serial /\ crow.exists =>
        /\ crow'.exists
        /\ crow.selected => crow'.selected
        /\ crow.excluded => crow'.excluded
        /\ crow.published => crow'.published \/ repaired' # repaired
        /\ crow.rec.status # "unevaluated" => crow'.rec.status # "unevaluated"
        /\ crow.done # Null =>
              crow'.done # Null \/ \E r \in Requests : At(r, "regenerate", 2)
      ]_crow

(***************************************************************************)
(* Once every request is over and no write failed, a candidate that is     *)
(* linked to an article is linked to the one of its job, while that is     *)
(* stored, and to the run that made it: whoever asked for the clip and     *)
(* whichever of the send, the consumer and the list comes last             *)
(* (recordClipLink, attachCompletedCandidate, syncCandidateCompletion).    *)
(***************************************************************************)
SettledLinkAgrees ==
    /\ serial /\ ~failures /\ Alone
    /\ crow.exists /\ crow.done # Null
    /\ cjob.status = "ready" /\ readyId \in articles
    => crow.run = cjob.run /\ crow.done = readyId

(***************************************************************************)
(* An article that its job reports and that is stored is offered under its *)
(* own id, whatever stale link an overlapping request left in the row      *)
(* (loadCandidateDelivery asks the job before the row).                    *)
(***************************************************************************)
DeliveredIsShown ==
    crow.exists /\ cjob.status = "ready" /\ readyId \in articles
    => loadCandidateDelivery(crow) = "available" /\ presentId(crow) = readyId

-----------------------------------------------------------------------------
\* What resolveDeRecommendation puts on record of texts with these hashes, and
\* what it is asked.
StoredJudgements(hashes) ==
    {Unevaluated, Insufficient(Null)}
    \union {evaluateDeRecommendation(hash, r) : hash \in hashes, r \in Reply}

JudgementRequests(hashes) ==
    [existing: StoredJudgements(hashes), hash: hashes \union {Null},
     paywalled: BOOLEAN, force: BOOLEAN, budget: Nat,
     deps: {"absent", "nokey", "key"}, reply: Reply]

(***************************************************************************)
(* A judgement is of the text it stands beside, is made again only when    *)
(* asked for or after a failure, survives a page without a text, and is    *)
(* read back from its columns as it was stored (resolveDeRecommendation,   *)
(* recommendBindValues, parseCandidateRecommendation).                     *)
(***************************************************************************)
ReadsBack(rec) == parseCandidateRecommendation(recommendBindValues(rec)) = rec

JudgementFits(in) ==
    LET out   == resolveDeRecommendation(in)
        again == resolveDeRecommendation(
                    [in EXCEPT !.existing = out.rec, !.force = FALSE])
    IN  /\ ReadsBack(out.rec)
        /\ out.called => out.rec.hash = in.hash
        /\ ~in.paywalled /\ in.hash # Null /\ in.budget > 0 /\ in.deps = "key" =>
              out.rec.hash = in.hash
        /\ isJudgedRecommendation(in.existing) /\ (in.paywalled \/ in.hash = Null) =>
              out.rec = in.existing
        /\ out.called /\ out.rec.status # "failed" => ~again.called
=============================================================================
