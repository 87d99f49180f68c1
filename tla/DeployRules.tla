---------------------------- MODULE DeployRules ----------------------------
(***************************************************************************)
(* The rules of the deployment check (src/smoke): which failures of the    *)
(* smoke test look like the fault of the new code, when the Worker is      *)
(* rolled back, what is told on Slack and what is deleted afterwards.      *)
(* Versions are numbered in the order they were uploaded; Unknown stands   *)
(* for every value that is no version id.                                  *)
(***************************************************************************)
EXTENDS Naturals

Unknown == 0

\* One kind of each group that is treated alike: http_401 stands for http_403,
\* http_500 for every 5xx, extract_failed for epub_failed and internal_error,
\* epub_phrase for what verifySmokeEpub finds wrong, network for every DELETE
\* that failed.
HttpKinds == {"http_401", "http_404", "http_500"}
JobKinds  == {"extract_failed", "fetch_failed", "failed"}
EpubKinds == {"epub_phrase"}

\* How each step of runDeploySmoke may fail.
FailureKinds ==
    [step \in {"article-preflight", "post-clip", "poll-job", "opds-catalog",
               "download-epub", "verify-epub"} |->
        CASE step = "article-preflight" ->
                HttpKinds \union {"network", "timeout", "phrase_missing"}
          [] step = "post-clip" -> HttpKinds \union {"network", "invalid_response"}
          [] step = "poll-job"  -> HttpKinds \union JobKinds \union
                                   {"network", "invalid_response", "timeout"}
          [] step = "opds-catalog" -> {"http_401", "http_500", "network",
                                       "not_in_catalog"}
          [] step = "download-epub" -> HttpKinds \union {"network", "epub_too_large"}
          [] step = "verify-epub"   -> EpubKinds]

(***************************************************************************)
(* The state file of a smoke run, and what the workflow exports of it.     *)
(***************************************************************************)
State(outcome, step) ==
    [outcome |-> outcome, step |-> step, failedStep |-> "-", kind |-> "-",
     jobId |-> FALSE, articleId |-> FALSE, cleanup |-> "-"]

NoState == State("unknown", "-")

failedState(state, step, kind) ==
    [state EXCEPT !.outcome = "failed", !.step = step, !.failedStep = step,
                  !.kind = kind]

smokeResultOutputs(state) ==
    [outcome |-> state.outcome, failedStep |-> state.failedStep,
     kind |-> state.kind, cleanup |-> state.cleanup]

\* Nothing is exported when the runner is lost.
NoOutputs == smokeResultOutputs(State("", "-"))

cleanupSteps == {"post-clip", "poll-job", "opds-catalog", "download-epub",
                 "verify-epub"}

\* Slip: a clip is taken to exist only once its id is known.
postedIfNamed(state) ==
    \/ state = NoState
    \/ state.outcome # "skipped" /\ (state.jobId \/ state.articleId)

smokeMayHavePosted(state) ==
    \/ state = NoState
    \/ /\ state.outcome # "skipped"
       /\ \/ state.jobId \/ state.articleId \/ state.outcome = "passed"
          \/ (IF state.failedStep # "-" THEN state.failedStep ELSE state.step)
                \in cleanupSteps

\* notificationForState: whether there is something to tell.
notificationForState(state) ==
    \/ state = NoState
    \/ state.outcome \in {"failed", "running"}
    \/ state.outcome = "passed" /\ state.cleanup # "-"

\* recordDeploySmokeResult: whether the step of the workflow succeeds.
recordDeploySmokeResult(state, required) ==
    CASE state.outcome = "skipped" -> ~required
      [] state.outcome = "failed"  -> FALSE
      [] OTHER -> TRUE

(***************************************************************************)
(* The decision to roll back                                               *)
(***************************************************************************)
isCodeLookingFailure(step, kind) ==
    \/ step = "post-clip"     /\ kind = "http_500"
    \/ step = "poll-job"      /\ kind = "extract_failed"
    \/ step = "opds-catalog"  /\ kind \in {"not_in_catalog", "http_500"}
    \/ step = "download-epub" /\ kind = "http_500"
    \/ step = "verify-epub"   /\ kind \in EpubKinds

Ignore(reason) == [kind |-> "ignore", reason |-> reason]
SkipFor(reason) == [kind |-> "skip", reason |-> reason]
Candidate == [kind |-> "candidate", reason |-> "-"]

\* Slip: a smoke run that recorded no failure is taken to have passed.
ignoreUnlessFailed(job, out) ==
    IF job = "cancelled" THEN SkipFor("cancelled")
    ELSE IF out.outcome # "failed" THEN Ignore("passed")
    ELSE Candidate

\* Slip: a job that failed is a candidate whatever its smoke run came to.
classifyByJob(job, out) ==
    IF job = "cancelled" THEN SkipFor("cancelled") ELSE Candidate

classifySmokeForRollback(job, out) ==
    CASE job = "cancelled" -> SkipFor("cancelled")
      [] job # "cancelled" /\ out.outcome = "skipped" -> Ignore("skip")
      [] job # "cancelled" /\ out.outcome = "passed" ->
            IF out.cleanup # "-" THEN SkipFor("delete") ELSE Ignore("passed")
      [] job # "cancelled" /\ out.outcome \notin {"skipped", "passed", "failed"} ->
            IF job # "failure" THEN Ignore("passed")
            ELSE IF out.outcome = "running" THEN SkipFor("external")
            ELSE SkipFor("not_allowlisted")
      [] OTHER ->
            IF out.failedStep = "article-preflight" THEN SkipFor("preflight")
            ELSE IF out.failedStep = "poll-job" /\ out.kind = "timeout"
                THEN SkipFor("timeout")
            ELSE IF out.kind \in {"network", "fetch_failed", "http_401"}
                THEN SkipFor("external")
            ELSE IF ~isCodeLookingFailure(out.failedStep, out.kind)
                THEN SkipFor("not_allowlisted")
            ELSE Candidate

(***************************************************************************)
(* What changed since the version before: the paths, and the wrangler      *)
(* configuration before and after, reduced to its bindings and the rest.   *)
(***************************************************************************)
Text(readable, parses, bindings, rest) ==
    [readable |-> readable, parses |-> parses, bindings |-> bindings,
     rest |-> rest]

Texts == {Text(FALSE, FALSE, 0, 0), Text(TRUE, FALSE, 0, 0), Text(TRUE, TRUE, 1, 1),
          Text(TRUE, TRUE, 1, 2), Text(TRUE, TRUE, 2, 1)}

Diffs == [known: BOOLEAN, migrations: BOOLEAN, config: {"none", "jsonc", "toml"},
          before: Texts, after: Texts]

bindingsOrTriggersChanged(diff) ==
    /\ diff.config # "none"
    /\ \/ ~diff.before.readable \/ ~diff.after.readable
       \/ diff.config = "toml" /\ diff.before # diff.after
       \/ /\ diff.config = "jsonc"
          /\ \/ ~diff.before.parses \/ ~diff.after.parses
             \/ diff.before.bindings # diff.after.bindings

\* Slip: the version that is live now is not compared.
guardWithoutLive(previous, worker, seen, diff) ==
    IF Unknown \in {previous, worker} THEN "unknown_version"
    ELSE IF previous = worker THEN "same_version"
    ELSE "rollback"

guardRollbackCandidate(previous, worker, seen, diff) ==
    IF Unknown \in {previous, worker} THEN "unknown_version"
    ELSE IF previous = worker THEN "same_version"
    ELSE IF ~diff.known THEN "unknown_diff"
    ELSE IF diff.migrations \/ bindingsOrTriggersChanged(diff) THEN "migration"
    ELSE IF seen # worker THEN "version_mismatch"
    ELSE "rollback"
=============================================================================
