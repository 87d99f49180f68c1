---------------------------- MODULE DeploySmoke ----------------------------
(***************************************************************************)
(* One run of the deployment workflow on main: the version before is       *)
(* noted, the Worker is deployed, the smoke test clips an article through  *)
(* it, deletes it, tells Slack, and a failure that looks like the new      *)
(* code's is rolled back (smoke/cli.ts, run.ts, rollback.ts; the order of  *)
(* the jobs is that of the workflow file; one whose deploy job fails stops *)
(* there and is left out).  Anybody may deploy another version meanwhile,  *)
(* the steps may be cut short, and a message to Slack may fail.            *)
(***************************************************************************)
EXTENDS DeployRules

CONSTANTS
    MaxDeployments,  \* how many versions others upload meanwhile
    Settings         \* the configurations of the repository told apart

SettingsFit ==
    /\ Settings \subseteq
        [complete: BOOLEAN, required: BOOLEAN, redirects: BOOLEAN, webhook: BOOLEAN]
    \* the webhook is one of the secrets (missingSmokeSecrets)
    /\ \A s \in Settings : s.complete => s.webhook

ASSUME DeployConstants == MaxDeployments \in Nat /\ SettingsFit

VARIABLES
    live,      \* the version that serves
    top,       \* the newest version uploaded
    previous,  \* the version noted before the deployment
    worker,    \* the version noted after it
    stage,     \* where the workflow stands
    settings,  \* what the repository configures
    state,     \* the state file of the smoke run
    smokeJob,  \* the result of the smoke job
    outputs,   \* what that job exported
    smokeClip, \* the smoke article's clip job in the Worker
    storedIds, \* the ids under which the smoke article is stored
    cleared,   \* TRUE once the cleanup reported success
    late,      \* TRUE once the article was stored after the cleanup
    toldSlack, \* who told Slack
    unheard,   \* whose message to Slack failed
    result     \* of the rollback, its reason and its check of the article left out

deployVars == <<live, top, previous, worker, stage, settings, state, smokeJob,
                outputs, smokeClip, storedIds, cleared, late, toldSlack,
                unheard, result>>

versionVars == <<live, top, previous, worker>>
storeVars   == <<smokeClip, storedIds, late>>
slackVars   == <<toldSlack, unheard>>

DeployInit ==
    /\ live = 1 /\ top = 1
    /\ previous = Unknown /\ worker = Unknown
    /\ stage = "before"
    /\ settings \in Settings
    /\ state = NoState
    /\ smokeJob = "success"
    /\ outputs = NoOutputs
    /\ smokeClip = "none" /\ storedIds = {}
    /\ cleared = FALSE /\ late = FALSE
    /\ toldSlack = {} /\ unheard = {}
    /\ result = "-"

(***************************************************************************)
(* The deployment                                                          *)
(***************************************************************************)
RecordBefore ==
    /\ stage = "before"
    /\ stage' = "deploy"
    /\ previous' \in {live, Unknown}
    /\ UNCHANGED <<live, top, worker, settings, state, smokeJob, outputs,
                   storeVars, cleared, slackVars, result>>

Deploy ==
    /\ stage = "deploy"
    /\ stage' = "after"
    /\ top' = top + 1
    /\ live' = top'
    /\ UNCHANGED <<previous, worker, settings, state, smokeJob, outputs,
                   storeVars, cleared, slackVars, result>>

RecordAfter ==
    /\ stage = "after"
    /\ stage' = "smoke"
    /\ worker' \in {live, Unknown}
    /\ UNCHANGED <<live, top, previous, settings, state, smokeJob, outputs,
                   storeVars, cleared, slackVars, result>>

\* What was uploaded but for the first version and the workflow's.
others == top - (IF stage \in {"before", "deploy"} THEN 1 ELSE 2)

\* A deployment by hand, or a secret that was put.
OtherDeployment ==
    /\ stage # "end"
    /\ others < MaxDeployments
    /\ top' = top + 1
    /\ live' = top'
    /\ UNCHANGED <<previous, worker, stage, settings, state, smokeJob,
                   outputs, storeVars, cleared, slackVars, result>>

(***************************************************************************)
(* runDeploySmoke: every step is published in the state file               *)
(***************************************************************************)
SmokeAt(step) == stage = "smoke" /\ state.outcome = "running" /\ state.step = step

PublishState(next) ==
    /\ state' = next
    /\ UNCHANGED <<versionVars, settings, smokeJob, outputs, cleared, slackVars, result>>

FailStep(step, kinds) ==
    /\ \E kind \in kinds : PublishState(failedState(state, step, kind))
    /\ UNCHANGED stage

StartSmoke ==
    /\ stage = "smoke" /\ state = NoState
    /\ PublishState(State("running", "record"))
    /\ UNCHANGED <<stage, storeVars>>

\* Missing secrets, an article address or an origin that is none.
CheckSettings ==
    /\ SmokeAt("record")
    /\ PublishState(IF settings.complete
               THEN [state EXCEPT !.step = "article-preflight"]
               ELSE [state EXCEPT !.outcome = "skipped", !.step = "-"])
    /\ UNCHANGED <<stage, storeVars>>

\* The article's own page; one retry, so what fails has failed twice.
Preflight ==
    /\ SmokeAt("article-preflight")
    /\ \/ PublishState([state EXCEPT !.step = "post-clip"]) /\ UNCHANGED stage
       \/ FailStep("article-preflight", FailureKinds["article-preflight"])
    /\ UNCHANGED storeVars

\* A POST whose answer is lost or unusable was accepted all the same.
PostClip ==
    /\ SmokeAt("post-clip") /\ smokeClip = "none"
    /\ \/ /\ smokeClip' = "queued"
          /\ PublishState([state EXCEPT !.step = "poll-job", !.jobId = TRUE])
          /\ UNCHANGED stage
       \/ /\ smokeClip' = "queued"
          /\ FailStep("post-clip", {"network", "invalid_response"})
       \/ /\ UNCHANGED smokeClip
          /\ FailStep("post-clip", HttpKinds \union {"network"})
       \* the run is cut short before the answer
       \/ /\ smokeClip' = "queued"
          /\ stage' = "cleanup" /\ UNCHANGED state
          /\ smokeJob' \in {"failure", "cancelled"}
          /\ UNCHANGED <<versionVars, settings, outputs, cleared, slackVars, result>>
    /\ UNCHANGED <<storedIds, late>>

\* Any other answer is asked for again until the wait is over.
PollJob ==
    /\ SmokeAt("poll-job")
    /\ \/ /\ smokeClip = "ready"
          /\ PublishState([state EXCEPT !.step = "opds-catalog", !.articleId = TRUE])
          /\ UNCHANGED stage
       \/ smokeClip = "failed" /\ FailStep("poll-job", JobKinds)
       \/ FailStep("poll-job", FailureKinds["poll-job"] \ JobKinds)
    /\ UNCHANGED storeVars

FindInCatalog ==
    /\ SmokeAt("opds-catalog")
    /\ \/ PublishState([state EXCEPT !.step = "download-epub"]) /\ UNCHANGED stage
       \/ FailStep("opds-catalog", FailureKinds["opds-catalog"])
    /\ UNCHANGED storeVars

\* The EPUB that arrived; the step is named by its failure only.
VerifyEpub ==
    \/ PublishState([state EXCEPT !.outcome = "passed", !.step = "-"])
       /\ UNCHANGED stage
    \/ FailStep("verify-epub", FailureKinds["verify-epub"])

DownloadAndVerify ==
    /\ SmokeAt("download-epub")
    /\ VerifyEpub \/ FailStep("download-epub", FailureKinds["download-epub"])
    /\ UNCHANGED storeVars

\* The step ends with an exit code, or is cut short where it stands.
SmokeEnds ==
    /\ stage = "smoke"
    /\ \/ /\ state.outcome \in {"skipped", "failed", "passed"}
          /\ smokeJob' = IF recordDeploySmokeResult(state, settings.required)
                         THEN "success" ELSE "failure"
       \/ smokeJob' \in {"failure", "cancelled"}
    /\ stage' = "cleanup"
    /\ UNCHANGED <<versionVars, settings, state, outputs, storeVars, cleared,
                   slackVars, result>>

\* The queue consumer of the Worker: the article, then the job.
ClipSettles ==
    /\ \/ /\ smokeClip = "queued"
          /\ smokeClip' = "stored"
          /\ storedIds' = {IF settings.redirects THEN "redirected" ELSE "canonical"}
          /\ late' = (stage \notin {"smoke", "cleanup"})
       \/ smokeClip = "stored" /\ smokeClip' = "ready" /\ UNCHANGED <<storedIds, late>>
       \/ smokeClip = "queued" /\ smokeClip' = "failed" /\ UNCHANGED <<storedIds, late>>
    /\ UNCHANGED <<versionVars, stage, settings, state, smokeJob, outputs, cleared,
                   slackVars, result>>

(***************************************************************************)
(* The steps that always follow: delete, notify and export                 *)
(***************************************************************************)
cleanupIds(s) ==
    {"canonical"} \union
    (IF s.articleId /\ settings.redirects THEN {"redirected"} ELSE {})

CleanupFails(kind) ==
    /\ state' = IF state = NoState THEN state ELSE [state EXCEPT !.cleanup = kind]
    /\ smokeJob' = IF smokeJob = "cancelled" THEN smokeJob ELSE "failure"
    /\ UNCHANGED cleared

\* An id that is absent is deleted well; a failed DELETE may have worked, and
\* a step that is cut short records nothing.
cleanupSmokeArticle ==
    /\ stage = "cleanup"
    /\ stage' = "notify"
    /\ \/ /\ smokeMayHavePosted(state)
          /\ \/ /\ storedIds' = storedIds \ cleanupIds(state)
                /\ cleared' = TRUE /\ UNCHANGED <<state, smokeJob>>
             \/ /\ \E gone \in SUBSET cleanupIds(state) : storedIds' = storedIds \ gone
                /\ CleanupFails("network")
             \/ /\ ~settings.complete
                /\ UNCHANGED storedIds
                /\ CleanupFails("unset")
       \/ /\ ~smokeMayHavePosted(state)
          /\ cleared' = TRUE
          /\ UNCHANGED <<storedIds, state, smokeJob>>
       \/ /\ smokeMayHavePosted(state)
          /\ \E gone \in SUBSET cleanupIds(state) : storedIds' = storedIds \ gone
          /\ smokeJob' = IF smokeJob = "cancelled" THEN smokeJob ELSE "failure"
          /\ UNCHANGED <<state, cleared>>
    /\ UNCHANGED <<versionVars, settings, outputs, smokeClip, late, slackVars, result>>

\* Nothing is sent without a webhook; a POST that fails (or is cut off) may
\* have arrived, which counts as told.  No caller acts on the failure.
sendSlack(who) ==
    \/ settings.webhook  /\ toldSlack' = toldSlack \union {who} /\ UNCHANGED unheard
    \/ settings.webhook  /\ unheard' = unheard \union {who} /\ UNCHANGED toldSlack
    \/ ~settings.webhook /\ UNCHANGED slackVars

\* Only after a failed or cancelled step, so the job has failed already.
NotifyStep ==
    /\ stage = "notify"
    /\ stage' = "export"
    /\ IF smokeJob # "success" /\ notificationForState(state)
          THEN sendSlack("smoke") ELSE UNCHANGED slackVars
    /\ UNCHANGED <<versionVars, settings, state, smokeJob, outputs, storeVars,
                   cleared, result>>

exportOutputs ==
    /\ stage = "export"
    /\ stage' = "rollback"
    /\ outputs' = smokeResultOutputs(state)
    /\ UNCHANGED <<versionVars, settings, state, smokeJob, storeVars, cleared,
                   slackVars, result>>

\* The smoke job is lost with its runner, or was never set up: no further
\* step, nothing exported.
RunnerLost ==
    /\ stage \in {"smoke", "cleanup", "notify", "export"}
    /\ stage' = "rollback"
    /\ smokeJob' \in {"failure", "cancelled"}
    /\ UNCHANGED <<versionVars, settings, state, outputs, storeVars, cleared,
                   slackVars, result>>

(***************************************************************************)
(* runDeployRollback: only after a smoke job that failed or was cancelled  *)
(***************************************************************************)
EndRollback(outcome, tell) ==
    /\ stage' = "end"
    /\ result' = outcome
    /\ IF tell THEN sendSlack("rollback") ELSE UNCHANGED slackVars

decision == classifySmokeForRollback(smokeJob, outputs)

DecideRollback ==
    /\ stage = "rollback"
    /\ \/ /\ smokeJob = "success"
          /\ EndRollback("skipped", FALSE)
       \/ /\ smokeJob # "success" /\ decision.kind = "ignore"
          /\ EndRollback("skipped", FALSE)
       \/ /\ smokeJob # "success" /\ decision.kind = "skip"
          /\ EndRollback("skipped", TRUE)
       \/ /\ smokeJob # "success" /\ decision.kind = "candidate"
          /\ \E guarded \in {guardRollbackCandidate(previous, worker, seen, diff) :
                                seen \in {live, Unknown}, diff \in Diffs} :
                IF guarded = "rollback"
                THEN stage' = "wrangler" /\ UNCHANGED <<slackVars, result>>
                ELSE EndRollback("skipped", TRUE)
    /\ UNCHANGED <<versionVars, settings, state, smokeJob, outputs, storeVars,
                   cleared>>

\* wrangler may fail, or be cut off after it took effect.
runWranglerRollback ==
    /\ stage = "wrangler"
    /\ \/ live' = previous /\ stage' = "verify" /\ UNCHANGED <<slackVars, result>>
       \/ live' \in {previous, live} /\ EndRollback("rollback_failed", TRUE)
    /\ UNCHANGED <<top, previous, worker, settings, state, smokeJob, outputs,
                   storeVars, cleared>>

\* The smoke run on the version before, with a deadline; it is told whether it
\* passed, failed or was not to be had.
VerifyRollback ==
    /\ stage = "verify"
    /\ EndRollback("rolled_back", TRUE)
    /\ UNCHANGED <<versionVars, settings, state, smokeJob, outputs, storeVars,
                   cleared>>

\* The rollback job is lost with its runner, its setup or its deadline, maybe
\* while wrangler is at work: nothing is told.
RollbackLost ==
    /\ stage \in {"rollback", "wrangler", "verify"}
    /\ smokeJob # "success"
    /\ \/ stage = "wrangler" /\ live' = previous
       \/ UNCHANGED live
    /\ EndRollback("lost", FALSE)
    /\ UNCHANGED <<top, previous, worker, settings, state, smokeJob, outputs,
                   storeVars, cleared>>

DeployNext ==
    \/ RecordBefore \/ Deploy \/ RecordAfter \/ OtherDeployment
    \/ StartSmoke \/ CheckSettings \/ Preflight \/ PostClip \/ PollJob
    \/ FindInCatalog \/ DownloadAndVerify \/ SmokeEnds \/ ClipSettles
    \/ cleanupSmokeArticle \/ NotifyStep \/ exportOutputs \/ RunnerLost
    \/ DecideRollback \/ runWranglerRollback \/ VerifyRollback \/ RollbackLost

DeploySpec == DeployInit /\ [][DeployNext]_deployVars
=============================================================================
