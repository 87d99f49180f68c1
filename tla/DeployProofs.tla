---------------------------- MODULE DeployProofs ----------------------------
(***************************************************************************)
(* Proofs about the deployment workflow, for every number of deployments   *)
(* and every set of configurations: it implements Deployment, and it keeps *)
(* what DeployProperties says of the smoke test and of the rollback.       *)
(***************************************************************************)
EXTENDS DeployProperties, TLAPS

-----------------------------------------------------------------------------
(* The refinement.  It needs no invariant: guardRollbackCandidate compares *)
(* the version it read itself, in the step that condemns it.               *)

VersionMap == <<live, top, previous, worker, verdictOf>>

\* Each value of verdictOf, by the stage.
LEMMA VerdictOfStages ==
    /\ stage = "before" => verdictOf = "new"
    /\ stage = "deploy" => verdictOf = "noted"
    /\ stage = "after" => verdictOf = "shipped"
    /\ stage \in {"smoke", "cleanup", "notify", "export", "rollback"} =>
            verdictOf = "named"
    /\ stage = "wrangler" => verdictOf = "condemned"
    /\ stage \in {"verify", "end"} => verdictOf = "settled"
  BY DEF verdictOf

\* The same of the next state, by its stage.
LEMMA VerdictOfStagesNext ==
    /\ stage' = "before" => verdictOf' = "new"
    /\ stage' = "deploy" => verdictOf' = "noted"
    /\ stage' = "after" => verdictOf' = "shipped"
    /\ stage' \in {"smoke", "cleanup", "notify", "export", "rollback"} =>
            verdictOf' = "named"
    /\ stage' = "wrangler" => verdictOf' = "condemned"
    /\ stage' \in {"verify", "end"} => verdictOf' = "settled"
  BY DEF verdictOf

\* A rollback is decided only for a known version that is the live one.
LEMMA GuardedRollback ==
    ASSUME NEW p, NEW w, NEW s, NEW diff,
           guardRollbackCandidate(p, w, s, diff) = "rollback"
    PROVE  p # Unknown /\ w # Unknown /\ p # w /\ s = w
  BY DEF guardRollbackCandidate

\* The steps of the smoke job that leave the versions alone and do not end it.
SmokeJobSteps ==
    \/ StartSmoke \/ CheckSettings \/ Preflight \/ PostClip \/ PollJob
    \/ FindInCatalog \/ DownloadAndVerify \/ SmokeEnds
    \/ cleanupSmokeArticle \/ NotifyStep \/ exportOutputs \/ RunnerLost

\* The smoke job happens while the version is named and stays so.
LEMMA SmokeJobStutters ==
    ASSUME SmokeJobSteps
    PROVE  UNCHANGED VersionMap
<1>1. /\ stage \in {"smoke", "cleanup", "notify", "export"}
      /\ stage' \in {"smoke", "cleanup", "notify", "export", "rollback"}
      /\ UNCHANGED <<live, top, previous, worker>>
  BY DEF SmokeJobSteps, StartSmoke, CheckSettings, Preflight, PostClip, PollJob,
         FindInCatalog, DownloadAndVerify, VerifyEpub, SmokeEnds, cleanupSmokeArticle,
         NotifyStep, exportOutputs, RunnerLost, SmokeAt, PublishState, FailStep,
         versionVars
<1>2. QED
  BY <1>1, VerdictOfStages, VerdictOfStagesNext DEF VersionMap

\* Every step of the workflow is one of Deployment or changes none of it.
LEMMA StepRefines ==
    [DeployNext]_deployVars => [Promise!Next]_(Promise!vars)
<1> USE DEF Promise!vars
<1>1. CASE UNCHANGED deployVars
  BY <1>1 DEF deployVars, verdictOf
<1>2. CASE RecordBefore
  <2>1. Promise!Note
    BY <1>2, VerdictOfStages, VerdictOfStagesNext DEF RecordBefore, Promise!Note
  <2>2. QED  BY <2>1 DEF Promise!Next
<1>3. CASE Deploy
  <2>1. Promise!Ship
    BY <1>3, VerdictOfStages, VerdictOfStagesNext
       DEF Deploy, Promise!Ship, Promise!Upload
  <2>2. QED  BY <2>1 DEF Promise!Next
<1>4. CASE RecordAfter
  <2>1. Promise!Name
    BY <1>4, VerdictOfStages, VerdictOfStagesNext DEF RecordAfter, Promise!Name
  <2>2. QED  BY <2>1 DEF Promise!Next
<1>5. CASE OtherDeployment
  <2>1. Promise!Others
    BY <1>5 DEF OtherDeployment, Promise!Others, Promise!Upload, verdictOf
  <2>2. QED  BY <2>1 DEF Promise!Next
<1>6. CASE SmokeJobSteps
  BY <1>6, SmokeJobStutters DEF VersionMap
<1>7. CASE ClipSettles
  <2>1. UNCHANGED VersionMap
    BY <1>7 DEF ClipSettles, versionVars, verdictOf, VersionMap
  <2>2. QED  BY <2>1 DEF VersionMap
<1>8. CASE DecideRollback
  <2>1. /\ stage = "rollback"
        /\ UNCHANGED <<live, top, previous, worker>>
    BY <1>8 DEF DecideRollback, versionVars
  <2>2. CASE stage' = "end"
    <3>1. Promise!Settle
      BY <2>1, <2>2, VerdictOfStages, VerdictOfStagesNext DEF Promise!Settle
    <3>2. QED  BY <3>1 DEF Promise!Next
  <2>3. CASE stage' # "end"
    <3>1. PICK seen \in {live, Unknown}, diff \in Diffs :
            /\ stage' = "wrangler"
            /\ guardRollbackCandidate(previous, worker, seen, diff) = "rollback"
      BY <1>8, <2>3 DEF DecideRollback, EndRollback
    <3>2. worker = live /\ previous # Unknown /\ previous # worker
      BY <3>1, GuardedRollback
    <3>3. Promise!Condemn
      BY <2>1, <3>1, <3>2, VerdictOfStages, VerdictOfStagesNext DEF Promise!Condemn
    <3>4. QED  BY <3>3 DEF Promise!Next
  <2>4. QED  BY <2>2, <2>3
<1>9. CASE runWranglerRollback
  <2>1. /\ stage = "wrangler" /\ stage' \in {"verify", "end"}
        /\ live' \in {previous, live}
        /\ UNCHANGED <<top, previous, worker>>
    BY <1>9 DEF runWranglerRollback, EndRollback
  <2>2. Promise!Undo
    BY <2>1, VerdictOfStages, VerdictOfStagesNext DEF Promise!Undo
  <2>3. QED  BY <2>2 DEF Promise!Next
<1>10. CASE VerifyRollback
  <2>1. /\ stage = "verify" /\ stage' = "end"
        /\ UNCHANGED <<live, top, previous, worker>>
    BY <1>10 DEF VerifyRollback, EndRollback, versionVars
  <2>2. QED
    BY <2>1, VerdictOfStages, VerdictOfStagesNext
<1>11. CASE RollbackLost
  <2>1. /\ stage \in {"rollback", "wrangler", "verify"} /\ stage' = "end"
        /\ \/ UNCHANGED live
           \/ stage = "wrangler" /\ live' = previous
        /\ UNCHANGED <<top, previous, worker>>
    BY <1>11 DEF RollbackLost, EndRollback
  <2>2. CASE stage = "rollback"
    <3>1. Promise!Settle
      BY <2>1, <2>2, VerdictOfStages, VerdictOfStagesNext DEF Promise!Settle
    <3>2. QED  BY <3>1 DEF Promise!Next
  <2>3. CASE stage = "wrangler"
    <3>1. Promise!Undo
      BY <2>1, <2>3, VerdictOfStages, VerdictOfStagesNext DEF Promise!Undo
    <3>2. QED  BY <3>1 DEF Promise!Next
  <2>4. CASE stage = "verify"
    BY <2>1, <2>4, VerdictOfStages, VerdictOfStagesNext
  <2>5. QED  BY <2>1, <2>2, <2>3, <2>4
<1>12. QED
  BY <1>1, <1>2, <1>3, <1>4, <1>5, <1>6, <1>7, <1>8, <1>9, <1>10, <1>11
     DEF DeployNext, SmokeJobSteps

(***************************************************************************)
(* The workflow implements Deployment: only the version it shipped is      *)
(* condemned, while it serves and with the version before it known, and a  *)
(* verdict is answered at most once, by putting that version back over     *)
(* whatever serves by then (KeepsPromise; guardRollbackCandidate,          *)
(* runDeployRollback, wranglerRollbackInvocation).                         *)
(***************************************************************************)
THEOREM WorkflowKeepsPromise == DeploySpec => KeepsPromise
<1>1. DeployInit => Promise!Init
  BY DEF DeployInit, Promise!Init, verdictOf
<1>2. QED
  BY <1>1, StepRefines, PTL DEF DeploySpec, KeepsPromise, Promise!Spec

-----------------------------------------------------------------------------
(* The invariants.  DeployInvariant is inductive: the type invariant, and  *)
(* what ties the state file of the smoke run to the stage, to what was     *)
(* exported of it and to the article in the Worker.                        *)

States ==
    [outcome: {"unknown", "running", "skipped", "failed", "passed"},
     step: {"-", "record"} \union DOMAIN FailureKinds,
     failedStep: {"-"} \union DOMAIN FailureKinds,
     kind: {"-"} \union UNION {FailureKinds[step] : step \in DOMAIN FailureKinds},
     jobId: BOOLEAN, articleId: BOOLEAN,
     cleanup: {"-", "network", "unset"}]

\* The versions: before the deployment nobody has used up the last number.
VersionsOK ==
    /\ top \in 1..(MaxDeployments + 2)
    /\ stage \in {"before", "deploy"} => top <= MaxDeployments + 1
    /\ live \in 1..(MaxDeployments + 2) /\ live <= top
    /\ previous \in 0..top /\ worker \in 0..top
    /\ stage = "wrangler" => previous # Unknown

Unsmoked == {"before", "deploy", "after"}
Smoked == {"notify", "export", "rollback", "wrangler", "verify", "end"}
Exported == {"rollback", "wrangler", "verify", "end"}

StageOK ==
    /\ stage \in Unsmoked \union Smoked \union {"smoke", "cleanup"}
    /\ settings \in Settings
    /\ smokeJob \in {"success", "failure", "cancelled"}
    /\ toldSlack \in SUBSET {"smoke", "rollback"}
    /\ unheard \in SUBSET {"smoke", "rollback"}
    /\ cleared \in BOOLEAN /\ late \in BOOLEAN
    /\ cleared => stage \in Smoked

\* The state file s at a stage: a failure names its step, and a step its kinds.
StateFits(s, at) ==
    /\ s \in States
    /\ s.kind # "-" =>
          s.failedStep \in DOMAIN FailureKinds /\ s.kind \in FailureKinds[s.failedStep]
    /\ s.outcome \in {"unknown", "running", "skipped"} => s.failedStep = "-"
    /\ s.outcome = "failed" => s.failedStep # "-"
    /\ s.outcome = "unknown" => s = NoState
    /\ at \in Unsmoked => s = NoState
    /\ at = "smoke" \/ s.outcome = "skipped" => s.cleanup = "-"

StateOK == StateFits(state, stage)

\* What was exported is what the state file says, or nothing.
OutputsOK ==
    \/ outputs = NoOutputs
    \/ stage \in Exported /\ outputs = smokeResultOutputs(state)

Posting(s) ==
    \/ s.outcome = "passed"
    \/ s.outcome = "running" /\ s.step \in cleanupSteps
    \/ s.outcome = "failed" /\ s.failedStep \in cleanupSteps

\* A smoke run that may have posted says so.
PostedOK ==
    /\ smokeClip \in {"none", "queued", "stored", "ready", "failed"}
    /\ stage \in Unsmoked => smokeClip = "none"
    /\ smokeClip # "none" => Posting(state)
    /\ storedIds \in SUBSET {IF settings.redirects THEN "redirected" ELSE "canonical"}
    /\ storedIds # {} => smokeClip \in {"stored", "ready"}

\* Only a failure of the code is a reason to roll back.
CondemnedOK ==
    stage \in {"wrangler", "verify"} =>
        smokeJob # "success" /\ decision.kind = "candidate"

\* After the notify step a smoke job that failed has told Slack or tried to,
\* unless its state file gives nothing to tell or the job was lost.
NotifiedOK ==
    stage = "export" \/ stage \in Exported =>
        \/ smokeJob = "success" \/ ~settings.webhook
        \/ "smoke" \in toldSlack \union unheard
        \/ ~notificationForState(state)
        \/ stage \in Exported /\ outputs = NoOutputs

DeployInvariant ==
    /\ VersionsOK /\ StageOK /\ StateOK /\ OutputsOK /\ PostedOK /\ CondemnedOK
    /\ NotifiedOK
    /\ SmokeArticleIsCleared /\ FailureIsTold

-----------------------------------------------------------------------------
(* The state file. *)

\* The steps of the smoke test that can fail, and what a kind of failure is not.
LEMMA FailureKindsFacts ==
    /\ DOMAIN FailureKinds = {"article-preflight", "post-clip", "poll-job",
            "opds-catalog", "download-epub", "verify-epub"}
    /\ cleanupSteps \subseteq DOMAIN FailureKinds
    /\ \A step \in DOMAIN FailureKinds : "-" \notin FailureKinds[step]
    /\ HttpKinds \union {"network", "invalid_response"} = FailureKinds["post-clip"]
    /\ JobKinds \subseteq FailureKinds["poll-job"]
  BY DEF FailureKinds, HttpKinds, JobKinds, EpubKinds, cleanupSteps

\* A failure that is noted in a state file of a running smoke test fits.
LEMMA FailureFits ==
    ASSUME NEW s, NEW step, NEW kind, NEW at \in {"smoke", "cleanup"},
           StateFits(s, "smoke"), step \in DOMAIN FailureKinds,
           kind \in FailureKinds[step]
    PROVE  /\ StateFits(failedState(s, step, kind), at)
           /\ failedState(s, step, kind).outcome = "failed"
           /\ failedState(s, step, kind).failedStep = step
<1> DEFINE t == failedState(s, step, kind)
<1>1. /\ t \in States /\ t.kind = kind /\ t.failedStep = step
      /\ t.outcome = "failed" /\ t.cleanup = s.cleanup
  BY DEF failedState, States, StateFits
<1>2. step # "-" /\ s.cleanup = "-"
  BY FailureKindsFacts DEF StateFits
<1>3. QED
  BY <1>1, <1>2 DEF StateFits, Unsmoked

\* A state file that fits once the smoke test is over fits at any later stage.
LEMMA FitsLater ==
    ASSUME NEW s, NEW at \in {"smoke", "cleanup"} \union Smoked,
           NEW later \in {"cleanup"} \union Smoked, StateFits(s, at)
    PROVE  StateFits(s, later)
  BY DEF StateFits, Unsmoked, Smoked

\* The state file is written by the smoke test and by its cleanup only.
LEMMA StateKept ==
    ASSUME StageOK, StateOK, [DeployNext]_deployVars
    PROVE  StateOK'
<1> USE DEF StateOK
<1>1. CASE UNCHANGED deployVars
  BY <1>1 DEF deployVars
<1>2. CASE RecordBefore \/ Deploy \/ OtherDeployment
  BY <1>2 DEF RecordBefore, Deploy, OtherDeployment, StateFits, Unsmoked
<1>3. CASE RecordAfter
  <2>1. state' = NoState /\ stage' = "smoke"
    BY <1>3 DEF RecordAfter, StateFits, Unsmoked
  <2>2. QED
    BY <2>1, FailureKindsFacts DEF StateFits, Unsmoked, NoState, State, States
<1>4. CASE StartSmoke
  <2>1. state' = State("running", "record") /\ stage' = "smoke"
    BY <1>4 DEF StartSmoke, PublishState
  <2>2. QED
    BY <2>1 DEF StateFits, Unsmoked, State, States
<1>5. CASE CheckSettings
  <2>1. /\ state.outcome = "running" /\ stage = "smoke" /\ stage' = "smoke"
        /\ \/ state' = [state EXCEPT !.step = "article-preflight"]
           \/ state' = [state EXCEPT !.outcome = "skipped", !.step = "-"]
    BY <1>5 DEF CheckSettings, SmokeAt, PublishState
  <2>2. state' \in States /\ state'.failedStep = "-" /\ state'.cleanup = "-"
        /\ state'.kind = state.kind /\ state'.outcome \in {"running", "skipped"}
    BY <2>1, FailureKindsFacts, ZenonT(40) DEF StateFits, States
  <2>3. state.kind = "-"
    BY <2>1, FailureKindsFacts DEF StateFits
  <2>4. QED
    BY <2>1, <2>2, <2>3 DEF StateFits, Unsmoked
<1>6. CASE Preflight \/ PostClip \/ PollJob \/ FindInCatalog \/ DownloadAndVerify
  <2>1. /\ state.outcome = "running" /\ stage = "smoke"
        /\ stage' \in {"smoke", "cleanup"}
    BY <1>6 DEF Preflight, PostClip, PollJob, FindInCatalog, DownloadAndVerify, VerifyEpub,
                FailStep, PublishState, SmokeAt
  <2>2. \/ UNCHANGED state
        \/ /\ stage' = "smoke"
           /\ \/ state' = [state EXCEPT !.step = "post-clip"]
              \/ state' = [state EXCEPT !.step = "poll-job", !.jobId = TRUE]
              \/ state' = [state EXCEPT !.step = "opds-catalog", !.articleId = TRUE]
              \/ state' = [state EXCEPT !.step = "download-epub"]
              \/ state' = [state EXCEPT !.outcome = "passed", !.step = "-"]
        \/ \E step \in DOMAIN FailureKinds : \E kind \in FailureKinds[step] :
              state' = failedState(state, step, kind)
    BY <1>6, FailureKindsFacts
       DEF Preflight, PostClip, PollJob, FindInCatalog, DownloadAndVerify, VerifyEpub,
           FailStep, PublishState, SmokeAt
  <2>3. CASE UNCHANGED state
    BY <2>1, <2>3 DEF StateFits, Unsmoked
  <2>4. CASE \E step \in DOMAIN FailureKinds : \E kind \in FailureKinds[step] :
              state' = failedState(state, step, kind)
    BY <2>1, <2>4, FailureFits
  <2>5. CASE /\ stage' = "smoke"
             /\ \/ state' = [state EXCEPT !.step = "post-clip"]
                \/ state' = [state EXCEPT !.step = "poll-job", !.jobId = TRUE]
                \/ state' = [state EXCEPT !.step = "opds-catalog", !.articleId = TRUE]
                \/ state' = [state EXCEPT !.step = "download-epub"]
                \/ state' = [state EXCEPT !.outcome = "passed", !.step = "-"]
    <3>1. /\ state' \in States /\ state'.outcome \in {"running", "passed"}
          /\ state'.failedStep = state.failedStep /\ state'.kind = state.kind
          /\ state'.cleanup = state.cleanup
      <4>1. state \in States /\ state.outcome = "running"
        BY <2>1 DEF StateFits
      <4>2. {"post-clip", "poll-job", "opds-catalog", "download-epub", "-"} \subseteq
                {"-", "record"} \union DOMAIN FailureKinds
        BY FailureKindsFacts
      <4>3. CASE state' = [state EXCEPT !.step = "post-clip"]
        BY <4>1, <4>2, <4>3 DEF States
      <4>4. CASE state' = [state EXCEPT !.step = "poll-job", !.jobId = TRUE]
        BY <4>1, <4>2, <4>4 DEF States
      <4>5. CASE state' = [state EXCEPT !.step = "opds-catalog", !.articleId = TRUE]
        BY <4>1, <4>2, <4>5 DEF States
      <4>6. CASE state' = [state EXCEPT !.step = "download-epub"]
        BY <4>1, <4>2, <4>6 DEF States
      <4>7. CASE state' = [state EXCEPT !.outcome = "passed", !.step = "-"]
        BY <4>1, <4>2, <4>7 DEF States
      <4>8. QED  BY <2>5, <4>3, <4>4, <4>5, <4>6, <4>7
    <3>2. state.failedStep = "-" /\ state.cleanup = "-" /\ state.kind = "-"
      BY <2>1, FailureKindsFacts DEF StateFits
    <3>3. QED
      BY <2>1, <2>5, <3>1, <3>2 DEF StateFits, Unsmoked
  <2>6. QED  BY <2>2, <2>3, <2>4, <2>5
<1>7. CASE SmokeEnds \/ RunnerLost
  <2>1. UNCHANGED state /\ stage \in {"smoke", "cleanup"} \union Smoked
        /\ stage' \in {"cleanup"} \union Smoked
    BY <1>7 DEF SmokeEnds, RunnerLost, Smoked
  <2>2. QED  BY <2>1, FitsLater
<1>8. CASE ClipSettles
  BY <1>8 DEF ClipSettles
<1>9. CASE cleanupSmokeArticle
  <2>1. stage = "cleanup" /\ stage' = "notify"
    BY <1>9 DEF cleanupSmokeArticle
  <2>2. CASE UNCHANGED state
    BY <2>1, <2>2, FitsLater DEF Smoked
  <2>3. CASE state' # state
    <3>1. PICK kind \in {"network", "unset"} :
             /\ state # NoState /\ state' = [state EXCEPT !.cleanup = kind]
             /\ smokeMayHavePosted(state)
      BY <1>9, <2>3 DEF cleanupSmokeArticle, CleanupFails
    <3>2. state.outcome # "skipped"
      BY <3>1 DEF smokeMayHavePosted
    <3>3. /\ state' \in States /\ state'.outcome = state.outcome
          /\ state'.failedStep = state.failedStep /\ state'.kind = state.kind
      BY <3>1 DEF StateFits, States
    <3>4. QED
      BY <2>1, <3>1, <3>2, <3>3 DEF StateFits, Unsmoked
  <2>4. QED  BY <2>2, <2>3
<1>10. CASE NotifyStep \/ exportOutputs \/ DecideRollback \/ runWranglerRollback
            \/ VerifyRollback \/ RollbackLost
  <2>1. UNCHANGED state /\ stage \in Smoked /\ stage' \in Smoked
    BY <1>10 DEF NotifyStep, exportOutputs, DecideRollback, runWranglerRollback,
                 VerifyRollback, RollbackLost, EndRollback, Smoked
  <2>2. QED  BY <2>1, FitsLater
<1>11. QED
  BY <1>1, <1>2, <1>3, <1>4, <1>5, <1>6, <1>7, <1>8, <1>9, <1>10 DEF DeployNext

-----------------------------------------------------------------------------
(* The versions and the stages. *)

\* Versions are numbered in their order, and the last number is the workflow's.
LEMMA VersionsKept ==
    ASSUME VersionsOK, StageOK, [DeployNext]_deployVars
    PROVE  VersionsOK'
<1> USE DeployConstants DEF VersionsOK
<1>1. CASE UNCHANGED deployVars
  BY <1>1 DEF deployVars
<1>2. CASE RecordBefore \/ RecordAfter
  BY <1>2 DEF RecordBefore, RecordAfter, Unknown
<1>3. CASE Deploy \/ OtherDeployment
  <2>1. CASE Deploy
    BY <2>1 DEF Deploy
  <2>2. CASE OtherDeployment
    <3>1. /\ stage # "end" /\ others < MaxDeployments
          /\ top' = top + 1 /\ live' = top'
          /\ UNCHANGED <<previous, worker, stage>>
      BY <2>2 DEF OtherDeployment
    <3>2. QED  BY <3>1, DeployConstants DEF others
  <2>3. QED  BY <1>3, <2>1, <2>2
<1>4. CASE SmokeJobSteps
  <2>1. /\ UNCHANGED <<live, top, previous, worker>>
        /\ stage' \notin {"before", "deploy", "wrangler"}
    BY <1>4 DEF SmokeJobSteps, StartSmoke, CheckSettings, Preflight, PostClip,
         PollJob, FindInCatalog, DownloadAndVerify, VerifyEpub, SmokeEnds,
         cleanupSmokeArticle,
         NotifyStep, exportOutputs, RunnerLost, SmokeAt, PublishState, FailStep,
         versionVars
  <2>2. QED  BY <2>1
<1>5. CASE ClipSettles
  BY <1>5 DEF ClipSettles, versionVars
<1>6. CASE DecideRollback
  <2>1. /\ UNCHANGED <<live, top, previous, worker>>
        /\ stage' \in {"wrangler", "end"}
    BY <1>6 DEF DecideRollback, EndRollback, versionVars
  <2>2. stage' = "wrangler" => previous # Unknown
    <3>1. SUFFICES ASSUME stage' = "wrangler" PROVE previous # Unknown
      OBVIOUS
    <3>2. PICK seen \in {live, Unknown}, diff \in Diffs :
            guardRollbackCandidate(previous, worker, seen, diff) = "rollback"
      BY <1>6, <3>1 DEF DecideRollback, EndRollback
    <3>3. QED  BY <3>2, GuardedRollback
  <2>3. QED  BY <2>1, <2>2 DEF Unknown
<1>7. CASE runWranglerRollback
  <2>1. /\ UNCHANGED <<top, previous, worker>> /\ live' \in {previous, live}
        /\ stage' \in {"verify", "end"}
    BY <1>7 DEF runWranglerRollback, EndRollback
  <2>2. stage = "wrangler"
    BY <1>7 DEF runWranglerRollback
  <2>3. QED  BY <2>1, <2>2 DEF Unknown
<1>8. CASE VerifyRollback
  BY <1>8 DEF VerifyRollback, EndRollback, versionVars
<1>9. CASE RollbackLost
  <2>1. /\ UNCHANGED <<top, previous, worker>> /\ stage' = "end"
        /\ \/ UNCHANGED live
           \/ stage = "wrangler" /\ live' = previous
    BY <1>9 DEF RollbackLost, EndRollback
  <2>2. QED  BY <2>1 DEF Unknown
<1>10. QED
  BY <1>1, <1>2, <1>3, <1>4, <1>5, <1>6, <1>7, <1>8, <1>9
     DEF DeployNext, SmokeJobSteps

\* Every handler leads to a stage of the workflow and keeps the flags in their types.
LEMMA StageKept ==
    ASSUME StageOK, [DeployNext]_deployVars
    PROVE  StageOK'
<1> USE DEF StageOK, Unsmoked, Smoked, slackVars
<1>1. CASE UNCHANGED deployVars
  BY <1>1 DEF deployVars
<1>2. CASE RecordBefore \/ RecordAfter \/ Deploy \/ OtherDeployment
  <2>1. /\ stage' \in {stage} \union Unsmoked \union {"smoke"}
        /\ stage \in Unsmoked \/ stage' = stage
        /\ UNCHANGED <<settings, smokeJob, slackVars, cleared, late>>
    BY <1>2 DEF RecordBefore, RecordAfter, Deploy, OtherDeployment, storeVars
  <2>2. cleared' => stage' \in Smoked
    BY <2>1
  <2>3. QED  BY <2>1, <2>2
<1>3. CASE StartSmoke \/ CheckSettings \/ Preflight \/ PostClip \/ PollJob
           \/ FindInCatalog \/ DownloadAndVerify
  <2>1. /\ stage = "smoke" /\ stage' \in {"smoke", "cleanup"}
        /\ smokeJob' \in {smokeJob, "failure", "cancelled"}
        /\ UNCHANGED <<settings, slackVars, cleared, late>>
    BY <1>3 DEF StartSmoke, CheckSettings, Preflight, PostClip, PollJob,
         FindInCatalog, DownloadAndVerify, VerifyEpub, SmokeAt, PublishState, FailStep,
         storeVars
  <2>2. QED  BY <2>1
<1>4. CASE SmokeEnds \/ RunnerLost
  <2>1. /\ stage \in {"smoke", "cleanup", "notify", "export"}
        /\ \/ stage' = "rollback"
           \/ stage = "smoke" /\ stage' = "cleanup"
        /\ smokeJob' \in {"success", "failure", "cancelled"}
        /\ UNCHANGED <<settings, slackVars, cleared, late>>
    BY <1>4 DEF SmokeEnds, RunnerLost, storeVars
  <2>2. cleared' => stage' \in Smoked
    BY <2>1
  <2>3. QED  BY <2>1, <2>2
<1>5. CASE ClipSettles
  BY <1>5 DEF ClipSettles
<1>6. CASE cleanupSmokeArticle
  <2>1. /\ stage = "cleanup" /\ stage' = "notify" /\ cleared' \in {TRUE, cleared}
        /\ smokeJob' \in {smokeJob, "failure"}
        /\ UNCHANGED <<settings, slackVars, late>>
    BY <1>6 DEF cleanupSmokeArticle, CleanupFails
  <2>2. QED  BY <2>1
<1>7. CASE NotifyStep \/ exportOutputs
  <2>1. /\ stage' \in Smoked /\ UNCHANGED <<settings, smokeJob, cleared, late>>
        /\ toldSlack' \in {toldSlack, toldSlack \union {"smoke"}}
        /\ unheard' \in {unheard, unheard \union {"smoke"}}
    BY <1>7 DEF NotifyStep, exportOutputs, sendSlack, storeVars
  <2>2. QED  BY <2>1
<1>8. CASE DecideRollback \/ runWranglerRollback \/ VerifyRollback \/ RollbackLost
  <2>1. /\ stage' \in Smoked /\ UNCHANGED <<settings, smokeJob, cleared, late>>
        /\ toldSlack' \in {toldSlack, toldSlack \union {"rollback"}}
        /\ unheard' \in {unheard, unheard \union {"rollback"}}
    BY <1>8 DEF DecideRollback, runWranglerRollback, VerifyRollback, RollbackLost,
                EndRollback, sendSlack, storeVars
  <2>2. QED  BY <2>1
<1>9. QED
  BY <1>1, <1>2, <1>3, <1>4, <1>5, <1>6, <1>7, <1>8 DEF DeployNext

-----------------------------------------------------------------------------
(* What was exported, and the article. *)

\* Only exportOutputs exports, and the state file stays as it was exported.
LEMMA OutputsKept ==
    ASSUME OutputsOK, [DeployNext]_deployVars
    PROVE  OutputsOK'
<1> USE DEF OutputsOK, Exported
<1>1. CASE UNCHANGED deployVars
  BY <1>1 DEF deployVars
<1>2. CASE RecordBefore \/ RecordAfter \/ Deploy \/ OtherDeployment \/ ClipSettles
  BY <1>2 DEF RecordBefore, RecordAfter, Deploy, OtherDeployment, ClipSettles
<1>3. CASE SmokeJobSteps /\ ~exportOutputs
  <2>1. stage \in {"smoke", "cleanup", "notify", "export"} /\ UNCHANGED outputs
    BY <1>3 DEF SmokeJobSteps, StartSmoke, CheckSettings, Preflight, PostClip,
         PollJob, FindInCatalog, DownloadAndVerify, VerifyEpub, SmokeEnds,
         cleanupSmokeArticle,
         NotifyStep, RunnerLost, SmokeAt, PublishState, FailStep
  <2>2. QED  BY <2>1
<1>4. CASE exportOutputs
  BY <1>4 DEF exportOutputs
<1>5. CASE DecideRollback \/ runWranglerRollback \/ VerifyRollback \/ RollbackLost
  <2>1. stage' \in Exported /\ UNCHANGED <<state, outputs>>
    BY <1>5 DEF DecideRollback, runWranglerRollback, VerifyRollback, RollbackLost,
                EndRollback
  <2>2. QED  BY <2>1
<1>6. QED
  BY <1>1, <1>2, <1>3, <1>4, <1>5 DEF DeployNext, SmokeJobSteps

\* What is exported are fields of the state file; nothing has no outcome.
LEMMA ExportedFields ==
    ASSUME NEW s
    PROVE  /\ smokeResultOutputs(s).outcome = s.outcome
           /\ smokeResultOutputs(s).cleanup = s.cleanup
           /\ smokeResultOutputs(s).failedStep = s.failedStep
           /\ smokeResultOutputs(s).kind = s.kind
  BY DEF smokeResultOutputs

\* A job that wrote no outputs reports no outcome.
LEMMA NothingExported == NoOutputs.outcome = ""
  BY DEF NoOutputs, smokeResultOutputs, State

\* A candidate for a rollback is a run that exported a failure of the code.
LEMMA CandidateFailed ==
    ASSUME NEW job, NEW out, job # "success",
           job \in {"success", "failure", "cancelled"},
           classifySmokeForRollback(job, out).kind = "candidate"
    PROVE  /\ out.outcome = "failed"
           /\ isCodeLookingFailure(out.failedStep, out.kind)
           /\ out.failedStep # "article-preflight"
<1>1. job # "cancelled" /\ out.outcome \notin {"skipped", "passed"}
  BY DEF classifySmokeForRollback, SkipFor, Ignore
<1>2. out.outcome = "failed"
  BY <1>1 DEF classifySmokeForRollback, SkipFor, Ignore
<1>3. isCodeLookingFailure(out.failedStep, out.kind)
  BY <1>1, <1>2 DEF classifySmokeForRollback, SkipFor, Candidate
<1>4. QED
  BY <1>1, <1>2, <1>3 DEF isCodeLookingFailure

\* A run that is ignored passed and cleaned up, or was skipped.
LEMMA IgnoredWell ==
    ASSUME NEW job \in {"failure", "cancelled"}, NEW out,
           classifySmokeForRollback(job, out).kind = "ignore"
    PROVE  \/ out.outcome = "skipped"
           \/ out.outcome = "passed" /\ out.cleanup = "-"
<1>1. job # "cancelled"
  BY DEF classifySmokeForRollback, SkipFor
<1>2. CASE out.outcome \in {"skipped", "passed"}
  BY <1>1, <1>2 DEF classifySmokeForRollback, SkipFor
<1>3. CASE out.outcome \notin {"skipped", "passed", "failed"}
  BY <1>1, <1>3 DEF classifySmokeForRollback, SkipFor
<1>4. CASE out.outcome = "failed"
  BY <1>1, <1>4 DEF classifySmokeForRollback, SkipFor, Candidate
<1>5. QED  BY <1>2, <1>3, <1>4

\* The verdict stands: nothing is exported and no job ends after it.
LEMMA CondemnedKept ==
    ASSUME StageOK, CondemnedOK, [DeployNext]_deployVars
    PROVE  CondemnedOK'
<1> USE DEF CondemnedOK, decision
<1>1. CASE UNCHANGED deployVars
  BY <1>1 DEF deployVars
<1>2. CASE OtherDeployment \/ ClipSettles
  BY <1>2 DEF OtherDeployment, ClipSettles
<1>3. CASE RecordBefore \/ RecordAfter \/ Deploy
  BY <1>3 DEF RecordBefore, RecordAfter, Deploy
<1>4. CASE SmokeJobSteps
  <2>1. stage' \notin {"wrangler", "verify"}
    BY <1>4 DEF SmokeJobSteps, StartSmoke, CheckSettings, Preflight, PostClip,
         PollJob, FindInCatalog, DownloadAndVerify, VerifyEpub, SmokeEnds,
         cleanupSmokeArticle,
         NotifyStep, exportOutputs, RunnerLost, SmokeAt, PublishState, FailStep
  <2>2. QED  BY <2>1
<1>5. CASE DecideRollback
  <2>1. UNCHANGED <<smokeJob, outputs>>
    BY <1>5 DEF DecideRollback
  <2>2. stage' \in {"wrangler", "verify"} =>
            smokeJob # "success" /\ decision.kind = "candidate"
    BY <1>5 DEF DecideRollback, EndRollback
  <2>3. QED  BY <2>1, <2>2
<1>6. CASE runWranglerRollback
  <2>1. stage = "wrangler" /\ UNCHANGED <<smokeJob, outputs>>
    BY <1>6 DEF runWranglerRollback
  <2>2. QED  BY <2>1
<1>7. CASE VerifyRollback \/ RollbackLost
  BY <1>7 DEF VerifyRollback, RollbackLost, EndRollback
<1>8. QED
  BY <1>1, <1>2, <1>3, <1>4, <1>5, <1>6, <1>7 DEF DeployNext, SmokeJobSteps

\* A state file that says the run may have posted makes the cleanup delete.
LEMMA PostingIsSeen ==
    ASSUME NEW s, NEW at, StateFits(s, at), Posting(s)
    PROVE  smokeMayHavePosted(s)
<1>1. s.outcome # "skipped"
  BY DEF Posting
<1>2. CASE s.outcome = "passed"
  BY <1>2 DEF smokeMayHavePosted
<1>3. CASE s.outcome = "running"
  BY <1>3 DEF smokeMayHavePosted, Posting, StateFits
<1>4. CASE s.outcome = "failed"
  BY <1>4 DEF smokeMayHavePosted, Posting, StateFits
<1>5. QED  BY <1>2, <1>3, <1>4 DEF Posting

\* Posting goes on: the steps after post-clip only move to steps after it.
LEMMA PostedKept ==
    ASSUME StageOK, StateOK, PostedOK, [DeployNext]_deployVars
    PROVE  PostedOK'
<1> USE DEF StateOK
<1> DEFINE id == IF settings.redirects THEN "redirected" ELSE "canonical"
<1>1. CASE UNCHANGED deployVars
  BY <1>1 DEF deployVars, PostedOK
<1>2. CASE RecordBefore \/ RecordAfter \/ Deploy \/ OtherDeployment
  BY <1>2 DEF RecordBefore, RecordAfter, Deploy, OtherDeployment, storeVars, PostedOK,
              Unsmoked
<1>3. CASE StartSmoke
  <2>1. smokeClip = "none"
    BY <1>3, FailureKindsFacts DEF StartSmoke, PostedOK, Posting, NoState, State
  <2>2. QED
    BY <1>3, <2>1 DEF StartSmoke, PublishState, storeVars, PostedOK, Unsmoked
<1>4. CASE CheckSettings \/ Preflight
  <2>1. state.outcome = "running" /\ state.step \notin cleanupSteps
    BY <1>4 DEF CheckSettings, Preflight, SmokeAt, cleanupSteps
  <2>2. smokeClip = "none"
    BY <2>1 DEF PostedOK, Posting
  <2>3. stage' = "smoke" /\ UNCHANGED <<smokeClip, storedIds, settings>>
    BY <1>4 DEF CheckSettings, Preflight, SmokeAt, PublishState, FailStep, storeVars
  <2>4. QED  BY <2>2, <2>3 DEF PostedOK, Unsmoked
<1>5. CASE PostClip \/ PollJob \/ FindInCatalog \/ DownloadAndVerify
  <2>1. /\ stage = "smoke" /\ stage' \in {"smoke", "cleanup"}
        /\ state.outcome = "running" /\ state.step \in cleanupSteps
        /\ UNCHANGED <<storedIds, settings>>
        /\ smokeClip' \in {smokeClip, "queued"} /\ (smokeClip = "none" \/ UNCHANGED smokeClip)
    BY <1>5 DEF PostClip, PollJob, FindInCatalog, DownloadAndVerify, VerifyEpub, SmokeAt,
                PublishState, FailStep, storeVars, cleanupSteps
  <2>2. Posting(state')
    <3>1. \/ UNCHANGED state
          \/ state' = [state EXCEPT !.step = "poll-job", !.jobId = TRUE]
          \/ state' = [state EXCEPT !.step = "opds-catalog", !.articleId = TRUE]
          \/ state' = [state EXCEPT !.step = "download-epub"]
          \/ state' = [state EXCEPT !.outcome = "passed", !.step = "-"]
          \/ \E step \in cleanupSteps : \E kind \in FailureKinds[step] :
                state' = failedState(state, step, kind)
      BY <1>5, FailureKindsFacts
         DEF PostClip, PollJob, FindInCatalog, DownloadAndVerify, VerifyEpub, FailStep,
             PublishState, SmokeAt, cleanupSteps
    <3>2. state \in States
      BY DEF StateFits
    <3>3. CASE UNCHANGED state
      BY <2>1, <3>3 DEF Posting
    <3>4. CASE state' = [state EXCEPT !.step = "poll-job", !.jobId = TRUE]
      BY <2>1, <3>2, <3>4 DEF Posting, States, cleanupSteps
    <3>5. CASE state' = [state EXCEPT !.step = "opds-catalog", !.articleId = TRUE]
      BY <2>1, <3>2, <3>5 DEF Posting, States, cleanupSteps
    <3>6. CASE state' = [state EXCEPT !.step = "download-epub"]
      BY <2>1, <3>2, <3>6 DEF Posting, States, cleanupSteps
    <3>7. CASE state' = [state EXCEPT !.outcome = "passed", !.step = "-"]
      BY <3>2, <3>7 DEF Posting, States
    <3>8. CASE \E step \in cleanupSteps : \E kind \in FailureKinds[step] :
                state' = failedState(state, step, kind)
      BY <2>1, <3>8, FailureFits, FailureKindsFacts DEF Posting
    <3>9. QED  BY <3>1, <3>3, <3>4, <3>5, <3>6, <3>7, <3>8
  <2>3. QED  BY <2>1, <2>2 DEF PostedOK, Unsmoked
<1>6. CASE SmokeEnds \/ RunnerLost \/ NotifyStep \/ exportOutputs
  BY <1>6 DEF SmokeEnds, RunnerLost, NotifyStep, exportOutputs, storeVars, PostedOK,
              Unsmoked
<1>7. CASE ClipSettles
  <2>1. /\ smokeClip' \in {"stored", "ready", "failed"} /\ smokeClip # "none"
        /\ UNCHANGED <<stage, state, settings>>
        /\ \/ storedIds' = {id} /\ smokeClip' = "stored"
           \/ UNCHANGED storedIds /\ smokeClip = "stored" /\ smokeClip' = "ready"
           \/ UNCHANGED storedIds /\ smokeClip = "queued" /\ smokeClip' = "failed"
    BY <1>7 DEF ClipSettles
  <2>2. QED  BY <2>1 DEF PostedOK, Unsmoked
<1>8. CASE cleanupSmokeArticle
  <2>1. /\ stage = "cleanup" /\ stage' = "notify"
        /\ UNCHANGED <<settings, smokeClip>>
        /\ storedIds' \subseteq storedIds
    BY <1>8 DEF cleanupSmokeArticle
  <2>2. Posting(state) => Posting(state')
    <3>1. \/ UNCHANGED state
          \/ \E kind \in {"network", "unset"} :
                state' = [state EXCEPT !.cleanup = kind]
      BY <1>8 DEF cleanupSmokeArticle, CleanupFails
    <3>2. QED  BY <3>1 DEF Posting, StateFits, States
  <2>3. QED  BY <2>1, <2>2 DEF PostedOK, Unsmoked
<1>9. CASE DecideRollback \/ runWranglerRollback \/ VerifyRollback \/ RollbackLost
  <2>1. UNCHANGED <<state, settings, smokeClip, storedIds>> /\ stage' \notin Unsmoked
    BY <1>9 DEF DecideRollback, runWranglerRollback, VerifyRollback, RollbackLost,
                EndRollback, storeVars, Unsmoked
  <2>2. QED  BY <2>1 DEF PostedOK
<1>10. QED
  BY <1>1, <1>2, <1>3, <1>4, <1>5, <1>6, <1>7, <1>8, <1>9 DEF DeployNext

\* The article is gone when the cleanup says so: it comes back only late.
LEMMA ClearedKept ==
    ASSUME StageOK, StateOK, PostedOK, SmokeArticleIsCleared,
           [DeployNext]_deployVars
    PROVE  SmokeArticleIsCleared'
<1> USE DEF SmokeArticleIsCleared
<1> DEFINE id == IF settings.redirects THEN "redirected" ELSE "canonical"
<1>1. CASE UNCHANGED deployVars
  BY <1>1 DEF deployVars
<1>2. CASE RecordBefore \/ RecordAfter \/ Deploy \/ OtherDeployment
  BY <1>2 DEF RecordBefore, RecordAfter, Deploy, OtherDeployment, storeVars
<1>3. CASE StartSmoke \/ CheckSettings \/ Preflight \/ PostClip \/ PollJob
           \/ FindInCatalog \/ DownloadAndVerify
  <2>1. ~cleared /\ UNCHANGED cleared
    BY <1>3 DEF StartSmoke, CheckSettings, Preflight, PostClip, PollJob,
         FindInCatalog, DownloadAndVerify, VerifyEpub, SmokeAt, PublishState, FailStep,
         StageOK, Smoked
  <2>2. QED  BY <2>1
<1>4. CASE SmokeEnds \/ RunnerLost \/ NotifyStep \/ exportOutputs
  BY <1>4 DEF SmokeEnds, RunnerLost, NotifyStep, exportOutputs, storeVars
<1>5. CASE ClipSettles
  <2>1. UNCHANGED <<cleared, settings, state, stage>>
    BY <1>5 DEF ClipSettles
  <2>2. CASE UNCHANGED <<storedIds, late>>
    BY <2>1, <2>2
  <2>3. CASE late' = (stage \notin {"smoke", "cleanup"})
    <3>1. cleared => late'
      BY <2>3 DEF StageOK, Smoked
    <3>2. QED  BY <2>1, <3>1
  <2>4. QED  BY <1>5, <2>2, <2>3 DEF ClipSettles
<1>6. CASE cleanupSmokeArticle
  <2>1. stage = "cleanup" /\ ~cleared /\ UNCHANGED <<settings, late>>
    BY <1>6 DEF cleanupSmokeArticle, StageOK, Smoked
  <2>2. CASE ~cleared'
    BY <2>2
  <2>3. CASE cleared' /\ smokeMayHavePosted(state)
    <3>1. storedIds' = storedIds \ cleanupIds(state) /\ UNCHANGED state
      BY <1>6, <2>1, <2>3 DEF cleanupSmokeArticle, CleanupFails
    <3>2. storedIds \subseteq {id}
      BY DEF PostedOK
    <3>3. storedIds' # {} => settings.redirects /\ ~state.articleId
      BY <3>1, <3>2 DEF cleanupIds
    <3>4. QED  BY <2>1, <3>1, <3>3
  <2>4. CASE cleared' /\ ~smokeMayHavePosted(state)
    <3>1. UNCHANGED storedIds
      BY <1>6, <2>4 DEF cleanupSmokeArticle
    <3>2. smokeClip = "none"
      BY <2>4, PostingIsSeen DEF PostedOK, StateOK
    <3>3. storedIds = {}
      BY <3>2 DEF PostedOK
    <3>4. QED  BY <3>1, <3>3
  <2>5. QED  BY <2>2, <2>3, <2>4 DEF StageOK
<1>7. CASE DecideRollback \/ runWranglerRollback \/ VerifyRollback \/ RollbackLost
  <2>1. UNCHANGED <<cleared, storedIds, late, settings, state>>
    <3>1. CASE DecideRollback
      BY <3>1 DEF DecideRollback, storeVars
    <3>2. CASE runWranglerRollback
      BY <3>2 DEF runWranglerRollback, storeVars
    <3>3. CASE VerifyRollback
      BY <3>3 DEF VerifyRollback, storeVars
    <3>4. CASE RollbackLost
      BY <3>4 DEF RollbackLost, storeVars
    <3>5. QED  BY <1>7, <3>1, <3>2, <3>3, <3>4
  <2>2. QED  BY <2>1
<1>8. QED
  BY <1>1, <1>2, <1>3, <1>4, <1>5, <1>6, <1>7 DEF DeployNext

\* The notify step tells what is to be told, and nothing is told less later.
LEMMA NotifiedKept ==
    ASSUME OutputsOK, NotifiedOK, [DeployNext]_deployVars
    PROVE  NotifiedOK'
<1> USE DEF NotifiedOK, Exported
<1>1. CASE UNCHANGED deployVars
  BY <1>1 DEF deployVars
<1>2. CASE ClipSettles \/ OtherDeployment
  BY <1>2 DEF ClipSettles, OtherDeployment, slackVars
<1>3. CASE RecordBefore \/ RecordAfter \/ Deploy
  BY <1>3 DEF RecordBefore, RecordAfter, Deploy
<1>4. CASE StartSmoke \/ CheckSettings \/ Preflight \/ PostClip \/ PollJob
           \/ FindInCatalog \/ DownloadAndVerify \/ SmokeEnds \/ cleanupSmokeArticle
  <2>1. stage' \in {"smoke", "cleanup", "notify"}
    BY <1>4 DEF StartSmoke, CheckSettings, Preflight, PostClip, PollJob,
         FindInCatalog, DownloadAndVerify, VerifyEpub, SmokeEnds, cleanupSmokeArticle,
         SmokeAt, PublishState, FailStep
  <2>2. QED  BY <2>1
<1>5. CASE NotifyStep
  <2>1. /\ stage' = "export" /\ UNCHANGED <<settings, state, smokeJob>>
        /\ smokeJob # "success" /\ notificationForState(state) => sendSlack("smoke")
    BY <1>5 DEF NotifyStep
  <2>2. QED  BY <2>1 DEF sendSlack
<1>6. CASE exportOutputs
  BY <1>6 DEF exportOutputs, slackVars
<1>7. CASE RunnerLost
  <2>1. UNCHANGED outputs /\ stage' = "rollback"
    BY <1>7 DEF RunnerLost
  <2>2. outputs = NoOutputs
    BY <1>7 DEF RunnerLost, OutputsOK
  <2>3. QED  BY <2>1, <2>2
<1>8. CASE DecideRollback \/ runWranglerRollback \/ VerifyRollback \/ RollbackLost
  <2>1. /\ stage \in Exported /\ stage' \in Exported
        /\ UNCHANGED <<settings, state, smokeJob, outputs>>
        /\ toldSlack \subseteq toldSlack' /\ unheard \subseteq unheard'
    BY <1>8 DEF DecideRollback, runWranglerRollback, VerifyRollback, RollbackLost,
                EndRollback, sendSlack, slackVars
  <2>2. QED  BY <2>1
<1>9. QED
  BY <1>1, <1>2, <1>3, <1>4, <1>5, <1>6, <1>7, <1>8 DEF DeployNext

\* What was exported gives nothing to tell only if it is a success or a skip.
LEMMA QuietWell ==
    ASSUME StateOK, outputs = smokeResultOutputs(state), ~notificationForState(state)
    PROVE  outputs.outcome \in {"passed", "skipped"} /\ outputs.cleanup = "-"
<1>1. outputs.outcome = state.outcome /\ outputs.cleanup = state.cleanup
  BY ExportedFields
<1>2. /\ state.outcome \in {"unknown", "running", "skipped", "failed", "passed"}
      /\ state.outcome = "unknown" => state = NoState
      /\ state.outcome = "skipped" => state.cleanup = "-"
  BY DEF StateOK, StateFits, States
<1>3. QED
  BY <1>1, <1>2 DEF notificationForState

\* The smoke job's message: told, lost with its reason, or not needed.
SmokeSilent ==
    \/ toldSlack # {} \/ smokeJob = "success" \/ ~settings.webhook
    \/ outputs.outcome \in {"passed", "skipped"} /\ outputs.cleanup = "-"
    \/ "smoke" \in unheard \/ outputs = NoOutputs

\* That is so from the export on.
LEMMA SmokeSilentWell ==
    ASSUME StateOK, OutputsOK, NotifiedOK, stage \in Exported
    PROVE  SmokeSilent
<1>1. CASE outputs = NoOutputs
  BY <1>1 DEF SmokeSilent
<1>2. CASE outputs = smokeResultOutputs(state) /\ ~notificationForState(state)
  BY <1>2, QuietWell DEF SmokeSilent
<1>3. CASE outputs # NoOutputs /\ notificationForState(state)
  BY <1>3 DEF SmokeSilent, NotifiedOK
<1>4. QED
  BY <1>1, <1>2, <1>3 DEF OutputsOK

\* At the end, Slack was told, or each message is missing for its own reason.
LEMMA ToldKept ==
    ASSUME StageOK, StateOK, OutputsOK, NotifiedOK, FailureIsTold,
           [DeployNext]_deployVars
    PROVE  FailureIsTold'
<1> USE DEF FailureIsTold
<1>1. CASE UNCHANGED deployVars
  BY <1>1 DEF deployVars
<1>2. CASE ClipSettles
  BY <1>2 DEF ClipSettles, slackVars
<1>3. CASE RecordBefore \/ RecordAfter \/ Deploy \/ OtherDeployment
  BY <1>3 DEF RecordBefore, RecordAfter, Deploy, OtherDeployment
<1>4. CASE SmokeJobSteps
  <2>1. stage' # "end"
    BY <1>4 DEF SmokeJobSteps, StartSmoke, CheckSettings, Preflight, PostClip,
         PollJob, FindInCatalog, DownloadAndVerify, VerifyEpub, SmokeEnds,
         cleanupSmokeArticle,
         NotifyStep, exportOutputs, RunnerLost, SmokeAt, PublishState, FailStep
  <2>2. QED  BY <2>1
<1>5. CASE DecideRollback \/ runWranglerRollback \/ VerifyRollback \/ RollbackLost
  <2>1. /\ stage \in Exported /\ UNCHANGED <<smokeJob, outputs, settings>>
        /\ toldSlack \subseteq toldSlack' /\ unheard \subseteq unheard'
    BY <1>5 DEF DecideRollback, runWranglerRollback, VerifyRollback, RollbackLost,
                EndRollback, sendSlack, slackVars, Exported
  <2>2. SmokeSilent
    BY <2>1, SmokeSilentWell
  <2>3. SmokeSilent'
    BY <2>1, <2>2 DEF SmokeSilent
  <2>4. stage' = "end" =>
            \/ "rollback" \in toldSlack' \union unheard' \/ ~settings.webhook
            \/ result' = "lost" \/ smokeJob = "success"
            \/ outputs.outcome \in {"passed", "skipped"} /\ outputs.cleanup = "-"
    <3>1. CASE DecideRollback /\ smokeJob # "success" /\ decision.kind = "ignore"
      <4>1. \/ outputs.outcome = "skipped"
            \/ outputs.outcome = "passed" /\ outputs.cleanup = "-"
        BY <3>1, IgnoredWell DEF decision, StageOK
      <4>2. outputs.outcome = "skipped" => outputs.cleanup = "-"
        <5>1. CASE outputs = NoOutputs
          BY <5>1, NothingExported
        <5>2. CASE outputs = smokeResultOutputs(state)
          BY <5>2, ExportedFields DEF StateOK, StateFits
        <5>3. QED  BY <5>1, <5>2 DEF OutputsOK
      <4>3. QED  BY <4>1, <4>2
    <3>2. CASE DecideRollback /\ smokeJob # "success" /\ decision.kind # "ignore"
      BY <3>2 DEF DecideRollback, EndRollback, sendSlack
    <3>3. CASE runWranglerRollback \/ VerifyRollback
      BY <3>3 DEF runWranglerRollback, VerifyRollback, EndRollback, sendSlack
    <3>4. CASE RollbackLost
      BY <3>4 DEF RollbackLost, EndRollback
    <3>5. QED  BY <1>5, <3>1, <3>2, <3>3, <3>4
  <2>5. QED  BY <2>1, <2>3, <2>4 DEF SmokeSilent
<1>6. QED
  BY <1>1, <1>2, <1>3, <1>4, <1>5 DEF DeployNext, SmokeJobSteps

-----------------------------------------------------------------------------
(* The theorems. *)

\* A workflow begins in the invariant, whatever is configured.
LEMMA DeployInvariantInit == DeployInit => DeployInvariant
<1> SUFFICES ASSUME DeployInit PROVE DeployInvariant
  OBVIOUS
<1>1. /\ stage = "before" /\ top = 1 /\ live = 1 /\ previous = 0 /\ worker = 0
      /\ settings \in Settings /\ state = NoState /\ smokeJob = "success"
      /\ outputs = NoOutputs /\ smokeClip = "none" /\ storedIds = {}
      /\ cleared = FALSE /\ late = FALSE /\ toldSlack = {} /\ unheard = {}
  BY DEF DeployInit, Unknown
<1>2. VersionsOK
  BY <1>1, DeployConstants DEF VersionsOK, Unknown
<1>3. StageOK
  BY <1>1 DEF StageOK, Unsmoked
<1>4. StateOK
  <2>1. NoState \in States
    BY FailureKindsFacts DEF NoState, State, States
  <2>2. QED
    BY <1>1, <2>1 DEF StateOK, StateFits, Unsmoked, NoState, State
<1>5. OutputsOK /\ PostedOK /\ CondemnedOK /\ NotifiedOK
  BY <1>1 DEF OutputsOK, PostedOK, CondemnedOK, NotifiedOK, Exported
<1>6. SmokeArticleIsCleared /\ FailureIsTold
  BY <1>1 DEF SmokeArticleIsCleared, FailureIsTold
<1>7. QED
  BY <1>2, <1>3, <1>4, <1>5, <1>6 DEF DeployInvariant

\* Every step of the workflow, of the Worker and of others keeps it.
LEMMA DeployInvariantKept ==
    DeployInvariant /\ [DeployNext]_deployVars => DeployInvariant'
  BY VersionsKept, StageKept, StateKept, OutputsKept, PostedKept, CondemnedKept,
     NotifiedKept, ClearedKept, ToldKept DEF DeployInvariant

\* DeployInvariant holds in every state of the workflow.
LEMMA DeployInvariantHolds == DeploySpec => []DeployInvariant
  BY DeployInvariantInit, DeployInvariantKept, PTL DEF DeploySpec

(***************************************************************************)
(* The variables of a deployment keep to their types, for every number of  *)
(* deployments: the last version is the workflow's (DeployTypeOK;          *)
(* runDeploySmoke, fail).                                                  *)
(***************************************************************************)
THEOREM DeploymentIsTyped == DeploySpec => []DeployTypeOK
<1>1. DeployInvariant => DeployTypeOK
  <2> SUFFICES ASSUME DeployInvariant PROVE DeployTypeOK
    OBVIOUS
  <2>1. /\ {live, top} \subseteq Versions \ {Unknown}
        /\ {previous, worker} \subseteq Versions
    BY DeployConstants DEF DeployInvariant, VersionsOK, Versions, Unknown
  <2>2. state.kind # "-" => state.kind \in FailureKinds[state.failedStep]
    BY DEF DeployInvariant, StateOK, StateFits
  <2>3. state.outcome \in {"unknown", "running", "skipped", "failed", "passed"}
    BY DEF DeployInvariant, StateOK, StateFits, States
  <2>4. /\ storedIds \subseteq {"canonical", "redirected"}
        /\ smokeClip \in {"none", "queued", "stored", "ready", "failed"}
    BY DEF DeployInvariant, PostedOK
  <2>5. {cleared, late} \subseteq BOOLEAN
    BY DEF DeployInvariant, StageOK
  <2>6. QED
    BY <2>1, <2>2, <2>3, <2>4, <2>5
       DEF DeployInvariant, StageOK, Unsmoked, Smoked, DeployTypeOK
<1>2. QED
  BY <1>1, DeployInvariantHolds, PTL

(***************************************************************************)
(* A rollback is never decided for a run that did not record a failure of  *)
(* the code, whatever was cut short (PassedStaysLive;                      *)
(* classifySmokeForRollback, smokeResultOutputs).                          *)
(***************************************************************************)
THEOREM PassedRunStaysLive == DeploySpec => []PassedStaysLive
<1>1. DeployInvariant => PassedStaysLive
  <2> SUFFICES ASSUME DeployInvariant, stage \in {"wrangler", "verify"}
               PROVE  /\ state.outcome = "failed"
                      /\ state.failedStep # "article-preflight"
                      /\ state.kind \notin {"network", "timeout", "fetch_failed"}
    BY DEF PassedStaysLive
  <2>1. /\ outputs.outcome = "failed"
        /\ isCodeLookingFailure(outputs.failedStep, outputs.kind)
        /\ outputs.failedStep # "article-preflight"
    BY CandidateFailed DEF DeployInvariant, CondemnedOK, StageOK, decision
  <2>2. outputs = smokeResultOutputs(state)
    BY <2>1, NothingExported DEF DeployInvariant, OutputsOK
  <2>3. outputs.kind \notin {"network", "timeout", "fetch_failed"}
    BY <2>1 DEF isCodeLookingFailure, EpubKinds
  <2>4. QED
    BY <2>1, <2>2, <2>3, ExportedFields
<1>2. QED
  BY <1>1, DeployInvariantHolds, PTL

(***************************************************************************)
(* A cleanup that reports success leaves no article of the smoke test, but *)
(* one that comes late or under an address the run never learnt            *)
(* (SmokeArticleIsCleared; smokeMayHavePosted, cleanupSmokeArticle).       *)
(***************************************************************************)
THEOREM CleanupClears == DeploySpec => []SmokeArticleIsCleared
<1>1. DeployInvariant => SmokeArticleIsCleared
  BY DEF DeployInvariant
<1>2. QED
  BY <1>1, DeployInvariantHolds, PTL

(***************************************************************************)
(* A smoke job that fails is told by one of the two messages, each of      *)
(* which may fail, unless both are missing, each for a reason of its own,  *)
(* or what it exported was a success or a skip (FailureIsTold;             *)
(* notificationForState, sendSlack, runDeployRollback).                    *)
(***************************************************************************)
THEOREM FailuresAreTold == DeploySpec => []FailureIsTold
<1>1. DeployInvariant => FailureIsTold
  BY DEF DeployInvariant
<1>2. QED
  BY <1>1, DeployInvariantHolds, PTL
=============================================================================
