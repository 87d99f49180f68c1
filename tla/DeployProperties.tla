-------------------------- MODULE DeployProperties --------------------------
(***************************************************************************)
(* What the deployment workflow promises, with the smoke test that may be  *)
(* cut short anywhere and other people who deploy meanwhile.               *)
(***************************************************************************)
EXTENDS DeploySmoke, FiniteSets

Versions == 0..(MaxDeployments + 2)

DeployTypeOK ==
    /\ {live, top} \subseteq Versions \ {Unknown}
    /\ {previous, worker} \subseteq Versions
    /\ stage \in {"before", "deploy", "after", "smoke", "cleanup", "notify",
                  "export", "rollback", "wrangler", "verify", "end"}
    /\ settings \in Settings
    /\ state.outcome \in {"unknown", "running", "skipped", "failed", "passed"}
    /\ state.kind # "-" => state.kind \in FailureKinds[state.failedStep]
    /\ smokeJob \in {"success", "failure", "cancelled"}
    /\ smokeClip \in {"none", "queued", "stored", "ready", "failed"}
    /\ storedIds \subseteq {"canonical", "redirected"}
    /\ {cleared, late} \subseteq BOOLEAN
    /\ toldSlack \union unheard \subseteq {"smoke", "rollback"}

(***************************************************************************)
(* The refinement: the workflow implements Deployment, so that only the    *)
(* version it shipped is condemned, while it serves and with the version   *)
(* before it known, and wrangler runs at most once, only after that, and   *)
(* for the version noted before (guardRollbackCandidate,                   *)
(* wranglerRollbackInvocation).  What wrangler replaces is whatever serves *)
(* by then: a version uploaded after the verdict goes with it, although    *)
(* docs/deploy-smoke.md:88 says that a newer release is not put back.      *)
(***************************************************************************)
verdictOf ==
    CASE stage = "before"   -> "new"
      [] stage = "deploy"   -> "noted"
      [] stage = "after"    -> "shipped"
      [] stage = "wrangler" -> "condemned"
      [] stage \in {"verify", "end"} -> "settled"
      [] OTHER -> "named"

Promise == INSTANCE Deployment
    WITH NoVersion <- Unknown, current <- live, newest <- top,
         base <- previous, shipped <- worker, verdict <- verdictOf

KeepsPromise == Promise!Spec

(***************************************************************************)
(* A rollback is decided only for a smoke run that itself recorded a       *)
(* failure, and never for one that the article's site, the network or the  *)
(* wait explain: a runner that is lost, a run that passed or was skipped   *)
(* leaves the version alone (classifySmokeForRollback sees the exported    *)
(* outputs only, this looks at the state file).                            *)
(***************************************************************************)
PassedStaysLive ==
    stage \in {"wrangler", "verify"} =>
        /\ state.outcome = "failed"
        /\ state.failedStep # "article-preflight"
        /\ state.kind \notin {"network", "timeout", "fetch_failed"}

(***************************************************************************)
(* When the cleanup reports success the article of the smoke test is gone, *)
(* wherever the run was cut short (smokeMayHavePosted, cleanupIds), but    *)
(* for one that the queue stores only afterwards, and one that is stored   *)
(* under the id of a redirect the run never learnt.                        *)
(***************************************************************************)
SmokeArticleIsCleared ==
    cleared /\ storedIds # {}
    => late \/ (settings.redirects /\ ~state.articleId)

(***************************************************************************)
(* Where Slack is configured, a smoke job that did not succeed is told by  *)
(* its own step or by the rollback's, unless the run exported a success or *)
(* a skip: nobody tells it only if both messages fail, each for a reason   *)
(* of its own.  The smoke job's failed in its POST, or that job exported   *)
(* nothing, lost before its end; the rollback's failed in its POST, or its *)
(* job was lost.  One failed POST, or one lost job, hides no failure       *)
(* (notificationForState, classifySmokeForRollback, sendSlack).            *)
(***************************************************************************)
FailureIsTold ==
    stage = "end" /\ smokeJob # "success" /\ settings.webhook /\ toldSlack = {} =>
        \/ outputs.outcome \in {"passed", "skipped"} /\ outputs.cleanup = "-"
        \/ /\ "smoke" \in unheard \/ outputs = NoOutputs
           /\ "rollback" \in unheard \/ result = "lost"
=============================================================================
