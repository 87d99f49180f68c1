------------------------------- MODULE PrRisk -------------------------------
(***************************************************************************)
(* The workflow that looks at a pull request (src/pr-risk): it classifies  *)
(* the change, and asks a model for a review of one that looks dangerous.  *)
(* The call costs money, so the comment it leaves on the pull request says *)
(* that it was made for that head.  A new run for the same pull request    *)
(* cancels the one under way.                                              *)
(***************************************************************************)
EXTENDS Naturals, FiniteSets

CONSTANTS
    HeadCommits,   \* the commits that may be the head of the pull request
    Changes,   \* what a pull request may change, with Jev's answer
    MaxCost,   \* what one call may cost, in characters
    Overhead,  \* of which the prompt and the answer take this
    MaxReviews \* bound on the runs

ASSUME HeadsAssumption == "-" \notin HeadCommits
ASSUME ReviewsAssumption == MaxReviews \in Nat

VARIABLES
    review,   \* the run under way
    comment,  \* the comment of the review on the pull request
    calls,    \* head -> how often the model was called for it
    lost,     \* the heads whose record of a call was never written, or lost
    reviews   \* how many runs were started

riskVars == <<review, comment, calls, lost, reviews>>

(***************************************************************************)
(* classifyPrRisk.  A change has its files, each with its path and its     *)
(* previous one (a path is the class of rules that it falls under), what   *)
(* is known of the diff, and the answer of Jev.                            *)
(***************************************************************************)
HardRuleReasons == {"auth", "secrets", "ci_deploy", "judgment_rules",
                    "data_lifecycle"}

matchHardRules(files) ==
    (UNION {{f.path, f.previous} : f \in files}) \intersect HardRuleReasons

inputBlockers(change) ==
    (IF change.missingDiff \/ change.truncated THEN {"incomplete_input"} ELSE {})
    \union (IF matchHardRules(change.files) # {} THEN {"hard_rule"} ELSE {})

jevBlockers(jev) ==
    (CASE jev.choice \notin {"low", "high"} -> {"jev_failed"}
       [] jev.choice \in {"low", "high"} /\ ~jev.confident -> {"low_confidence"}
       [] jev.choice = "high" /\ jev.confident -> {"jev_high"}
       [] OTHER -> {})
    \union (IF jev.noulHigh THEN {"noul_high"} ELSE {})

classifyPrRisk(change, hasKey) ==
    inputBlockers(change) \union
    (IF ~hasKey THEN {"jev_skipped"}
     ELSE IF ~change.jev.ok THEN {"jev_failed"}
     ELSE jevBlockers(change.jev))

recommendedRoute(blockers) ==
    IF blockers = {} THEN "low_risk" ELSE "additional_review"

isHighRiskReviewTarget(blockers) == {"hard_rule", "jev_high"} \intersect blockers # {}

(***************************************************************************)
(* fitReviewPrompt: as much of the diff as the cap allows (the code finds  *)
(* it by bisection); no call when even the paths do not fit.               *)
(***************************************************************************)
fitReviewPrompt(change) ==
    LET Fits(n) == Overhead + change.pathChars + n <= MaxCost
    IN  [skip |-> ~Fits(0),
         sent |-> IF Fits(0)
                  THEN CHOOSE n \in 0..change.diffChars :
                            Fits(n) /\ \A m \in (n + 1)..change.diffChars : ~Fits(m)
                  ELSE 0]

(***************************************************************************)
(* The comment, and what a run finds in it                                 *)
(***************************************************************************)
NoComment == [head |-> "-", called |-> FALSE]
NoReview  == [step |-> "idle"]
NoJudgment == [head |-> "-", blockers |-> {}]

RiskInit ==
    /\ review = NoReview
    /\ comment = NoComment
    /\ calls = [h \in HeadCommits |-> 0]
    /\ lost = {}
    /\ reviews = 0

commentRecordsReviewCall(c, head) == c.called /\ c.head = head

\* Slip: a run that is switched off writes its comment like any other.
keepsNothing(status, head, prior) == FALSE

keepsEarlierReviewCall(status, head, prior) ==
    /\ status \in {"off", "out_of_scope"}
    /\ commentRecordsReviewCall(prior, head)

(***************************************************************************)
(* executeHighRiskReview                                                   *)
(***************************************************************************)
idleStatus(run) ==
    CASE ~run.enabled -> "off"
      [] run.enabled /\ ~run.hasKey -> "missing_key"
      [] run.enabled /\ run.hasKey /\ run.judgment = NoJudgment -> "missing_judgment"
      [] OTHER ->
            IF run.judgment.head # run.head THEN "stale_judgment"
            ELSE IF ~isHighRiskReviewTarget(run.judgment.blockers) THEN "out_of_scope"
            ELSE IF commentRecordsReviewCall(run.prior, run.head) THEN "already_called"
            ELSE IF fitReviewPrompt(run.change).skip THEN "skipped_cost"
            ELSE "call"

reviewOutcomes == {"reviewed", "api_error", "empty_output", "unparseable"}

(***************************************************************************)
(* The steps of one run: classify, then review                             *)
(***************************************************************************)
Cut(run) ==
    IF run.step = "called" THEN lost \union {run.head} ELSE lost

\* Whatever runs is cancelled.  The judgment may be missing, or another's.
BeginReview(head, change) ==
    /\ reviews < MaxReviews
    /\ reviews' = reviews + 1
    /\ lost' = Cut(review)
    /\ \E enabled, hasKey \in BOOLEAN :
          LET own == [head |-> head, blockers |-> classifyPrRisk(change, hasKey)]
          IN  \E judgment \in {own, NoJudgment} :
                review' = [step |-> "begun", head |-> head, change |-> change,
                           enabled |-> enabled, hasKey |-> hasKey,
                           judgment |-> judgment, prior |-> NoComment,
                           status |-> "-", called |-> FALSE]
    /\ UNCHANGED <<comment, calls>>

\* The comments cannot be read: as if there were none.
listReviewComments ==
    /\ review.step = "begun"
    /\ \/ /\ review' = [review EXCEPT !.step = "listed", !.prior = comment]
          /\ UNCHANGED lost
       \/ /\ review' = [review EXCEPT !.step = "listed"]
          /\ lost' = lost \union {review.head}
    /\ UNCHANGED <<comment, calls, reviews>>

executeHighRiskReview ==
    /\ review.step = "listed"
    /\ IF idleStatus(review) = "call"
       THEN /\ calls' = [calls EXCEPT ![review.head] = @ + 1]
            /\ \E status \in reviewOutcomes :
                  review' = [review EXCEPT !.step = "called", !.status = status,
                                           !.called = TRUE]
       ELSE /\ review' = [review EXCEPT !.step = "decided",
                                        !.status = idleStatus(review)]
            /\ UNCHANGED calls
    /\ UNCHANGED <<comment, lost, reviews>>

\* upsertMatchingComment, which may fail without failing the run.
writeComment ==
    /\ review.step \in {"called", "decided"}
    /\ \/ /\ review.status # "already_called"
          /\ ~keepsEarlierReviewCall(review.status, review.head, review.prior)
          /\ comment' = [head |-> review.head, called |-> review.called]
          /\ lost' = IF /\ comment.called
                        /\ \/ comment.head # review.head
                           \/ review.status \in {"missing_key", "missing_judgment",
                                                 "stale_judgment"}
                     THEN lost \union {comment.head} ELSE lost
       \/ /\ UNCHANGED comment
          /\ lost' = Cut(review)
    /\ review' = NoReview
    /\ UNCHANGED <<calls, reviews>>

RiskNext ==
    \/ \E head \in HeadCommits, change \in Changes : BeginReview(head, change)
    \/ listReviewComments
    \/ executeHighRiskReview
    \/ writeComment

RiskSpec == RiskInit /\ [][RiskNext]_riskVars
=============================================================================
