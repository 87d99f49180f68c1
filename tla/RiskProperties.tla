--------------------------- MODULE RiskProperties ---------------------------
(***************************************************************************)
(* When the paid review of a pull request is asked for.                    *)
(***************************************************************************)
EXTENDS PrRisk

\* The run, the comment and the heads are those of this pull request.
RiskTypeOK ==
    /\ review.step \in {"idle", "begun", "listed", "called", "decided"}
    /\ comment.head \in HeadCommits \union {"-"}
    /\ lost \subseteq HeadCommits
    /\ reviews \in 0..MaxReviews

(***************************************************************************)
(* The paid review is asked for once for a head, unless the record of the  *)
(* call in the comment was lost: cut off, not written, not read, or        *)
(* overwritten by a run with another head or without its judgment.  And a  *)
(* file that moved out of a guarded place still counts as one of it.       *)
(* (commentRecordsReviewCall, keepsEarlierReviewCall, matchHardRules)      *)
(***************************************************************************)
DangerIsReviewedOnce ==
    /\ \A head \in HeadCommits : calls[head] > 1 => head \in lost
    /\ review.step \in {"called", "decided"} /\ review.status = "out_of_scope" =>
          \A f \in review.change.files :
              {f.path, f.previous} \intersect HardRuleReasons = {}
=============================================================================
