-------------------------- MODULE DigestRunProperties --------------------------
(***************************************************************************)
(* What the digest run of DigestRun promises.                              *)
(***************************************************************************)
EXTENDS DigestRun

\* Every variable has its type.
TypeOK ==
    /\ record  \in [Days -> RunRecord]
    /\ old     \in [Days -> BOOLEAN]
    /\ issue   \in [Days -> RunOrNone]
    /\ history \in [Days -> RunOrNone]
    /\ queue   \subseteq Message
    /\ worker  \in [Workers -> Invocation]
    /\ today   \in Days
    /\ minted  \subseteq Runs
    /\ faults  \in 0 .. MaxFaults
    /\ lost    \subseteq Days \X MessageSteps

\* An invocation whose etag is still current holds the record as it is.
FreshIsCurrent ==
    \A w \in Workers : worker[w].fresh => worker[w].seen = record[DayOf(w)]

(***************************************************************************)
(* A run that has come to publish has a summary to publish, and one that   *)
(* has been through its articles without coming to publish has none.  So   *)
(* the empty-issue branch of stepPublish and the promoting branch of       *)
(* stepSummarize in daily/deliver.ts are never taken, on any redelivery.   *)
(***************************************************************************)
DeadBranches ==
    \A d \in Days :
       /\ record[d].phase = "publish" => record[d].kept
       /\ Summarized(record[d]) => ~record[d].kept

Rank == [plan |-> 0, evaluate |-> 1, summarize |-> 2, publish |-> 3]

NotBehind(new, rec) ==
    \/ Rank[new.phase] > Rank[rec.phase]
    \/ new.phase = rec.phase /\ new.cursor >= rec.cursor

(***************************************************************************)
(* However the messages of a run are repeated and its invocations overlap, *)
(* the run never falls back to an earlier step, never loses the summaries  *)
(* it has, and never returns once another run has taken its day: what the  *)
(* conditional put of daily/run-store.ts is for.                           *)
(***************************************************************************)
OnlyForward ==
    [][\A d \in Days :
         IF record'[d].run = record[d].run
         THEN /\ NotBehind(record'[d], record[d])
              /\ record[d].kept => record'[d].kept
         ELSE record'[d].run \notin minted]_vars

(***************************************************************************)
(* A finished run stays as it is until the day is started again, except    *)
(* that the catch block of processDigestDelivery, which does not look at   *)
(* the status, may fail it on a last delivery.                             *)
(***************************************************************************)
FinishedStays ==
    [][\A d \in Days :
         /\ record[d].status \in Finished
         /\ record'[d].run = record[d].run
         => \/ record'[d] = record[d]
            \/ \E w \in Workers : worker[w].rescue /\ DayOf(w) = d]_vars

Quiet(d) ==
    /\ \A m \in queue : m.day # d
    /\ \A w \in Workers : Busy(w) => DayOf(w) # d

\* The day has been started once.
OneRun == \E r \in Runs : minted = {r}

(***************************************************************************)
(* When the messages of a run have all been dealt with, a day that failed  *)
(* or stayed empty has no issue in the catalogue, even if an invocation    *)
(* stored it after the watchdog had failed the run: alignOrRepair removes  *)
(* it on redelivery.  A message that lost its last delivery is excused.    *)
(***************************************************************************)
QuietCatalogue ==
    \A d \in Days :
       /\ OneRun /\ Quiet(d) /\ lost = {}
       /\ record[d].status \in {"empty", "failed"}
       => issue[d] = NoRun

(***************************************************************************)
(* Once a run says published, its issue is in the catalogue and its        *)
(* articles are in the history, whichever attempts were cut short between  *)
(* the calls of stepPublish.                                               *)
(***************************************************************************)
PublishedIsThere ==
    \A d \in Days :
       OneRun /\ record[d].status = "published" =>
          issue[d] = record[d].run /\ history[d] = record[d].run

(***************************************************************************)
(* A run does not stay running for ever: if its messages get lost the      *)
(* watchdog fails it.  Only a start or a watchdog message that itself      *)
(* loses its last delivery can leave it running.                           *)
(***************************************************************************)
RunDecides ==
    \A d \in Days, r \in Runs :
       (record[d].run = r /\ record[d].status = "running")
          ~> \/ record[d].run # r
             \/ record[d].status # "running"
             \/ \E step \in {"start", "watchdog"} : <<d, step>> \in lost

(***************************************************************************)
(* docs/daily-opds.md: the catalogue holds the latest daily issue.  A      *)
(* published issue stays while there is no run of a later day.             *)
(* removeDailyDigests does not compare days, so this does not hold.        *)
(***************************************************************************)
NewerIssueStays ==
    \A d \in Days :
       /\ record[d].status = "published"
       /\ \A e \in Days : e > d => record[e].status = "none"
       /\ \A w \in Workers : Busy(w) => DayOf(w) # d
       => issue[d] = record[d].run

\* What whoever reads a record sees of it: the length of the list that a phase
\* runs over is left out.
AsSeen(rec) ==
    [run |-> rec.run, status |-> rec.status, phase |-> rec.phase,
     cursor |-> rec.cursor, kept |-> rec.kept, exhausted |-> rec.exhausted]

daySeen == [d \in Days |-> AsSeen(record[d])]

Day == INSTANCE DayRecord WITH day <- daySeen, taken <- minted

(***************************************************************************)
(* However the messages of a run are repeated and its invocations overlap, *)
(* the record of a day goes through the steps of one run in their order,   *)
(* is published only with a summary and left empty only if nothing was     *)
(* skipped (dispatch, processDigestDelivery): every write of it is a step  *)
(* of DayRecord.                                                           *)
(***************************************************************************)
DayKept == Day!Spec
=============================================================================
