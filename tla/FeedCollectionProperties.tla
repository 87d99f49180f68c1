----------------------- MODULE FeedCollectionProperties -----------------------
(***************************************************************************)
(* What the collection of a feed source promises.                          *)
(***************************************************************************)
EXTENDS FeedCollection

\* Every variable keeps to the shape the code gives it, FeedSource first.
TypeOK ==
    /\ source \in FeedSource
    /\ post \in [Runs -> Request]
    /\ form \in [Forms -> Submission]
    /\ msg \in [Runs -> MessagePlaces]
    /\ tries \in [Runs -> Nat]
    /\ worker \in [Workers -> Invocation]
    /\ faults \in 0 .. MaxFaults
    /\ outcome \in [Runs -> SUBSET Results]

(***************************************************************************)
(* The row is written whole, from copies of any age, by requests, forms    *)
(* and overtaken invocations.  Still a result is never attributed to a     *)
(* run that did not have it: a source is ready, or failed at its feed,     *)
(* only under the id of a run whose collection ended that way.             *)
(***************************************************************************)
ResultIsItsOwn ==
    /\ source.status = "ready" => "ready" \in outcome[source.run]
    /\ source.status = "failed" /\ source.code \in Results
          => source.code \in outcome[source.run]

(***************************************************************************)
(* A feed that could not be fetched is reported only after the last        *)
(* delivery (queue/feed.ts: shouldRetryFeedError; README: three retries),  *)
(* whatever ran at the same time.                                          *)
(***************************************************************************)
FetchFailureIsFinal ==
    source.status = "failed" /\ source.code = "fetch_failed"
        => tries[source.run] = MaxRetries + 1

(***************************************************************************)
(* Why these two hold: the same is true of every copy of the row that      *)
(* somebody may still write back, and of the results about to be written.  *)
(***************************************************************************)
Copies ==
    {source} \union {post[r].seen : r \in Runs} \union {form[f].seen : f \in Forms}
        \union {worker[w].seen : w \in Workers}

Honest(s) ==
    /\ s.status = "ready" => s.run \in Runs /\ "ready" \in outcome[s.run]
    /\ s.status = "failed" /\ s.code \in Results
          => s.run \in Runs /\ s.code \in outcome[s.run]
    /\ s.status = "failed" /\ s.code = "fetch_failed" => tries[s.run] = MaxRetries + 1

HonestCopies == \A s \in Copies : Honest(s)

\* An invocation writes a result that its run had, a failed fetch only on
\* the last delivery, ...
HonestResults ==
    \A w \in Workers :
       /\ Busy(w) => worker[w].run \in Runs
                      /\ worker[w].attempt \in 1 .. tries[worker[w].run]
       /\ worker[w].pc \in {"reread", "apply"} =>
             worker[w].result \in outcome[worker[w].run]
       /\ worker[w].pc = "apply" /\ worker[w].result = "fetch_failed" =>
             ~shouldRetryFeedAttempt(worker[w].attempt)

\* ... of which there is none left once it has begun.
Deliveries ==
    \A r \in Runs :
       /\ post[r].pc \in {"idle", "put", "send"} => msg[r] = "unsent"
       /\ msg[r] = "unsent" => tries[r] = 0
       /\ msg[r] = "waiting" => tries[r] <= MaxRetries
       /\ msg[r] = "leased" => tries[r] >= 1
       /\ tries[r] <= MaxRetries + 1

FeedInvariant == HonestCopies /\ HonestResults /\ Deliveries

\* The inductive invariant, with the types: what the properties above follow
\* from, whatever copies the requests, the forms and the invocations hold.
Safe == TypeOK /\ FeedInvariant

(***************************************************************************)
(* README: "失敗は情報源一覧に出る".  When the message of the source's run *)
(* is acknowledged and nobody works on it any more, the source does not    *)
(* say queued or running.  createFeedQueueHandler acknowledges a message   *)
(* whose processMessage threw, so this does not hold.                      *)
(***************************************************************************)
FailureShows ==
    \A r \in Runs :
        /\ source.run = r
        /\ msg[r] = "acked"
        /\ \A w \in Workers : worker[w].run # r
        => source.status \in {"ready", "failed"}
=============================================================================
