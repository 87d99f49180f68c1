------------------------- MODULE FeedCollectionProofs -------------------------
(***************************************************************************)
(* Proofs that the collection of a feed source keeps its type invariant    *)
(* and never misattributes a result, for any number of runs, invocations,  *)
(* forms, retries and faults.                                              *)
(*                                                                         *)
(* Safe is inductive.  It is a statement about each copy of the row, each  *)
(* invocation and the queue; a copy that nobody touches stays good because *)
(* outcomes and deliveries only grow (lemma RowStays), so of a step only   *)
(* what it writes has to be looked at.                                     *)
(***************************************************************************)
EXTENDS FeedCollectionProperties, TLAPS

\* A copy of the row, given the outcomes and the deliveries.
RowOK(s, out, tr) ==
    /\ s \in FeedSource
    /\ s.status = "ready" => s.run \in Runs /\ "ready" \in out[s.run]
    /\ s.status = "failed" /\ s.code \in Results
          => s.run \in Runs /\ s.code \in out[s.run]
    /\ s.status = "failed" /\ s.code = "fetch_failed" => tr[s.run] = MaxRetries + 1

InvocationOK(l, out, tr) ==
    /\ l \in Invocation
    /\ RowOK(l.seen, out, tr)
    /\ l.pc # "idle" => l.run \in Runs /\ l.attempt \in 1 .. tr[l.run]
    /\ l.pc \in {"reread", "apply"} => l.result \in out[l.run]
    /\ l.pc = "apply" /\ l.result = "fetch_failed" => ~(l.attempt <= MaxRetries)

SourceOK   == RowOK(source, outcome, tries)
RequestsOK == /\ post \in [Runs -> Request]
              /\ \A r \in Runs : RowOK(post[r].seen, outcome, tries)
FormsOK    == /\ form \in [Forms -> Submission]
              /\ \A f \in Forms : RowOK(form[f].seen, outcome, tries)
WorkersOK  == /\ worker \in [Workers -> Invocation]
              /\ \A w \in Workers : InvocationOK(worker[w], outcome, tries)
QueueOK    == /\ msg \in [Runs -> MessagePlaces]
              /\ tries \in [Runs -> Nat]
              /\ Deliveries
HistoryOK  == faults \in 0 .. MaxFaults /\ outcome \in [Runs -> SUBSET Results]

LEMMA SplitSafe ==
    Safe <=> /\ SourceOK /\ RequestsOK /\ FormsOK
             /\ WorkersOK /\ QueueOK /\ HistoryOK
<1>1. HonestCopies <=>
         /\ Honest(source)
         /\ \A r \in Runs : Honest(post[r].seen)
         /\ \A f \in Forms : Honest(form[f].seen)
         /\ \A w \in Workers : Honest(worker[w].seen)
  BY DEF HonestCopies, Copies
<1>2. TypeOK => /\ \A r \in Runs : post[r].seen \in FeedSource
                /\ \A f \in Forms : form[f].seen \in FeedSource
                /\ \A w \in Workers : worker[w] \in Invocation
                                      /\ worker[w].seen \in FeedSource
  BY DEF TypeOK, Request, Submission, Invocation
<1>3. \A s \in FeedSource : Honest(s) <=> RowOK(s, outcome, tries)
  BY DEF Honest, RowOK
<1>4. TypeOK => (HonestCopies <=>
         /\ RowOK(source, outcome, tries)
         /\ \A r \in Runs : RowOK(post[r].seen, outcome, tries)
         /\ \A f \in Forms : RowOK(form[f].seen, outcome, tries)
         /\ \A w \in Workers : RowOK(worker[w].seen, outcome, tries))
  <2>1. TypeOK => source \in FeedSource
    BY DEF TypeOK
  <2>2. QED
    BY <2>1, <1>1, <1>2, <1>3
<1>5. HonestResults /\ TypeOK
         /\ (\A w \in Workers : RowOK(worker[w].seen, outcome, tries))
      => \A w \in Workers : InvocationOK(worker[w], outcome, tries)
  BY <1>2 DEF HonestResults, Busy, InvocationOK, shouldRetryFeedAttempt
<1>6. (\A w \in Workers : InvocationOK(worker[w], outcome, tries))
      => /\ HonestResults
         /\ \A w \in Workers : RowOK(worker[w].seen, outcome, tries)
  BY DEF HonestResults, Busy, InvocationOK, shouldRetryFeedAttempt
<1>7. SourceOK => source \in FeedSource
  BY DEF SourceOK, RowOK
<1>8. QED
  BY <1>4, <1>5, <1>6, <1>7
     DEF Safe, FeedInvariant, TypeOK, SourceOK, RequestsOK, FormsOK, WorkersOK,
         QueueOK, HistoryOK

LEMMA SplitSafeNext ==
    (/\ SourceOK /\ RequestsOK /\ FormsOK
     /\ WorkersOK /\ QueueOK /\ HistoryOK)' => Safe'
  BY SplitSafe, PTL

-----------------------------------------------------------------------------
(* Copies that nobody touches. *)

\* Outcomes and deliveries only grow, and deliveries not beyond the last.
Grown(out, tr, out2, tr2) ==
    \A r \in Runs : /\ out[r] \subseteq out2[r]
                    /\ tr[r] \in Nat /\ tr2[r] \in Nat
                    /\ tr[r] <= tr2[r] /\ tr2[r] <= MaxRetries + 1

LEMMA RowStays ==
    ASSUME NEW s, NEW out, NEW tr, NEW out2, NEW tr2,
           RowOK(s, out, tr), Grown(out, tr, out2, tr2)
    PROVE  RowOK(s, out2, tr2)
<1>1. ASSUME s.status = "failed", s.code = "fetch_failed"
      PROVE  tr2[s.run] = MaxRetries + 1
  <2>1. s.run \in Runs /\ tr[s.run] = MaxRetries + 1
    BY <1>1 DEF RowOK, Results
  <2>2. tr2[s.run] \in Nat /\ tr[s.run] <= tr2[s.run] /\ tr2[s.run] <= MaxRetries + 1
    BY <2>1 DEF Grown
  <2>3. QED
    BY <2>1, <2>2, RetriesAssumption
<1>2. QED
  BY <1>1 DEF RowOK, Grown

LEMMA InvocationStays ==
    ASSUME NEW l, NEW out, NEW tr, NEW out2, NEW tr2,
           InvocationOK(l, out, tr), Grown(out, tr, out2, tr2)
    PROVE  InvocationOK(l, out2, tr2)
<1>1. RowOK(l.seen, out2, tr2)
  BY RowStays DEF InvocationOK
<1>2. l.pc # "idle" => l.run \in Runs /\ l.attempt \in 1 .. tr2[l.run]
  <2>1. l.attempt \in Nat
    BY DEF InvocationOK, Invocation
  <2>2. QED
    BY <2>1 DEF InvocationOK, Grown
<1>3. l.pc \in {"reread", "apply"} => l.result \in out2[l.run]
  BY DEF InvocationOK, Grown
<1>4. QED
  BY <1>1, <1>2, <1>3 DEF InvocationOK

\* The same of every copy at once.
GrownNow == Grown(outcome, tries, outcome', tries')

LEMMA AllStays ==
    ASSUME Safe, GrownNow
    PROVE  /\ source' = source => SourceOK'
           /\ post' = post => RequestsOK'
           /\ form' = form => FormsOK'
           /\ worker' = worker => WorkersOK'
<1>1. SourceOK /\ RequestsOK /\ FormsOK /\ WorkersOK
  BY SplitSafe
<1>2. RowOK(source, outcome', tries')
  BY <1>1, RowStays DEF SourceOK, GrownNow
<1>3. \A r \in Runs : RowOK(post[r].seen, outcome', tries')
  BY <1>1, RowStays DEF RequestsOK, GrownNow
<1>4. \A f \in Forms : RowOK(form[f].seen, outcome', tries')
  BY <1>1, RowStays DEF FormsOK, GrownNow
<1>5. \A w \in Workers : InvocationOK(worker[w], outcome', tries')
  BY <1>1, InvocationStays DEF WorkersOK, GrownNow
<1>6. QED
  BY <1>1, <1>2, <1>3, <1>4, <1>5 DEF SourceOK, RequestsOK, FormsOK, WorkersOK

\* A step that leaves outcomes and deliveries alone.
LEMMA NothingGrows ==
    ASSUME Safe, UNCHANGED <<outcome, tries>>
    PROVE  GrownNow
  BY SplitSafe, RetriesAssumption DEF GrownNow, Grown, QueueOK, Deliveries

-----------------------------------------------------------------------------
(* What is written. *)

LEMMA QueuedOK ==
    ASSUME NEW s, NEW out, NEW tr, RowOK(s, out, tr), NEW r \in Runs
    PROVE  RowOK(QueuedFrom(s, r), out, tr)
<1>1. QueuedFrom(s, r) \in FeedSource /\ QueuedFrom(s, r).status = "queued"
  BY DEF RowOK, QueuedFrom, FeedSource, RunOrNone, Statuses, Codes
<1>2. QED
  BY <1>1 DEF RowOK

LEMMA RunningOK ==
    ASSUME NEW s, NEW out, NEW tr, RowOK(s, out, tr)
    PROVE  RowOK(RunningFrom(s), out, tr)
<1>1. RunningFrom(s) \in FeedSource /\ RunningFrom(s).status = "running"
  BY DEF RowOK, RunningFrom, FeedSource, Statuses
<1>2. QED
  BY <1>1 DEF RowOK

LEMMA FailedOK ==
    ASSUME NEW s, NEW out, NEW tr, RowOK(s, out, tr),
           NEW code \in {"queue_failed", "internal_error"}
    PROVE  RowOK(FailedFrom(s, code), out, tr)
<1>1. /\ FailedFrom(s, code) \in FeedSource
      /\ FailedFrom(s, code).status = "failed" /\ FailedFrom(s, code).code = code
  BY DEF RowOK, FailedFrom, FeedSource, Statuses, Codes
<1>2. QED
  BY <1>1 DEF RowOK, Results

LEMMA ResultOK ==
    ASSUME NEW s, NEW out, NEW tr, RowOK(s, out, tr),
           NEW r \in Runs, NEW result \in Results, result \in out[r],
           result = "fetch_failed" => tr[r] = MaxRetries + 1
    PROVE  RowOK(ResultFrom(s, r, result), out, tr)
<1>1. ResultFrom(s, r, result) \in FeedSource
  BY DEF RowOK, ResultFrom, FeedSource, RunOrNone, Statuses, Codes, Results
<1>2. /\ ResultFrom(s, r, result).run = r
      /\ result = "ready" => ResultFrom(s, r, result).status = "ready"
                             /\ ResultFrom(s, r, result).code = "none"
      /\ result # "ready" => ResultFrom(s, r, result).status = "failed"
                             /\ ResultFrom(s, r, result).code = result
  BY DEF RowOK, ResultFrom, FeedSource
<1>3. QED
  BY <1>1, <1>2 DEF RowOK, Results

\* The settings and the age of a row do not matter.
LEMMA SettingsOK ==
    ASSUME NEW s, NEW out, NEW tr, RowOK(s, out, tr),
           NEW on \in BOOLEAN, NEW old \in BOOLEAN
    PROVE  /\ RowOK([s EXCEPT !.enabled = on, !.stale = old], out, tr)
           /\ RowOK([s EXCEPT !.stale = old], out, tr)
           /\ RowOK(NewSource(on), out, tr) /\ RowOK(NoSource, out, tr)
<1>1. /\ NewSource(on) \in FeedSource /\ NewSource(on).status = "new"
      /\ NoSource \in FeedSource /\ NoSource.status = "absent"
  BY DEF NewSource, NoSource, FeedSource, RunOrNone, Statuses, Codes
<1>2. QED
  BY <1>1 DEF RowOK, FeedSource

LEMMA NoRequestOK ==
    ASSUME NEW step \in {"idle", "done"}, NEW out, NEW tr
    PROVE  /\ NoRequest(step) \in Request /\ NoRequest(step) \in Submission
           /\ RowOK(NoRequest(step).seen, out, tr)
<1>1. NoSource \in FeedSource /\ NoSource.status = "absent"
  BY DEF NoSource, FeedSource, RunOrNone, Statuses, Codes
<1>2. QED
  BY <1>1 DEF NoRequest, Request, Submission, RowOK

LEMMA IdleOK ==
    ASSUME NEW out, NEW tr
    PROVE  InvocationOK(Idle, out, tr)
<1>1. NoSource \in FeedSource /\ NoSource.status = "absent"
  BY DEF NoSource, FeedSource, RunOrNone, Statuses, Codes
<1>2. Idle \in Invocation
  BY <1>1 DEF Idle, Invocation, RunOrNone, Results
<1>3. Idle.seen = NoSource /\ Idle.pc = "idle"
  BY DEF Idle
<1>4. QED
  BY <1>1, <1>2, <1>3 DEF InvocationOK, RowOK

-----------------------------------------------------------------------------
(* The process that moves. *)

LEMMA RequestMoves ==
    ASSUME Safe, GrownNow, NEW r \in Runs, NEW q \in Request,
           RowOK(q.seen, outcome', tries'), post' = [post EXCEPT ![r] = q]
    PROVE  RequestsOK'
<1>1. RequestsOK
  BY SplitSafe
<1>2. \A p \in Runs : RowOK(post[p].seen, outcome', tries')
  BY <1>1, RowStays DEF RequestsOK, GrownNow
<1>3. QED
  BY <1>1, <1>2 DEF RequestsOK

LEMMA FormMoves ==
    ASSUME Safe, GrownNow, NEW f \in Forms, NEW q \in Submission,
           RowOK(q.seen, outcome', tries'), form' = [form EXCEPT ![f] = q]
    PROVE  FormsOK'
<1>1. FormsOK
  BY SplitSafe
<1>2. \A g \in Forms : RowOK(form[g].seen, outcome', tries')
  BY <1>1, RowStays DEF FormsOK, GrownNow
<1>3. QED
  BY <1>1, <1>2 DEF FormsOK

LEMMA WorkerMoves ==
    ASSUME Safe, GrownNow, NEW w \in Workers, NEW l,
           InvocationOK(l, outcome', tries'), Become(w, l)
    PROVE  WorkersOK'
<1>1. WorkersOK
  BY SplitSafe
<1>2. \A v \in Workers : InvocationOK(worker[v], outcome', tries')
  BY <1>1, InvocationStays DEF WorkersOK, GrownNow
<1>3. l \in Invocation
  BY DEF InvocationOK
<1>4. QED
  BY <1>1, <1>2, <1>3 DEF WorkersOK, Become

\* A busy invocation goes on to a step that asks for no result.
QuietSteps == {"begin", "collect", "fail", "recheck"}

LEMMA GotoMoves ==
    ASSUME Safe, NEW w \in Workers, Busy(w), UNCHANGED <<outcome, tries>>,
           NEW step \in QuietSteps, NEW s, RowOK(s, outcome, tries),
           Become(w, [worker[w] EXCEPT !.pc = step, !.seen = s])
    PROVE  WorkersOK'
<1>1. InvocationOK(worker[w], outcome, tries)
  BY SplitSafe DEF WorkersOK
<1>2. PICK l : l = [worker[w] EXCEPT !.pc = step, !.seen = s]
  OBVIOUS
<1>3. s \in FeedSource
  BY DEF RowOK
<1>4. /\ l \in Invocation /\ l.pc = step /\ l.seen = s
      /\ l.run = worker[w].run /\ l.attempt = worker[w].attempt
  BY <1>1, <1>2, <1>3
     DEF InvocationOK, Invocation, QuietSteps, TrySteps, UncaughtSteps
<1>5. InvocationOK(l, outcome, tries)
  BY <1>1, <1>4 DEF InvocationOK, Busy, QuietSteps
<1>6. QED
  BY <1>2, <1>5, NothingGrows, WorkerMoves

LEMMA PlainGotoMoves ==
    ASSUME Safe, NEW w \in Workers, Busy(w), UNCHANGED <<outcome, tries>>,
           NEW step \in QuietSteps, Goto(w, step)
    PROVE  WorkersOK'
<1>1. InvocationOK(worker[w], outcome, tries)
  BY SplitSafe DEF WorkersOK
<1>2. PICK l : l = [worker[w] EXCEPT !.pc = step]
  OBVIOUS
<1>3. /\ l \in Invocation /\ l.pc = step /\ l.seen = worker[w].seen
      /\ l.run = worker[w].run /\ l.attempt = worker[w].attempt
  BY <1>1, <1>2
     DEF InvocationOK, Invocation, QuietSteps, TrySteps, UncaughtSteps
<1>4. InvocationOK(l, outcome, tries)
  BY <1>1, <1>3 DEF InvocationOK, Busy, QuietSteps
<1>5. QED
  BY <1>2, <1>4, NothingGrows, WorkerMoves DEF Goto

LEMMA LeaveMoves ==
    ASSUME Safe, NEW w \in Workers, Busy(w), UNCHANGED <<outcome, tries>>,
           NEW step \in {"ack", "retry"}, Leave(w, step)
    PROVE  WorkersOK'
<1>1. InvocationOK(worker[w], outcome, tries)
  BY SplitSafe DEF WorkersOK
<1>2. PICK l : l = [worker[w] EXCEPT !.pc = step, !.seen = NoSource, !.result = "ready"]
  OBVIOUS
<1>3. RowOK(NoSource, outcome, tries) /\ NoSource \in FeedSource
  BY NoRequestOK DEF NoRequest, RowOK
<1>4. /\ l \in Invocation /\ l.pc = step /\ l.seen = NoSource
      /\ l.run = worker[w].run /\ l.attempt = worker[w].attempt
  BY <1>1, <1>2, <1>3 DEF InvocationOK, Invocation, Results
<1>5. InvocationOK(l, outcome, tries)
  BY <1>1, <1>3, <1>4 DEF InvocationOK, Busy
<1>6. QED
  BY <1>2, <1>5, NothingGrows, WorkerMoves DEF Leave

-----------------------------------------------------------------------------
(* The queue. *)

\* The deliveries only look at these.
LEMMA QueueStays ==
    ASSUME Safe, UNCHANGED <<msg, tries>>,
           \A r \in Runs : post'[r].pc \in {"idle", "put", "send"}
                              => post[r].pc \in {"idle", "put", "send"}
    PROVE  QueueOK'
<1>1. QueueOK
  BY SplitSafe
<1>2. QED
  BY <1>1 DEF QueueOK, Deliveries

\* A message changes places, but not back to where it was never sent.
LEMMA MessageMoves ==
    ASSUME Safe, tries' = tries, NEW r \in Runs,
           NEW place \in MessagePlaces, msg' = [msg EXCEPT ![r] = place],
           place \notin {"unsent", "leased"}, place = "waiting" => tries[r] <= MaxRetries,
           post'[r].pc \notin {"idle", "put", "send"},
           \A q \in Runs : post'[q].pc \in {"idle", "put", "send"}
                              => post[q].pc \in {"idle", "put", "send"}
    PROVE  QueueOK'
<1>1. QueueOK
  BY SplitSafe
<1>2. QED
  BY <1>1 DEF QueueOK, Deliveries

\* No fault is one too many, and most steps add no result.
Faulty == faults' = faults \/ \E kind \in FaultKinds : Fault(kind)

LEMMA HistoryStays ==
    ASSUME Safe, outcome' = outcome, Faulty
    PROVE  HistoryOK'
<1>1. HistoryOK
  BY SplitSafe
<1>2. QED
  BY <1>1, MaxFaultsAssumption DEF HistoryOK, Faulty, Fault

LEMMA FaultIsFaulty ==
    ASSUME NEW kind \in FaultKinds, Fault(kind)
    PROVE  Faulty
  BY DEF Faulty

-----------------------------------------------------------------------------
(* The steps of a request. *)

LEMMA LookupSafe ==
    ASSUME Safe, NEW r \in Runs, Lookup(r)
    PROVE  Safe'
<1>1. SourceOK /\ RequestsOK
  BY SplitSafe
<1>2. UNCHANGED <<source, form, worker, outcome, tries, msg, faults>>
  BY DEF Lookup, requestOnly
<1>3. GrownNow
  BY <1>2, NothingGrows
<1>4. PICK q : /\ post' = [post EXCEPT ![r] = q]
               /\ q = [pc |-> "put", seen |-> source] \/ q = NoRequest("done")
  BY DEF Lookup, Answer
<1>5. q \in Request /\ RowOK(q.seen, outcome', tries')
  <2>1. CASE q = NoRequest("done")
    BY <2>1, NoRequestOK
  <2>2. CASE q = [pc |-> "put", seen |-> source]
    BY <2>2, <1>1, <1>2 DEF SourceOK, RowOK, Request
  <2>3. QED
    BY <2>1, <2>2, <1>4
<1>6. RequestsOK'
  BY <1>3, <1>4, <1>5, RequestMoves
<1>7. QueueOK'
  BY <1>1, <1>2, <1>4, QueueStays DEF Lookup, RequestsOK
<1>8. HistoryOK'
  BY <1>2, HistoryStays DEF Faulty
<1>9. QED
  BY <1>2, <1>3, <1>6, <1>7, <1>8, AllStays, SplitSafeNext

LEMMA PutQueuedSafe ==
    ASSUME Safe, NEW r \in Runs, PutQueued(r)
    PROVE  Safe'
<1>1. RequestsOK /\ RowOK(post[r].seen, outcome, tries)
  BY SplitSafe DEF RequestsOK
<1>2. UNCHANGED <<form, worker, outcome, tries, msg, faults>>
  BY DEF PutQueued, requestOnly
<1>3. GrownNow
  BY <1>2, NothingGrows
<1>4. PICK s : s = QueuedFrom(post[r].seen, r)
  OBVIOUS
<1>5. RowOK(s, outcome', tries')
  BY <1>1, <1>2, <1>4, QueuedOK
<1>6. SourceOK'
  BY <1>4, <1>5 DEF PutQueued, SourceOK
<1>7. PICK q : q = [pc |-> "send", seen |-> s]
  OBVIOUS
<1>8. q \in Request /\ q.seen = s /\ q.pc = "send"
  BY <1>5, <1>7 DEF Request, RowOK
<1>9. post' = [post EXCEPT ![r] = q]
  BY <1>1, <1>4, <1>7 DEF PutQueued, RequestsOK
<1>10. RequestsOK'
  BY <1>3, <1>5, <1>8, <1>9, RequestMoves
<1>11. QueueOK'
  BY <1>1, <1>2, <1>8, <1>9, QueueStays DEF PutQueued, RequestsOK
<1>12. HistoryOK'
  BY <1>2, HistoryStays DEF Faulty
<1>13. QED
  BY <1>2, <1>3, <1>6, <1>10, <1>11, <1>12, AllStays, SplitSafeNext

\* What a request leaves behind when it is answered.
LEMMA AnswerMoves ==
    ASSUME Safe, NEW r \in Runs, Answer(r), UNCHANGED <<outcome, tries>>
    PROVE  /\ RequestsOK'
           /\ post'[r].pc = "done"
           /\ \A q \in Runs : q # r => post'[q] = post[q]
<1>1. RequestsOK
  BY SplitSafe
<1>2. PICK q : q = NoRequest("done")
  OBVIOUS
<1>3. q \in Request /\ RowOK(q.seen, outcome', tries') /\ q.pc = "done"
  BY <1>2, NoRequestOK DEF NoRequest
<1>4. post' = [post EXCEPT ![r] = q]
  BY <1>2 DEF Answer
<1>5. QED
  BY <1>1, <1>3, <1>4, NothingGrows, RequestMoves DEF RequestsOK

LEMMA SendSafe ==
    ASSUME Safe, NEW r \in Runs, Send(r)
    PROVE  Safe'
<1>1. UNCHANGED <<source, form, worker, outcome, tries, faults>>
  BY DEF Send, requestOnly
<1>2. /\ RequestsOK'
      /\ post'[r].pc = "done"
      /\ \A q \in Runs : q # r => post'[q] = post[q]
  BY <1>1, AnswerMoves DEF Send
<1>3. tries[r] <= MaxRetries
  BY SplitSafe, RetriesAssumption DEF Send, QueueOK, Deliveries
<1>4. QueueOK'
  BY <1>1, <1>2, <1>3, MessageMoves DEF Send, MessagePlaces
<1>5. HistoryOK'
  BY <1>1, HistoryStays DEF Faulty
<1>6. QED
  BY <1>1, <1>2, <1>4, <1>5, NothingGrows, AllStays, SplitSafeNext

LEMMA SendFailsSafe ==
    ASSUME Safe, NEW r \in Runs, SendFails(r)
    PROVE  Safe'
<1>1. UNCHANGED <<source, form, worker, outcome, tries>> /\ Faulty
  BY DEF SendFails, requestOnly, Faulty, FaultKinds
<1>2. RequestsOK /\ RowOK(post[r].seen, outcome, tries)
  BY SplitSafe DEF RequestsOK
<1>3. PICK q : q = [post[r] EXCEPT !.pc = "fail"]
  OBVIOUS
<1>4. q \in Request /\ q.seen = post[r].seen /\ q.pc = "fail"
  BY <1>2, <1>3 DEF RequestsOK, Request
<1>5. post' = [post EXCEPT ![r] = q]
  BY <1>2, <1>3 DEF SendFails, AskTo, RequestsOK
<1>6. RequestsOK'
  BY <1>1, <1>2, <1>4, <1>5, NothingGrows, RequestMoves
<1>7. QueueOK'
  <2>1. CASE msg' = msg
    BY <2>1, <1>1, <1>2, <1>4, <1>5, QueueStays DEF RequestsOK
  <2>2. CASE msg' = [msg EXCEPT ![r] = "waiting"]
    <3>1. tries[r] <= MaxRetries
      BY SplitSafe, RetriesAssumption DEF SendFails, QueueOK, Deliveries
    <3>2. QED
      BY <2>2, <3>1, <1>1, <1>2, <1>4, <1>5, MessageMoves
         DEF MessagePlaces, RequestsOK
  <2>3. QED
    BY <2>1, <2>2 DEF SendFails
<1>8. QED
  BY <1>1, <1>6, <1>7, NothingGrows, AllStays, HistoryStays, SplitSafeNext

LEMMA PutQueueFailedSafe ==
    ASSUME Safe, NEW r \in Runs, PutQueueFailed(r)
    PROVE  Safe'
<1>1. UNCHANGED <<form, worker, outcome, tries, msg, faults>>
  BY DEF PutQueueFailed, requestOnly
<1>2. RowOK(post[r].seen, outcome, tries)
  BY SplitSafe DEF RequestsOK
<1>3. SourceOK'
  BY <1>1, <1>2, FailedOK DEF PutQueueFailed, SourceOK
<1>4. /\ RequestsOK'
      /\ post'[r].pc = "done"
      /\ \A q \in Runs : q # r => post'[q] = post[q]
  BY <1>1, AnswerMoves DEF PutQueueFailed
<1>5. QueueOK'
  BY <1>1, <1>4, QueueStays
<1>6. QED
  BY <1>1, <1>3, <1>4, <1>5, NothingGrows, AllStays, HistoryStays, SplitSafeNext
     DEF Faulty

LEMMA RequestDiesSafe ==
    ASSUME Safe, NEW r \in Runs, RequestDies(r)
    PROVE  Safe'
<1>1. UNCHANGED <<source, form, worker, outcome, tries, msg>> /\ Faulty
  BY DEF RequestDies, requestOnly, Faulty, FaultKinds
<1>2. /\ RequestsOK'
      /\ post'[r].pc = "done"
      /\ \A q \in Runs : q # r => post'[q] = post[q]
  BY <1>1, AnswerMoves DEF RequestDies
<1>3. QueueOK'
  BY <1>1, <1>2, QueueStays
<1>4. QED
  BY <1>1, <1>2, <1>3, NothingGrows, AllStays, HistoryStays, SplitSafeNext

-----------------------------------------------------------------------------
(* The steps of a form. *)

\* The queue only depends on the requests.
LEMMA QueueStaysQuietly ==
    ASSUME Safe, UNCHANGED <<post, msg, tries>>
    PROVE  QueueOK'
  BY QueueStays

LEMMA OpenFormSafe ==
    ASSUME Safe, NEW f \in Forms, NEW kind \in {"create", "edit"}, OpenForm(f, kind)
    PROVE  Safe'
<1>1. UNCHANGED <<source, post, worker, outcome, tries, msg, faults>>
  BY DEF OpenForm, formOnly, queueVars
<1>2. RowOK(source, outcome, tries)
  BY SplitSafe DEF SourceOK
<1>3. PICK q : /\ form' = [form EXCEPT ![f] = q]
               /\ q = [pc |-> kind, seen |-> source] \/ q = NoRequest("done")
  BY DEF OpenForm, CloseForm
<1>4. q \in Submission /\ RowOK(q.seen, outcome', tries')
  <2>1. CASE q = NoRequest("done")
    BY <2>1, NoRequestOK
  <2>2. CASE q = [pc |-> kind, seen |-> source]
    BY <2>2, <1>1, <1>2 DEF RowOK, Submission
  <2>3. QED
    BY <2>1, <2>2, <1>3
<1>5. FormsOK'
  BY <1>1, <1>3, <1>4, NothingGrows, FormMoves
<1>6. QED
  BY <1>1, <1>5, NothingGrows, AllStays, QueueStaysQuietly, HistoryStays,
     SplitSafeNext DEF Faulty

LEMMA SaveFormSafe ==
    ASSUME Safe, NEW f \in Forms, SaveForm(f)
    PROVE  Safe'
<1>1. UNCHANGED <<post, worker, outcome, tries, msg, faults>>
  BY DEF SaveForm, formOnly, queueVars
<1>2. RowOK(form[f].seen, outcome, tries)
  BY SplitSafe DEF FormsOK
<1>3. SourceOK'
  <2>1. PICK on \in BOOLEAN :
           source' = IF form[f].pc = "create" THEN NewSource(on)
                     ELSE [form[f].seen EXCEPT !.enabled = on, !.stale = FALSE]
    BY DEF SaveForm
  <2>2. PICK s : s = [form[f].seen EXCEPT !.enabled = on, !.stale = FALSE]
    OBVIOUS
  <2>3. RowOK(s, outcome, tries) /\ RowOK(NewSource(on), outcome, tries)
    BY <1>2, <2>2, SettingsOK
  <2>4. source' = NewSource(on) \/ source' = s
    BY <2>1, <2>2
  <2>5. QED
    BY <1>1, <2>3, <2>4 DEF SourceOK
<1>4. PICK q : q = NoRequest("done")
  OBVIOUS
<1>5. FormsOK'
  BY <1>1, <1>4, NoRequestOK, NothingGrows, FormMoves DEF SaveForm, CloseForm
<1>6. QED
  BY <1>1, <1>3, <1>5, NothingGrows, AllStays, QueueStaysQuietly, HistoryStays,
     SplitSafeNext DEF Faulty

-----------------------------------------------------------------------------
(* The steps of the queue. *)

\* A fresh invocation asks for nothing but a delivery that was made.
LEMMA BeginMoves ==
    ASSUME Safe, GrownNow, NEW w \in Workers, NEW r \in Runs,
           NEW attempt \in 1 .. tries'[r], tries'[r] \in Nat, Begin(w, r, attempt)
    PROVE  WorkersOK'
<1>1. PICK l : l = [Idle EXCEPT !.pc = "read", !.run = r, !.attempt = attempt]
  OBVIOUS
<1>2. Idle \in Invocation /\ RowOK(Idle.seen, outcome', tries')
  BY IdleOK DEF InvocationOK
<1>3. /\ l \in Invocation /\ l.pc = "read" /\ l.seen = Idle.seen
      /\ l.run = r /\ l.attempt = attempt
  <2>1. attempt \in Nat
    OBVIOUS
  <2>2. QED
    BY <1>1, <1>2, <2>1 DEF Invocation, RunOrNone, UncaughtSteps
<1>4. InvocationOK(l, outcome', tries')
  BY <1>2, <1>3 DEF InvocationOK
<1>5. QED
  BY <1>1, <1>4, WorkerMoves DEF Begin

LEMMA DeliverSafe ==
    ASSUME Safe, NEW w \in Workers, NEW r \in Runs, Deliver(w, r)
    PROVE  Safe'
<1>1. UNCHANGED <<source, post, form, outcome, faults>>
  BY DEF Deliver, histVars
<1>2. QueueOK /\ WorkersOK
  BY SplitSafe
<1>3. tries[r] \in Nat /\ tries[r] <= MaxRetries /\ tries'[r] = tries[r] + 1
  BY <1>2 DEF Deliver, QueueOK, Deliveries
<1>4. \A q \in Runs : q # r => tries'[q] = tries[q] /\ msg'[q] = msg[q]
  BY <1>2 DEF Deliver, QueueOK
<1>5. GrownNow
  BY <1>1, <1>2, <1>3, <1>4, RetriesAssumption
     DEF GrownNow, Grown, QueueOK, Deliveries
<1>6. WorkersOK'
  <2>1. tries[r] + 1 \in 1 .. tries'[r] /\ tries'[r] \in Nat
    BY <1>3
  <2>2. QED
    BY <2>1, <1>5, BeginMoves DEF Deliver
<1>7. QueueOK'
  <2>1. msg' \in [Runs -> MessagePlaces] /\ tries' \in [Runs -> Nat]
    BY <1>2 DEF Deliver, QueueOK, MessagePlaces
  <2>2. msg'[r] = "leased" /\ msg[r] = "waiting"
    BY <1>2 DEF Deliver, QueueOK
  <2>3. Deliveries'
    BY <1>1, <1>2, <1>3, <1>4, <2>2, RetriesAssumption DEF QueueOK, Deliveries
  <2>4. QED
    BY <2>1, <2>3 DEF QueueOK
<1>8. QED
  BY <1>1, <1>5, <1>6, <1>7, AllStays, HistoryStays, SplitSafeNext DEF Faulty

LEMMA DeliverTwiceSafe ==
    ASSUME Safe, NEW w \in Workers, NEW r \in Runs, DeliverTwice(w, r)
    PROVE  Safe'
<1>1. UNCHANGED <<source, post, form, outcome, msg, tries>> /\ Faulty
  BY DEF DeliverTwice, queueVars, Faulty, FaultKinds
<1>2. tries'[r] \in Nat /\ tries[r] \in 1 .. tries'[r]
  BY <1>1, SplitSafe DEF DeliverTwice, QueueOK, Deliveries
<1>3. WorkersOK'
  BY <1>1, <1>2, NothingGrows, BeginMoves DEF DeliverTwice
<1>4. QED
  BY <1>1, <1>3, NothingGrows, AllStays, QueueStaysQuietly, HistoryStays,
     SplitSafeNext

\* The message of a busy invocation has been sent.
LEMMA MessageWasSent ==
    ASSUME Safe, NEW w \in Workers, Busy(w)
    PROVE  /\ worker[w].run \in Runs
           /\ msg[worker[w].run] # "unsent"
           /\ post[worker[w].run].pc \notin {"idle", "put", "send"}
<1>1. InvocationOK(worker[w], outcome, tries) /\ QueueOK
  BY SplitSafe DEF WorkersOK
<1>2. worker[w].run \in Runs /\ worker[w].attempt \in 1 .. tries[worker[w].run]
  BY <1>1 DEF InvocationOK, Busy
<1>3. tries[worker[w].run] # 0
  BY <1>1, <1>2 DEF QueueOK
<1>4. QED
  BY <1>1, <1>2, <1>3 DEF QueueOK, Deliveries

LEMMA BecomesIdle ==
    ASSUME Safe, NEW w \in Workers, UNCHANGED <<outcome, tries>>, Become(w, Idle)
    PROVE  WorkersOK'
  BY NothingGrows, IdleOK, WorkerMoves

LEMMA AckSafe ==
    ASSUME Safe, NEW w \in Workers, Ack(w)
    PROVE  Safe'
<1>1. UNCHANGED <<source, post, form, outcome, tries, faults>> /\ Busy(w)
  BY DEF Ack, histVars, Busy
<1>2. QueueOK'
  BY <1>1, MessageWasSent, MessageMoves DEF Ack, MessagePlaces
<1>3. QED
  BY <1>1, <1>2, NothingGrows, AllStays, BecomesIdle, HistoryStays, SplitSafeNext
     DEF Ack, Faulty

LEMMA HandBackSafe ==
    ASSUME Safe, NEW w \in Workers, Busy(w), HandBack(w), Faulty
    PROVE  Safe'
<1>1. UNCHANGED <<source, post, form, outcome, tries>>
  BY DEF HandBack
<1>2. QueueOK'
  <2>1. CASE msg' = msg
    BY <1>1, <2>1, QueueStaysQuietly
  <2>2. ASSUME NEW place \in {"waiting", "dropped"},
               place = "waiting" => tries[worker[w].run] <= MaxRetries,
               msg' = [msg EXCEPT ![worker[w].run] = place]
        PROVE  QueueOK'
    BY <1>1, <2>2, MessageWasSent, MessageMoves DEF MessagePlaces
  <2>3. QED
    BY <2>1, <2>2 DEF HandBack
<1>3. QED
  BY <1>1, <1>2, NothingGrows, AllStays, BecomesIdle, HistoryStays, SplitSafeNext
     DEF HandBack

-----------------------------------------------------------------------------
(* The steps of processMessage. *)

\* Most leave the queue and the requests alone, and add no result.
LEMMA ConsumerSafe ==
    ASSUME Safe, UNCHANGED consumerOnly, outcome' = outcome, Faulty,
           SourceOK', WorkersOK'
    PROVE  Safe'
  BY NothingGrows, AllStays, QueueStaysQuietly, HistoryStays, SplitSafeNext
     DEF consumerOnly, queueVars

\* What an invocation holds.
LEMMA HeldOK ==
    ASSUME Safe, NEW w \in Workers
    PROVE  /\ InvocationOK(worker[w], outcome, tries)
           /\ RowOK(worker[w].seen, outcome, tries)
           /\ RowOK(source, outcome, tries)
  BY SplitSafe DEF WorkersOK, InvocationOK, SourceOK

LEMMA ReadSourceSafe ==
    ASSUME Safe, NEW w \in Workers, ReadSource(w)
    PROVE  Safe'
<1>1. UNCHANGED <<source, consumerOnly, tries, outcome, faults>> /\ Busy(w)
  BY DEF ReadSource, histVars, consumerOnly, queueVars, Busy
<1>2. WorkersOK'
  <2>1. CASE Leave(w, "ack")
    BY <1>1, <2>1, LeaveMoves
  <2>2. CASE Become(w, [worker[w] EXCEPT !.pc = "begin", !.seen = source])
    BY <1>1, <2>2, HeldOK, GotoMoves DEF QuietSteps
  <2>3. QED
    BY <2>1, <2>2 DEF ReadSource
<1>3. QED
  BY <1>1, <1>2, NothingGrows, AllStays, ConsumerSafe DEF Faulty

LEMMA PutRunningSafe ==
    ASSUME Safe, NEW w \in Workers, PutRunning(w)
    PROVE  Safe'
<1>1. UNCHANGED <<consumerOnly, tries, outcome, faults>> /\ Busy(w)
  BY DEF PutRunning, histVars, consumerOnly, queueVars, Busy
<1>2. WorkersOK'
  BY <1>1, PlainGotoMoves DEF PutRunning, QuietSteps
<1>3. SourceOK'
  BY <1>1, HeldOK, RunningOK DEF PutRunning, SourceOK
<1>4. QED
  BY <1>1, <1>2, <1>3, ConsumerSafe DEF Faulty

LEMMA RecheckSafe ==
    ASSUME Safe, NEW w \in Workers, Recheck(w)
    PROVE  Safe'
<1>1. UNCHANGED <<source, consumerOnly, tries, outcome, faults>> /\ Busy(w)
  BY DEF Recheck, histVars, consumerOnly, queueVars, Busy
<1>2. worker \in [Workers -> Invocation]
  BY SplitSafe DEF WorkersOK
<1>3. PICK s : /\ s = IF source.status = "absent" THEN worker[w].seen ELSE source
  OBVIOUS
<1>4. RowOK(s, outcome, tries)
  BY <1>3, HeldOK
<1>5. Become(w, [worker[w] EXCEPT !.pc = "fail", !.seen = s])
  BY <1>2, <1>3 DEF Recheck, Become, Invocation
<1>6. WorkersOK'
  BY <1>1, <1>4, <1>5, GotoMoves DEF QuietSteps
<1>7. QED
  BY <1>1, <1>6, NothingGrows, AllStays, ConsumerSafe DEF Faulty

LEMMA PutFailedSafe ==
    ASSUME Safe, NEW w \in Workers, PutFailed(w)
    PROVE  Safe'
<1>1. UNCHANGED <<consumerOnly, tries, outcome, faults>> /\ Busy(w)
  BY DEF PutFailed, histVars, consumerOnly, queueVars, Busy
<1>2. WorkersOK'
  BY <1>1, LeaveMoves DEF PutFailed
<1>3. SourceOK'
  BY <1>1, HeldOK, FailedOK DEF PutFailed, SourceOK
<1>4. QED
  BY <1>1, <1>2, <1>3, ConsumerSafe DEF Faulty

\* The only step that adds to the results of a run.
LEMMA CollectFeedSafe ==
    ASSUME Safe, NEW w \in Workers, CollectFeed(w)
    PROVE  Safe'
<1>1. UNCHANGED <<source, post, form, msg, tries, faults>> /\ Busy(w)
  BY DEF CollectFeed, consumerOnly, queueVars, Busy
<1>2. QueueOK /\ HistoryOK /\ InvocationOK(worker[w], outcome, tries)
  BY SplitSafe, HeldOK
<1>3. PICK r : r = worker[w].run
  OBVIOUS
<1>4. r \in Runs
  BY <1>1, <1>2, <1>3 DEF InvocationOK, Busy
<1>5. PICK result \in Results :
         /\ Become(w, [worker[w] EXCEPT !.pc = "reread", !.result = result])
         /\ outcome' = [outcome EXCEPT ![r] = @ \union {result}]
  BY <1>3 DEF CollectFeed, Results
<1>6. /\ outcome' \in [Runs -> SUBSET Results] /\ result \in outcome'[r]
      /\ \A q \in Runs : outcome[q] \subseteq outcome'[q]
  BY <1>2, <1>4, <1>5 DEF HistoryOK
<1>7. GrownNow
  BY <1>1, <1>2, <1>6, RetriesAssumption DEF GrownNow, Grown, QueueOK, Deliveries
<1>8. PICK l : l = [worker[w] EXCEPT !.pc = "reread", !.result = result]
  OBVIOUS
<1>9. InvocationOK(worker[w], outcome', tries')
  BY <1>2, <1>7, InvocationStays DEF GrownNow
<1>10. /\ l \in Invocation /\ l.pc = "reread" /\ l.result = result
       /\ l.seen = worker[w].seen /\ l.run = r /\ l.attempt = worker[w].attempt
  BY <1>2, <1>3, <1>8 DEF InvocationOK, Invocation, TrySteps
<1>11. InvocationOK(l, outcome', tries')
  BY <1>1, <1>3, <1>6, <1>9, <1>10 DEF InvocationOK, Busy
<1>12. WorkersOK'
  BY <1>5, <1>7, <1>8, <1>11, WorkerMoves
<1>13. HistoryOK'
  BY <1>1, <1>2, <1>6 DEF HistoryOK
<1>14. QED
  BY <1>1, <1>7, <1>12, <1>13, AllStays, QueueStaysQuietly, SplitSafeNext

LEMMA RereadSafe ==
    ASSUME Safe, NEW w \in Workers, Reread(w)
    PROVE  Safe'
<1>1. /\ UNCHANGED <<source, consumerOnly, tries, outcome, faults>>
      /\ Busy(w) /\ worker[w].pc = "reread"
  BY DEF Reread, histVars, consumerOnly, queueVars, Busy
<1>2. PICK s : s = IF source.status = "absent" THEN worker[w].seen ELSE source
  OBVIOUS
<1>3. RowOK(s, outcome, tries) /\ InvocationOK(worker[w], outcome, tries)
  BY <1>2, HeldOK
<1>4. \/ Leave(w, "ack")
      \/ Leave(w, "retry")
      \/ /\ ~shouldRetryFeedError(worker[w].result, worker[w].attempt)
         /\ Become(w, [worker[w] EXCEPT !.pc = "apply", !.seen = s])
  BY <1>2 DEF Reread
<1>5. WorkersOK'
  <2>1. CASE Leave(w, "ack") \/ Leave(w, "retry")
    BY <1>1, <2>1, LeaveMoves
  <2>2. CASE /\ ~shouldRetryFeedError(worker[w].result, worker[w].attempt)
             /\ Become(w, [worker[w] EXCEPT !.pc = "apply", !.seen = s])
    <3>1. PICK l : l = [worker[w] EXCEPT !.pc = "apply", !.seen = s]
      OBVIOUS
    <3>2. s \in FeedSource
      BY <1>3 DEF RowOK
    <3>3. /\ l \in Invocation /\ l.pc = "apply" /\ l.seen = s
          /\ l.run = worker[w].run /\ l.attempt = worker[w].attempt
          /\ l.result = worker[w].result
      BY <1>3, <3>1, <3>2 DEF InvocationOK, Invocation, TrySteps
    <3>4. InvocationOK(l, outcome, tries)
      BY <1>1, <1>3, <2>2, <3>3
         DEF InvocationOK, shouldRetryFeedError, shouldRetryFeedAttempt
    <3>5. QED
      BY <1>1, <2>2, <3>1, <3>4, NothingGrows, WorkerMoves
  <2>3. QED
    BY <1>4, <2>1, <2>2
<1>6. QED
  BY <1>1, <1>5, NothingGrows, AllStays, ConsumerSafe DEF Faulty

\* An invocation at its last step writes a result that its run had.
LEMMA AppliedOK ==
    ASSUME Safe, NEW w \in Workers, worker[w].pc = "apply"
    PROVE  RowOK(ResultFrom(worker[w].seen, worker[w].run, worker[w].result),
                 outcome, tries)
<1>1. PICK l : l = worker[w]
  OBVIOUS
<1>2. InvocationOK(l, outcome, tries) /\ RowOK(l.seen, outcome, tries) /\ l.pc = "apply"
  BY <1>1, HeldOK
<1>3. /\ l.run \in Runs /\ l.result \in Results /\ l.result \in outcome[l.run]
      /\ l.attempt \in 1 .. tries[l.run]
      /\ l.result = "fetch_failed" => ~(l.attempt <= MaxRetries)
  BY <1>2 DEF InvocationOK, Invocation
<1>4. tries[l.run] \in Nat /\ tries[l.run] <= MaxRetries + 1
  BY <1>3, SplitSafe DEF QueueOK, Deliveries
<1>5. l.result = "fetch_failed" => tries[l.run] = MaxRetries + 1
  BY <1>3, <1>4, RetriesAssumption
<1>6. RowOK(ResultFrom(l.seen, l.run, l.result), outcome, tries)
  BY <1>2, <1>3, <1>5, ResultOK
<1>7. QED
  BY <1>1, <1>6

LEMMA ApplyResultSafe ==
    ASSUME Safe, NEW w \in Workers, ApplyResult(w)
    PROVE  Safe'
<1>1. UNCHANGED <<consumerOnly, tries, outcome, faults>> /\ Busy(w)
  BY DEF ApplyResult, histVars, consumerOnly, queueVars, Busy
<1>2. WorkersOK'
  BY <1>1, LeaveMoves DEF ApplyResult
<1>3. SourceOK'
  BY <1>1, AppliedOK DEF ApplyResult, SourceOK
<1>4. QED
  BY <1>1, <1>2, <1>3, ConsumerSafe DEF Faulty

LEMMA ThrowSafe ==
    ASSUME Safe, NEW w \in Workers, Throw(w)
    PROVE  Safe'
<1>1. UNCHANGED <<consumerOnly, tries, outcome>> /\ Busy(w) /\ Faulty
  BY DEF Throw, consumerOnly, queueVars, Busy, TrySteps, Faulty, FaultKinds
<1>2. WorkersOK'
  <2>1. CASE Leave(w, "retry")
    BY <1>1, <2>1, LeaveMoves
  <2>2. CASE Goto(w, "recheck")
    BY <1>1, <2>2, PlainGotoMoves DEF QuietSteps
  <2>3. QED
    BY <2>1, <2>2 DEF Throw
<1>3. SourceOK'
  <2>1. RowOK(source, outcome, tries)
    BY HeldOK
  <2>2. CASE source' = source
    BY <1>1, <2>1, <2>2 DEF SourceOK
  <2>3. CASE /\ worker[w].pc = "apply"
             /\ source' = ResultFrom(worker[w].seen, worker[w].run, worker[w].result)
    BY <1>1, <2>3, AppliedOK DEF SourceOK
  <2>4. QED
    BY <2>2, <2>3 DEF Throw
<1>4. QED
  BY <1>1, <1>2, <1>3, ConsumerSafe

LEMMA ThrowUncaughtSafe ==
    ASSUME Safe, NEW w \in Workers, ThrowUncaught(w)
    PROVE  Safe'
<1>1. UNCHANGED <<consumerOnly, tries, outcome>> /\ Busy(w) /\ Faulty
  BY DEF ThrowUncaught, consumerOnly, queueVars, Busy, UncaughtSteps, Faulty, FaultKinds
<1>2. WorkersOK'
  BY <1>1, LeaveMoves DEF ThrowUncaught
<1>3. SourceOK'
  <2>1. RowOK(source, outcome, tries) /\ RowOK(worker[w].seen, outcome, tries)
    BY HeldOK
  <2>2. /\ RowOK(RunningFrom(worker[w].seen), outcome, tries)
        /\ RowOK(FailedFrom(worker[w].seen, "internal_error"), outcome, tries)
    BY <2>1, RunningOK, FailedOK
  <2>3. source' \in {source, RunningFrom(worker[w].seen),
                     FailedFrom(worker[w].seen, "internal_error")}
    BY DEF ThrowUncaught
  <2>4. QED
    BY <1>1, <2>1, <2>2, <2>3 DEF SourceOK
<1>4. QED
  BY <1>1, <1>2, <1>3, ConsumerSafe

LEMMA GoStaleSafe ==
    ASSUME Safe, GoStale
    PROVE  Safe'
<1>1. UNCHANGED <<consumerOnly, worker, tries, outcome, faults>>
  BY DEF GoStale, histVars, consumerOnly, queueVars
<1>2. RowOK(source, outcome, tries)
  BY SplitSafe DEF SourceOK
<1>3. SourceOK'
  BY <1>1, <1>2, SettingsOK DEF GoStale, SourceOK
<1>4. WorkersOK'
  BY <1>1, NothingGrows, AllStays
<1>5. QED
  BY <1>1, <1>3, <1>4, ConsumerSafe DEF Faulty

-----------------------------------------------------------------------------
LEMMA InitSafe == Init => Safe
<1> SUFFICES ASSUME Init PROVE Safe
  OBVIOUS
<1>1. /\ NoSource \in FeedSource /\ NewSource(TRUE) \in FeedSource
      /\ NoSource.status = "absent" /\ NewSource(TRUE).status = "new"
  BY DEF NoSource, NewSource, FeedSource, RunOrNone, Statuses, Codes
<1>2. SourceOK
  BY <1>1 DEF Init, SourceOK, RowOK
<1>3. RequestsOK /\ FormsOK
  BY NoRequestOK DEF Init, RequestsOK, FormsOK
<1>4. WorkersOK
  BY IdleOK DEF Init, WorkersOK, InvocationOK
<1>5. QueueOK /\ HistoryOK
  <2>1. QueueOK
    BY RetriesAssumption DEF Init, QueueOK, Deliveries, MessagePlaces
  <2>2. HistoryOK
    BY MaxFaultsAssumption DEF Init, HistoryOK
  <2>3. QED
    BY <2>1, <2>2
<1>6. QED
  BY <1>2, <1>3, <1>4, <1>5, SplitSafe

LEMMA StepSafe == Safe /\ [Next]_vars => Safe'
<1> SUFFICES ASSUME Safe, [Next]_vars PROVE Safe'
  OBVIOUS
<1>1. ASSUME NEW r \in Runs, RequestStep(r) PROVE Safe'
  BY <1>1, PutQueuedSafe, SendSafe, SendFailsSafe, PutQueueFailedSafe DEF RequestStep
<1>2. ASSUME NEW w \in Workers, ConsumerStep(w) PROVE Safe'
  <2>1. CASE Retry(w)
    <3>1. Busy(w) /\ Faulty
      BY <2>1 DEF Retry, Busy, Faulty
    <3>2. QED
      BY <2>1, <3>1, HandBackSafe DEF Retry
  <2>2. QED
    BY <1>2, <2>1, ReadSourceSafe, PutRunningSafe, CollectFeedSafe, RereadSafe,
       ApplyResultSafe, RecheckSafe, PutFailedSafe, AckSafe DEF ConsumerStep
<1>3. ASSUME Environment PROVE Safe'
  <2>1. ASSUME NEW w \in Workers, Crash(w) PROVE Safe'
    BY <2>1, HandBackSafe DEF Crash, Faulty, FaultKinds
  <2>2. QED
    BY <1>3, <2>1, LookupSafe, RequestDiesSafe, OpenFormSafe, DeliverTwiceSafe,
       ThrowSafe, ThrowUncaughtSafe, GoStaleSafe DEF Environment
<1>4. ASSUME UNCHANGED vars PROVE Safe'
  <2>1. UNCHANGED <<source, consumerOnly, worker, outcome, tries, faults>>
    BY <1>4 DEF vars, consumerOnly, queueVars
  <2>2. SourceOK' /\ WorkersOK'
    BY <2>1, NothingGrows, AllStays
  <2>3. QED
    BY <2>1, <2>2, ConsumerSafe DEF Faulty
<1>5. QED
  BY <1>1, <1>2, <1>3, <1>4, SaveFormSafe, DeliverSafe DEF Next

(***************************************************************************)
(* The inductive invariant holds in every behaviour of the source's row,   *)
(* its requests, its forms and the consumer of the queue.                  *)
(***************************************************************************)
THEOREM Safety == Spec => []Safe
  BY InitSafe, StepSafe, PTL DEF Spec

\* Every write keeps the row, the queue and the invocations to their shape.
THEOREM TypeCorrect == Spec => []TypeOK
<1>1. Safe => TypeOK
  BY DEF Safe
<1>2. QED
  BY <1>1, Safety, PTL

\* No copy that anybody may still write back misattributes a result.
THEOREM InvariantHolds == Spec => []FeedInvariant
<1>1. Safe => FeedInvariant
  BY DEF Safe
<1>2. QED
  BY <1>1, Safety, PTL

\* However requests, forms and deliveries overlap, a source is ready, or
\* failed at its feed, only under a run whose collection ended that way.
THEOREM NoForeignResult == Spec => []ResultIsItsOwn
<1>1. Safe => ResultIsItsOwn
  BY DEF Safe, FeedInvariant, HonestCopies, Copies, Honest, ResultIsItsOwn
<1>2. QED
  BY <1>1, Safety, PTL

\* A failed fetch is shown only after the delivery MaxRetries + 1, whatever
\* number of retries the queue is given.
THEOREM FinalFetchFailure == Spec => []FetchFailureIsFinal
<1>1. Safe => FetchFailureIsFinal
  BY DEF Safe, FeedInvariant, HonestCopies, Copies, Honest, FetchFailureIsFinal
<1>2. QED
  BY <1>1, Safety, PTL
=============================================================================
