---------------------------- MODULE PartsProofs ----------------------------
(***************************************************************************)
(* Proofs about four small parts of the system, each for every value of    *)
(* its constants: what Cronitor hears of a job, when the paid review of a  *)
(* pull request is asked for, whom the routes answer, and what is learnt   *)
(* from the links of an issue.                                             *)
(***************************************************************************)
EXTENDS TelemetryProperties, RiskProperties, RouteProperties, InterestProperties,
        FiniteSetTheorems, TLAPS

-----------------------------------------------------------------------------
(* Telemetry: a ping under way says what is true of the job when it is     *)
(* sent, and the job does not end while one is.                            *)

PingStates == {"-", "run", "complete", "fail"}

\* How many addresses are left to dial does not matter.
PingShape(p) ==
    \E left : p \in [state: PingStates, hop: 0..MaxRedirects, host: TelemetryHosts,
                     left: {left}]

\* What a ping says was so when it set out, and still is.
PingTruthful(state, result) ==
    /\ state = "run" => result = "-"
    /\ state = "complete" => result = "done"
    /\ state = "fail" => result \in {"failed", "thrown"}

TelemetryInvariant ==
    /\ tracing \in {"start", "ping", "job", "untraced", "end"}
    /\ PingShape(ping)
    /\ outcome \in {"-", "done", "failed", "thrown", "unmeasured"}
    /\ reported \subseteq {"run", "complete", "fail"}
    /\ dialled \subseteq TelemetryHosts
    /\ cached = [h \in TelemetryHosts |-> cached[h]]
    /\ \A h \in TelemetryHosts : \A ip \in cached[h] : isPublicIpv4(ip)
    /\ tracing = "ping" => ping.state # "-"
    /\ tracing # "ping" => ping = noPing
    /\ tracing \in {"start", "job", "untraced"} => outcome = "-"
    /\ PingTruthful(ping.state, outcome)
    /\ "complete" \in reported => outcome = "done"
    /\ "fail" \in reported => outcome \in {"failed", "thrown"}

\* One more redirect, when it was not the last.
LEMMA NextHop ==
    ASSUME NEW hop \in 0..MaxRedirects, hop < MaxRedirects
    PROVE  hop + 1 \in 0..MaxRedirects
  BY RedirectsAssumption

\* Where a ping that goes on stands.
LEMMA PingOnward ==
    ASSUME PingShape(ping),
           \/ \E left : ping' = [ping EXCEPT !.left = left]
           \/ \E host \in TelemetryHosts :
                /\ ping.hop < MaxRedirects
                /\ ping' = [ping EXCEPT !.host = host, !.hop = ping.hop + 1, !.left = 0]
    PROVE  PingShape(ping') /\ ping'.state = ping.state
<1>1. PICK old : ping \in [state: PingStates, hop: 0..MaxRedirects,
                           host: TelemetryHosts, left: {old}]
  BY DEF PingShape
<1>2. ASSUME NEW left, ping' = [ping EXCEPT !.left = left]
      PROVE  PingShape(ping') /\ ping'.state = ping.state
  <2>1. ping' \in [state: PingStates, hop: 0..MaxRedirects,
                   host: TelemetryHosts, left: {left}]
    BY <1>1, <1>2
  <2>2. ping'.state = ping.state
    BY <1>1, <1>2
  <2> QED
    BY <2>1, <2>2 DEF PingShape
<1>3. ASSUME NEW host \in TelemetryHosts, ping.hop < MaxRedirects,
             ping' = [ping EXCEPT !.host = host, !.hop = ping.hop + 1, !.left = 0]
      PROVE  PingShape(ping') /\ ping'.state = ping.state
  <2> DEFINE next == ping.hop + 1
             none == 0
  <2>1. next \in 0..MaxRedirects
    <3>1. ping.hop \in 0..MaxRedirects
      BY <1>1
    <3> QED
      BY <3>1, <1>3, NextHop
  <2>2. ping' = [ping EXCEPT !.host = host, !.hop = next, !.left = none]
    BY <1>3
  <2> HIDE DEF next, none
  <2>3. ping' \in [state: PingStates, hop: 0..MaxRedirects,
                   host: TelemetryHosts, left: {none}]
    BY <1>1, <2>1, <2>2
  <2>4. ping'.state = ping.state
    BY <1>1, <2>2
  <2> QED
    BY <2>3, <2>4 DEF PingShape
<1> QED
  BY <1>2, <1>3

\* A ping that sets out, and none.
LEMMA PingBegins ==
    ASSUME NEW state \in PingStates
    PROVE  /\ PingShape([noPing EXCEPT !.state = state])
           /\ [noPing EXCEPT !.state = state].state = state
           /\ PingShape(noPing) /\ noPing.state = "-"
<1> DEFINE zero == 0
           p == [noPing EXCEPT !.state = state]
<1>1. zero \in 0..MaxRedirects
  BY RedirectsAssumption
<1>2. noPing = [state |-> "-", hop |-> zero, host |-> FirstHost, left |-> zero]
  BY DEF noPing
<1> HIDE DEF zero
<1>3. noPing \in [state: PingStates, hop: 0..MaxRedirects, host: TelemetryHosts,
                  left: {zero}]
  BY <1>1, <1>2, HostsAssumption DEF PingStates
<1>4. /\ p \in [state: PingStates, hop: 0..MaxRedirects, host: TelemetryHosts,
                left: {zero}]
      /\ p.state = state
  BY <1>3
<1>5. noPing.state = "-"
  BY <1>2
<1> QED
  BY <1>3, <1>4, <1>5 DEF PingShape

\* A ping that ends leaves the job to run or the trace at its end.
LEMMA PingOver ==
    ASSUME TelemetryInvariant, tracing = "ping", PingEnds, UNCHANGED outcome
    PROVE  /\ tracing' \in {"job", "end"}
           /\ PingShape(ping') /\ ping' = noPing
           /\ tracing' = "job" => outcome' = "-"
           /\ PingTruthful(ping'.state, outcome')
<1>1. "-" \in PingStates
  BY DEF PingStates
<1>2. PingShape(noPing) /\ noPing.state = "-"
  BY <1>1, PingBegins
<1> QED
  BY <1>2 DEF PingEnds, TelemetryInvariant, PingTruthful

\* The step is one of a ping: it goes on, or it is over.
PingMoves ==
    \/ PingEnds
    \/ /\ UNCHANGED tracing
       /\ PingShape(ping') /\ ping'.state = ping.state

\* What matters to the invariant when a ping makes a step.
LEMMA PingStepKeeps ==
    ASSUME TelemetryInvariant, tracing = "ping", PingMoves, UNCHANGED outcome,
           reported' \in {reported, reported \union {ping.state}},
           dialled' \in {dialled, dialled \union {ping.host}},
           \/ UNCHANGED cached
           \/ \E ips : /\ \A ip \in ips : isPublicIpv4(ip)
                       /\ cached' = [cached EXCEPT ![ping.host] = ips]
    PROVE  TelemetryInvariant'
<1>1. ping.state \in {"run", "complete", "fail"} /\ ping.host \in TelemetryHosts
  BY DEF TelemetryInvariant, PingShape, PingStates
<1>2. /\ tracing' \in {"ping", "job", "end"}
      /\ PingShape(ping')
      /\ tracing' = "ping" => ping'.state # "-"
      /\ tracing' # "ping" => ping' = noPing
      /\ tracing' = "job" => outcome' = "-"
      /\ PingTruthful(ping'.state, outcome')
  <2>1. CASE PingEnds
    BY <2>1, PingOver
  <2>2. CASE UNCHANGED tracing /\ PingShape(ping') /\ ping'.state = ping.state
    BY <1>1, <2>2 DEF TelemetryInvariant, PingTruthful
  <2> QED
    BY <2>1, <2>2 DEF PingMoves
<1>3. /\ reported' \subseteq {"run", "complete", "fail"}
      /\ "complete" \in reported' => outcome' = "done"
      /\ "fail" \in reported' => outcome' \in {"failed", "thrown"}
      /\ dialled' \subseteq TelemetryHosts
  BY <1>1 DEF TelemetryInvariant, PingTruthful
<1>4. /\ cached' = [h \in TelemetryHosts |-> cached'[h]]
      /\ \A h \in TelemetryHosts : \A ip \in cached'[h] : isPublicIpv4(ip)
  <2>1. CASE UNCHANGED cached
    BY <2>1 DEF TelemetryInvariant
  <2>2. ASSUME NEW ips, \A ip \in ips : isPublicIpv4(ip),
               cached' = [cached EXCEPT ![ping.host] = ips]
        PROVE  /\ cached' = [h \in TelemetryHosts |-> cached'[h]]
               /\ \A h \in TelemetryHosts : \A ip \in cached'[h] : isPublicIpv4(ip)
    <3>1. DOMAIN cached = TelemetryHosts
      BY DEF TelemetryInvariant
    <3>2. /\ DOMAIN cached' = TelemetryHosts
          /\ cached' = [h \in DOMAIN cached |->
                            IF h = ping.host THEN ips ELSE cached[h]]
      BY <2>2, <3>1
    <3> QED
      BY <2>2, <3>1, <3>2 DEF TelemetryInvariant
  <2> QED
    BY <2>1, <2>2
<1>5. outcome' \in {"-", "done", "failed", "thrown", "unmeasured"}
  BY DEF TelemetryInvariant
<1> QED
  BY <1>2, <1>3, <1>4, <1>5 DEF TelemetryInvariant

\* The trace begins, with a ping or without.
LEMMA TraceBeginsKeeps ==
    ASSUME TelemetryInvariant, TraceBegins
    PROVE  TelemetryInvariant'
<1>1. "run" \in PingStates /\ "-" \in PingStates
  BY DEF PingStates
<1>2. CASE Ping("run")
  <2>1. ping' = [noPing EXCEPT !.state = "run"] /\ tracing' = "ping"
    BY <1>2 DEF Ping
  <2>2. PingShape(ping') /\ ping'.state = "run"
    BY <1>1, <2>1, PingBegins
  <2> QED
    BY <2>1, <2>2 DEF TraceBegins, TelemetryInvariant, PingTruthful
<1>3. CASE tracing' = "untraced" /\ UNCHANGED ping
  BY <1>3 DEF TraceBegins, TelemetryInvariant, PingTruthful
<1> QED
  BY <1>2, <1>3 DEF TraceBegins

\* The job ends: the ping that is sent then says how.
LEMMA JobEndsKeeps ==
    ASSUME TelemetryInvariant, JobEnds
    PROVE  TelemetryInvariant'
<1>1. /\ tracing \in {"job", "untraced"} /\ outcome = "-" /\ ping = noPing
      /\ outcome' \in {"done", "failed", "thrown", "unmeasured"}
      /\ UNCHANGED <<reported, dialled, cached>>
      /\ reported \subseteq {"run"}
  BY DEF JobEnds, TelemetryInvariant
<1>2. "-" \in PingStates /\ "complete" \in PingStates /\ "fail" \in PingStates
  BY DEF PingStates
<1>3. CASE tracing' = "end" /\ UNCHANGED ping
  <2>1. noPing.state = "-"
    BY <1>2, PingBegins
  <2> QED
    BY <1>1, <1>3, <2>1 DEF TelemetryInvariant, PingTruthful
<1>4. ASSUME NEW state \in {"complete", "fail"}, Ping(state),
             state = "complete" => outcome' = "done",
             state = "fail" => outcome' \in {"failed", "thrown"}
      PROVE  TelemetryInvariant'
  <2>1. ping' = [noPing EXCEPT !.state = state] /\ tracing' = "ping"
    BY <1>4 DEF Ping
  <2>2. PingShape(ping') /\ ping'.state = state
    BY <1>2, <2>1, PingBegins
  <2> QED
    BY <1>1, <1>4, <2>1, <2>2 DEF TelemetryInvariant, PingTruthful
<1>5. \/ tracing' = "end" /\ UNCHANGED ping
      \/ Ping("complete") /\ outcome' = "done"
      \/ Ping("fail") /\ outcome' \in {"failed", "thrown"}
  BY <1>1 DEF JobEnds
<1> QED
  BY <1>3, <1>4, <1>5

\* The addresses of the host are looked up.
LEMMA LookupKeeps ==
    ASSUME TelemetryInvariant, lookupPublicIpv4
    PROVE  TelemetryInvariant'
<1>1. /\ tracing = "ping" /\ PingShape(ping)
      /\ UNCHANGED <<outcome, reported, dialled>>
  BY DEF lookupPublicIpv4, TelemetryInvariant
<1>2. ASSUME NEW ips, ping' = Dials(ips), UNCHANGED tracing
      PROVE  PingMoves
  BY <1>1, <1>2, PingOnward DEF Dials, PingMoves
<1>3. ASSUME NEW records
      PROVE  \A ip \in publicAnswers(records).ips : isPublicIpv4(ip)
  BY DEF publicAnswers
<1>4. CASE UNCHANGED cached /\ PingMoves
  BY <1>1, <1>4, PingStepKeeps
<1>5. ASSUME NEW records \in Answers,
             cached' = [cached EXCEPT ![ping.host] =
                            IF publicAnswers(records).lasts
                            THEN publicAnswers(records).ips ELSE {}],
             PingMoves
      PROVE  TelemetryInvariant'
  <2> DEFINE ips == IF publicAnswers(records).lasts
                    THEN publicAnswers(records).ips ELSE {}
  <2>1. \A ip \in ips : isPublicIpv4(ip)
    BY <1>3
  <2>2. cached' = [cached EXCEPT ![ping.host] = ips]
    BY <1>5
  <2> HIDE DEF ips
  <2> QED
    BY <1>1, <1>5, <2>1, <2>2, PingStepKeeps
<1>6. \/ UNCHANGED cached /\ PingMoves
      \/ \E records \in Answers :
            /\ cached' = [cached EXCEPT ![ping.host] =
                            IF publicAnswers(records).lasts
                            THEN publicAnswers(records).ips ELSE {}]
            /\ PingMoves
  <2>1. PingEnds => PingMoves
    BY DEF PingMoves
  <2> QED
    BY <1>2, <2>1 DEF lookupPublicIpv4
<1> QED
  BY <1>4, <1>5, <1>6

\* The next address is dialled, or the ping is over.
LEMMA NextDialMoves ==
    ASSUME TelemetryInvariant, NextDial
    PROVE  PingMoves
<1>1. CASE PingEnds
  BY <1>1 DEF PingMoves
<1>2. CASE ~PingEnds
  <2>1. ping' = [ping EXCEPT !.left = @ - 1] /\ UNCHANGED tracing
    BY <1>2 DEF NextDial
  <2>2. \E left : ping' = [ping EXCEPT !.left = left]
    <3>1. ping' = [ping EXCEPT !.left = ping.left - 1]
      BY <2>1
    <3> QED
      BY <3>1
  <2> QED
    BY <2>1, <2>2, PingOnward DEF PingMoves, TelemetryInvariant
<1> QED
  BY <1>1, <1>2

\* A redirect is followed, or the ping is over.
LEMMA FollowMoves ==
    ASSUME TelemetryInvariant, NEW host, Follow(host)
    PROVE  PingMoves
<1>1. CASE PingEnds
  BY <1>1 DEF PingMoves
<1>2. CASE ~PingEnds
  <2>1. /\ host \in TelemetryHosts /\ ping.hop < MaxRedirects /\ UNCHANGED tracing
        /\ ping' = [ping EXCEPT !.host = host, !.hop = @ + 1, !.left = 0]
    BY <1>2 DEF Follow, allowedRedirect
  <2>2. ping' = [ping EXCEPT !.host = host, !.hop = ping.hop + 1, !.left = 0]
    BY <2>1
  <2> QED
    BY <2>1, <2>2, PingOnward DEF PingMoves, TelemetryInvariant
<1> QED
  BY <1>1, <1>2

\* A connection cannot be opened.
LEMMA OpenFailsKeeps ==
    ASSUME TelemetryInvariant, OpenFails
    PROVE  TelemetryInvariant'
<1>1. PingMoves
  BY NextDialMoves DEF OpenFails, PingMoves
<1> QED
  BY <1>1, PingStepKeeps DEF OpenFails

\* A request is written and perhaps answered.
LEMMA ExchangeKeeps ==
    ASSUME TelemetryInvariant, exchange
    PROVE  TelemetryInvariant'
<1>1. PingMoves
  BY NextDialMoves, FollowMoves DEF exchange, PingMoves
<1>2. /\ tracing = "ping" /\ UNCHANGED <<outcome, cached>>
      /\ reported' \in {reported, reported \union {ping.state}}
      /\ dialled' = dialled \union {ping.host}
  BY DEF exchange
<1> QED
  BY <1>1, <1>2, PingStepKeeps

\* A ping says what is so, is redirected at most MaxRedirects times and dials
\* public addresses of Cronitor.
THEOREM TelemetryInvariantHolds == TelemetrySpec => []TelemetryInvariant
<1>1. TelemetryInit => TelemetryInvariant
  <2>1. "-" \in PingStates
    BY DEF PingStates
  <2>2. PingShape(noPing) /\ noPing.state = "-"
    BY <2>1, PingBegins
  <2> QED
    BY <2>2 DEF TelemetryInit, TelemetryInvariant, PingTruthful
<1>2. TelemetryInvariant /\ [TelemetryNext]_telemetryVars => TelemetryInvariant'
  <2>1. TelemetryInvariant /\ UNCHANGED telemetryVars => TelemetryInvariant'
    BY DEF telemetryVars, TelemetryInvariant, PingTruthful
  <2> QED
    BY <2>1, TraceBeginsKeeps, JobEndsKeeps, LookupKeeps, OpenFailsKeeps,
       ExchangeKeeps DEF TelemetryNext
<1> QED
  BY <1>1, <1>2, PTL DEF TelemetrySpec

\* The job, the ping and the remembered addresses are of their kinds.
THEOREM TelemetryTypeCorrect == TelemetrySpec => []TelemetryTypeOK
<1>1. TelemetryInvariant => TelemetryTypeOK
  BY DEF TelemetryInvariant, TelemetryTypeOK, PingShape, PingStates
<1> QED
  BY <1>1, TelemetryInvariantHolds, PTL

\* Cronitor never hears of a job what is not so, and no other host is dialled.
THEOREM PingsAreTrue == TelemetrySpec => []PingsMatchTheJob
<1>1. TelemetryInvariant => PingsMatchTheJob
  BY DEF TelemetryInvariant, PingsMatchTheJob
<1> QED
  BY <1>1, TelemetryInvariantHolds, PTL

-----------------------------------------------------------------------------
(* The review of a pull request: whoever was called for is on record.      *)

\* The record of a call for a head stands in the comment, or will.
Recorded(head) ==
    \/ commentRecordsReviewCall(comment, head)
    \/ review.step = "called" /\ review.head = head

Judgments(head, change) ==
    {NoJudgment} \union
    {[head |-> head, blockers |-> classifyPrRisk(change, hasKey)] : hasKey \in BOOLEAN}

ReviewStatuses ==
    {"-", "off", "missing_key", "missing_judgment", "stale_judgment", "out_of_scope",
     "already_called", "skipped_cost"} \union reviewOutcomes

CommentRecords == [head: HeadCommits \union {"-"}, called: BOOLEAN]

AllJudgments == UNION {Judgments(h, c) : h \in HeadCommits, c \in Changes}

ReviewRecords ==
    [step: {"begun", "listed", "called", "decided"}, head: HeadCommits,
     change: Changes, enabled: BOOLEAN, hasKey: BOOLEAN,
     judgment: AllJudgments,
     prior: CommentRecords, status: ReviewStatuses, called: BOOLEAN]

ReviewFits(r) ==
    /\ r.judgment \in Judgments(r.head, r.change)
    /\ r.step # "begun" => r.prior = comment \/ r.head \in lost
    /\ r.called <=> r.step = "called"
    /\ r.step = "called" => r.status \in reviewOutcomes
    /\ r.step = "decided" => r.status = idleStatus(r) /\ r.status # "call"

RiskInvariant ==
    /\ review = NoReview \/ (review \in ReviewRecords /\ ReviewFits(review))
    /\ comment \in CommentRecords
    /\ comment.called => comment.head \in HeadCommits
    /\ calls \in [HeadCommits -> Nat]
    /\ lost \subseteq HeadCommits
    /\ reviews \in 0..MaxReviews
    /\ \A head \in HeadCommits :
        /\ calls[head] > 0 => head \in lost \/ Recorded(head)
        /\ calls[head] > 1 => head \in lost

\* What a run that does not call says, and when it does.
LEMMA IdleStatusIs ==
    ASSUME NEW run, run.enabled \in BOOLEAN, run.hasKey \in BOOLEAN
    PROVE  /\ idleStatus(run) \in
                {"off", "missing_key", "missing_judgment", "stale_judgment",
                 "out_of_scope", "already_called", "skipped_cost", "call"}
           /\ idleStatus(run) \in {"call", "skipped_cost"} =>
                    ~commentRecordsReviewCall(run.prior, run.head)
           /\ idleStatus(run) = "out_of_scope" =>
                /\ run.judgment # NoJudgment
                /\ ~isHighRiskReviewTarget(run.judgment.blockers)
  BY DEF idleStatus

\* The invariant, when a step changes neither the calls nor the comment: the
\* heads on record are still on record or lost.
LEMMA RecordsStay ==
    ASSUME RiskInvariant, UNCHANGED <<comment, calls>>,
           review' = NoReview \/ (review' \in ReviewRecords /\ ReviewFits(review)'),
           lost' \subseteq HeadCommits, lost \subseteq lost', reviews' \in 0..MaxReviews,
           review.step = "called" => review.head \in lost'
    PROVE  RiskInvariant'
<1>1. \A head \in HeadCommits : Recorded(head) => head \in lost' \/ Recorded(head)'
  BY DEF Recorded, commentRecordsReviewCall
<1> QED
  BY <1>1 DEF RiskInvariant

\* A run that is cut off when it has called loses the record of the call.
LEMMA CutLoses ==
    ASSUME RiskInvariant
    PROVE  /\ lost \subseteq Cut(review) /\ Cut(review) \subseteq HeadCommits
           /\ review.step = "called" => review.head \in Cut(review)
  BY DEF Cut, RiskInvariant, NoReview, ReviewRecords

\* A new run begins.
LEMMA BeginReviewKeeps ==
    ASSUME RiskInvariant, NEW head \in HeadCommits, NEW change \in Changes,
           BeginReview(head, change)
    PROVE  RiskInvariant'
<1>1. /\ reviews' = reviews + 1 /\ reviews < MaxReviews /\ lost' = Cut(review)
      /\ UNCHANGED <<comment, calls>>
  BY DEF BeginReview
<1>2. reviews' \in 0..MaxReviews
  BY <1>1, ReviewsAssumption DEF RiskInvariant
<1>3. PICK enabled \in BOOLEAN, hasKey \in BOOLEAN, judgment \in Judgments(head, change) :
        review' = [step |-> "begun", head |-> head, change |-> change,
                   enabled |-> enabled, hasKey |-> hasKey,
                   judgment |-> judgment, prior |-> NoComment,
                   status |-> "-", called |-> FALSE]
  BY DEF BeginReview, Judgments
<1>4. judgment \in AllJudgments
  BY DEF AllJudgments
<1>5. NoComment \in CommentRecords /\ "-" \in ReviewStatuses
  BY DEF NoComment, CommentRecords, ReviewStatuses
<1>6. review' \in ReviewRecords
  BY <1>3, <1>4, <1>5 DEF ReviewRecords
<1>7. ReviewFits(review)'
  BY <1>3 DEF ReviewFits
<1> QED
  BY <1>1, <1>2, <1>6, <1>7, CutLoses, RecordsStay

\* The comments are read, or cannot be.
LEMMA ListKeeps ==
    ASSUME RiskInvariant, listReviewComments
    PROVE  RiskInvariant'
<1>1. /\ review \in ReviewRecords /\ ReviewFits(review) /\ review.step = "begun"
      /\ UNCHANGED <<comment, calls, reviews>>
  BY DEF listReviewComments, RiskInvariant, NoReview
<1>2. CASE review' = [review EXCEPT !.step = "listed", !.prior = comment] /\ UNCHANGED lost
  <2>1. review' \in ReviewRecords
    <3>1. comment \in CommentRecords
      BY DEF RiskInvariant
    <3> QED
      BY <1>1, <1>2, <3>1 DEF ReviewRecords
  <2>2. ReviewFits(review)'
    BY <1>1, <1>2 DEF ReviewRecords, ReviewFits
  <2> QED
    BY <1>1, <1>2, <2>1, <2>2, RecordsStay DEF RiskInvariant
<1>3. CASE /\ review' = [review EXCEPT !.step = "listed"]
           /\ lost' = lost \union {review.head}
  <2>1. review' \in ReviewRecords
    BY <1>1, <1>3 DEF ReviewRecords
  <2>2. ReviewFits(review)'
    BY <1>1, <1>3 DEF ReviewRecords, ReviewFits
  <2>3. review.head \in HeadCommits
    BY <1>1 DEF ReviewRecords
  <2> QED
    BY <1>1, <1>3, <2>1, <2>2, <2>3, RecordsStay DEF RiskInvariant
<1> QED
  BY <1>2, <1>3 DEF listReviewComments

\* The model is called, unless the comment says that it was, or nothing is due.
LEMMA ExecuteKeeps ==
    ASSUME RiskInvariant, executeHighRiskReview
    PROVE  RiskInvariant'
<1>1. /\ review \in ReviewRecords /\ ReviewFits(review) /\ review.step = "listed"
      /\ UNCHANGED <<comment, lost, reviews>>
  <2>1. review.step = "listed" /\ UNCHANGED <<comment, lost, reviews>>
    BY DEF executeHighRiskReview
  <2> QED
    BY <2>1 DEF RiskInvariant, NoReview
<1>2. /\ review.enabled \in BOOLEAN /\ review.hasKey \in BOOLEAN
      /\ review.head \in HeadCommits
  BY <1>1 DEF ReviewRecords
<1>3. CASE idleStatus(review) = "call"
  <2>1. PICK status \in reviewOutcomes :
            review' = [review EXCEPT !.step = "called", !.status = status, !.called = TRUE]
    BY <1>3 DEF executeHighRiskReview
  <2>2. review' \in ReviewRecords /\ review'.step = "called" /\ review'.head = review.head
    <3>1. status \in ReviewStatuses
      BY DEF ReviewStatuses
    <3> QED
      BY <1>1, <2>1, <3>1 DEF ReviewRecords
  <2>3. ReviewFits(review)'
    BY <1>1, <2>1 DEF ReviewRecords, ReviewFits
  <2>4. calls[review.head] > 0 => review.head \in lost
    <3>1. ~commentRecordsReviewCall(review.prior, review.head)
      BY <1>2, <1>3, IdleStatusIs
    <3>2. review.prior = comment \/ review.head \in lost
      BY <1>1 DEF ReviewFits
    <3> QED
      BY <1>1, <1>2, <3>1, <3>2 DEF RiskInvariant, Recorded
  <2>5. calls' = [calls EXCEPT ![review.head] = calls[review.head] + 1]
    BY <1>3 DEF executeHighRiskReview
  <2>6. calls' \in [HeadCommits -> Nat]
    BY <1>2, <2>5 DEF RiskInvariant
  <2>7. ASSUME NEW head \in HeadCommits
        PROVE  /\ calls'[head] > 0 => head \in lost' \/ Recorded(head)'
               /\ calls'[head] > 1 => head \in lost'
    <3>1. CASE head = review.head
      <4>1. calls'[head] = calls[head] + 1 /\ calls[head] \in Nat
        BY <1>2, <2>5, <3>1 DEF RiskInvariant
      <4>2. Recorded(head)'
        BY <2>2, <3>1 DEF Recorded
      <4> QED
        BY <1>1, <2>4, <3>1, <4>1, <4>2
    <3>2. CASE head # review.head
      <4>1. calls'[head] = calls[head]
        BY <1>2, <2>5, <3>2 DEF RiskInvariant
      <4>2. Recorded(head) => Recorded(head)'
        BY <1>1 DEF Recorded, commentRecordsReviewCall
      <4> QED
        BY <1>1, <4>1, <4>2 DEF RiskInvariant
    <3> QED
      BY <3>1, <3>2
  <2> QED
    BY <1>1, <2>2, <2>3, <2>6, <2>7 DEF RiskInvariant
<1>4. CASE idleStatus(review) # "call"
  <2>1. /\ review' = [review EXCEPT !.step = "decided", !.status = idleStatus(review)]
        /\ UNCHANGED calls
    BY <1>4 DEF executeHighRiskReview
  <2>2. idleStatus(review) \in
            {"off", "missing_key", "missing_judgment", "stale_judgment",
             "out_of_scope", "already_called", "skipped_cost"}
    BY <1>2, <1>4, IdleStatusIs
  <2> DEFINE status == idleStatus(review)
  <2>3. status = idleStatus(review)'
    <3>1. /\ review'.enabled = review.enabled /\ review'.hasKey = review.hasKey
          /\ review'.judgment = review.judgment /\ review'.head = review.head
          /\ review'.prior = review.prior /\ review'.change = review.change
      BY <1>1, <2>1 DEF ReviewRecords
    <3> QED
      BY <3>1 DEF idleStatus
  <2>4. status \in ReviewStatuses
    BY <2>2 DEF ReviewStatuses
  <2> HIDE DEF status
  <2>5. review' = [review EXCEPT !.step = "decided", !.status = status]
    BY <2>1 DEF status
  <2>6. review' \in ReviewRecords
    BY <1>1, <2>4, <2>5 DEF ReviewRecords
  <2>7. ReviewFits(review)'
    BY <1>1, <1>4, <2>1, <2>3, <2>5 DEF ReviewRecords, ReviewFits, status
  <2> QED
    BY <1>1, <2>1, <2>6, <2>7, RecordsStay DEF RiskInvariant
<1> QED
  BY <1>3, <1>4

\* The comment is written, kept as it is, or cannot be written.
LEMMA WriteCommentKeeps ==
    ASSUME RiskInvariant, writeComment
    PROVE  RiskInvariant'
<1>1. /\ review \in ReviewRecords /\ ReviewFits(review)
      /\ review.step \in {"called", "decided"}
      /\ review' = NoReview /\ UNCHANGED <<calls, reviews>>
  BY DEF writeComment, RiskInvariant, NoReview
<1>2. /\ review.enabled \in BOOLEAN /\ review.hasKey \in BOOLEAN
      /\ review.head \in HeadCommits /\ review.called \in BOOLEAN
  BY <1>1 DEF ReviewRecords
<1>3. CASE UNCHANGED comment /\ lost' = Cut(review)
  BY <1>1, <1>3, CutLoses, RecordsStay DEF RiskInvariant
<1>4. CASE /\ review.status # "already_called"
           /\ ~keepsEarlierReviewCall(review.status, review.head, review.prior)
           /\ comment' = [head |-> review.head, called |-> review.called]
           /\ lost' = IF /\ comment.called
                         /\ \/ comment.head # review.head
                            \/ review.status \in {"missing_key", "missing_judgment",
                                                  "stale_judgment"}
                      THEN lost \union {comment.head} ELSE lost
  <2>1. lost \subseteq lost' /\ lost' \subseteq HeadCommits
    BY <1>4 DEF RiskInvariant
  <2>2. ASSUME NEW head \in HeadCommits, calls[head] > 0
        PROVE  head \in lost' \/ Recorded(head)'
    <3>1. CASE review.step = "called" /\ review.head = head
      BY <1>1, <1>4, <3>1 DEF ReviewFits, Recorded, commentRecordsReviewCall
    <3>2. CASE /\ comment.called /\ comment.head = head
               /\ ~(review.step = "called" /\ review.head = head)
      <4>1. CASE comment.head # review.head
        BY <1>4, <3>2, <4>1
      <4>2. CASE comment.head = review.head
        <5>1. review.step = "decided" /\ review.status = idleStatus(review)
          BY <1>1, <3>2, <4>2 DEF ReviewFits
        <5>2. CASE review.status \in {"missing_key", "missing_judgment", "stale_judgment"}
          BY <1>4, <3>2, <5>2
        <5>3. CASE review.status \in {"off", "out_of_scope", "skipped_cost"}
          <6>1. ~commentRecordsReviewCall(review.prior, review.head)
            BY <1>2, <1>4, <5>1, <5>3, IdleStatusIs DEF keepsEarlierReviewCall
          <6>2. commentRecordsReviewCall(comment, review.head)
            BY <3>2, <4>2 DEF commentRecordsReviewCall
          <6> QED
            BY <1>1, <2>1, <3>2, <4>2, <5>1, <6>1, <6>2 DEF ReviewFits
        <5> QED
          BY <1>1, <1>2, <1>4, <5>1, <5>2, <5>3, IdleStatusIs DEF ReviewFits
      <4> QED
        BY <4>1, <4>2
    <3>3. CASE head \in lost
      BY <2>1, <3>3
    <3> QED
      BY <2>2, <3>1, <3>2, <3>3 DEF RiskInvariant, Recorded, commentRecordsReviewCall
  <2>3. comment' \in CommentRecords /\ comment'.head \in HeadCommits
    BY <1>2, <1>4 DEF CommentRecords
  <2> QED
    BY <1>1, <2>1, <2>2, <2>3 DEF RiskInvariant
<1> QED
  BY <1>3, <1>4 DEF writeComment

\* A head is called for once, unless the record of the call is lost, and only
\* a change without a guarded file is out of scope.
THEOREM RiskInvariantHolds == RiskSpec => []RiskInvariant
<1>1. RiskInit => RiskInvariant
  BY ReviewsAssumption
     DEF RiskInit, RiskInvariant, NoReview, NoComment, CommentRecords
<1>2. RiskInvariant /\ [RiskNext]_riskVars => RiskInvariant'
  <2>1. RiskInvariant /\ UNCHANGED riskVars => RiskInvariant'
    <3> SUFFICES ASSUME RiskInvariant, UNCHANGED riskVars
                 PROVE  RiskInvariant'
      OBVIOUS
    <3>1. ReviewFits(review) => ReviewFits(review)'
      <4>1. idleStatus(review)' = idleStatus(review)
        BY DEF riskVars, idleStatus
      <4> QED
        BY <4>1 DEF riskVars, ReviewFits
    <3>2. \A head \in HeadCommits : Recorded(head)' = Recorded(head)
      BY DEF riskVars, Recorded, commentRecordsReviewCall
    <3> QED
      BY <3>1, <3>2 DEF riskVars, RiskInvariant
  <2> QED
    BY <2>1, BeginReviewKeeps, ListKeeps, ExecuteKeeps, WriteCommentKeeps DEF RiskNext
<1> QED
  BY <1>1, <1>2, PTL DEF RiskSpec

\* The run, the comment and the heads are those of this pull request.
THEOREM RiskTypeCorrect == RiskSpec => []RiskTypeOK
<1>1. RiskInvariant => RiskTypeOK
  BY DEF RiskInvariant, RiskTypeOK, ReviewRecords, CommentRecords, NoReview
<1> QED
  BY <1>1, RiskInvariantHolds, PTL

\* What is left alone has no file of a guarded place.
LEMMA OutOfScopeIsHarmless ==
    ASSUME NEW head, NEW change, NEW judgment \in Judgments(head, change),
           judgment # NoJudgment, ~isHighRiskReviewTarget(judgment.blockers)
    PROVE  \A f \in change.files : {f.path, f.previous} \intersect HardRuleReasons = {}
<1>1. PICK hasKey \in BOOLEAN :
        judgment = [head |-> head, blockers |-> classifyPrRisk(change, hasKey)]
  BY DEF Judgments
<1>2. "hard_rule" \notin classifyPrRisk(change, hasKey)
  BY <1>1 DEF isHighRiskReviewTarget
<1>3. "hard_rule" \notin inputBlockers(change)
  BY <1>2 DEF classifyPrRisk
<1>4. matchHardRules(change.files) = {}
  BY <1>3 DEF inputBlockers
<1>5. ASSUME NEW f \in change.files
      PROVE  {f.path, f.previous} \intersect HardRuleReasons = {}
  <2> DEFINE paths == {f.path, f.previous}
             all   == {{g.path, g.previous} : g \in change.files}
  <2>1. paths \in all
    OBVIOUS
  <2>2. (UNION all) \intersect HardRuleReasons = {}
    BY <1>4 DEF matchHardRules
  <2> HIDE DEF paths, all
  <2>3. paths \intersect HardRuleReasons = {}
    BY <2>1, <2>2
  <2> QED
    BY <2>3 DEF paths
<1> QED
  BY <1>5

\* The paid review is asked for once for a head whose record is not lost, and
\* a change that is left alone touches no guarded place, old or new.
THEOREM DangerIsReviewed == RiskSpec => []DangerIsReviewedOnce
<1>1. RiskInvariant => DangerIsReviewedOnce
  <2> SUFFICES ASSUME RiskInvariant
               PROVE  DangerIsReviewedOnce
    OBVIOUS
  <2>1. \A head \in HeadCommits : calls[head] > 1 => head \in lost
    BY DEF RiskInvariant
  <2>2. ASSUME review.step \in {"called", "decided"}, review.status = "out_of_scope"
        PROVE  \A f \in review.change.files :
                  {f.path, f.previous} \intersect HardRuleReasons = {}
    <3>1. review \in ReviewRecords /\ ReviewFits(review)
      BY <2>2 DEF RiskInvariant, NoReview
    <3>2. idleStatus(review) = "out_of_scope"
      BY <2>2, <3>1 DEF ReviewFits, reviewOutcomes
    <3>3. /\ review.judgment \in Judgments(review.head, review.change)
          /\ review.enabled \in BOOLEAN /\ review.hasKey \in BOOLEAN
      BY <3>1 DEF ReviewFits, ReviewRecords
    <3>4. /\ review.judgment # NoJudgment
          /\ ~isHighRiskReviewTarget(review.judgment.blockers)
      BY <3>2, <3>3, IdleStatusIs
    <3> QED
      BY <3>3, <3>4, OutOfScopeIsHarmless
  <2> QED
    BY <2>1, <2>2 DEF DangerIsReviewedOnce
<1> QED
  BY <1>1, RiskInvariantHolds, PTL

-----------------------------------------------------------------------------
(* The routes: what was asked for passed every refusal, and the check of   *)
(* an article request is still worth what it was, unless another clip took *)
(* the article's place.                                                    *)

OwnersBearer(q) == q.scheme = "bearer" /\ q.secret = env.clipToken /\ q.secret # ""
OwnersBasic(q)  == q.scheme = "basic" /\ q.secret = env.opds /\ q.secret # ""
SmokeBearer(q)  == q.scheme = "bearer" /\ q.secret = env.smokeToken /\ q.secret # ""
SmokeBasic(q)   == q.scheme = "basic" /\ q.secret = env.smokeOpds /\ q.secret # ""
PersonOfPage(q) == q.email # "" /\ q.csrf = q.email /\ env.clipToken # ""

\* What an answer that does something shows of its request.
AnswerFits(q, answer) ==
    /\ answer.effect = "go_on" <=> q.route \in articleRoutes
    /\ q.route \in {"clip", "job"} =>
          OwnersBearer(q) \/ (SmokeBearer(q) /\ smokeUrlIs(aboutOf(q)))
    /\ q.route \in {"article", "catalog"} =>
          /\ answer.effect = "read"
          /\ OwnersBasic(q) \/ (SmokeBasic(q) /\ smokeMayReadArticle(q.id))
    /\ q.route \in articleRoutes =>
          /\ q.id # NoAddress
          /\ articlePrincipal(q) \in {"production", "smoke"}
          /\ articlePrincipal(q) = "smoke" => smokeMayReadArticle(q.id)
    /\ q.route \in pageRoutes =>
          /\ answer.effect = "read"
          /\ OwnersBearer(q) \/ q.email # ""
    /\ q.route \notin ProgramRoutes \union pageRoutes =>
          OwnersBearer(q) \/ PersonOfPage(q)

CheckFits(c) ==
    /\ c.route = c.q.route /\ c.q.route \in articleRoutes
    /\ c.q.id # NoAddress
    /\ articlePrincipal(c.q) \in {"production", "smoke"}
    /\ articlePrincipal(c.q) = "smoke" =>
          env.smokeUrl # NoAddress /\ (c.overtaken \/ smokeMayReadArticle(c.q.id))

RouteInvariant ==
    /\ env \in Environments
    /\ shelf \in [Addresses -> Addresses \union {NoAddress}]
    /\ shelf[Purchased] \in {NoAddress, Purchased}
    /\ checked = NoCheck \/
        (/\ checked \in [route: articleRoutes, q: Calls, overtaken: BOOLEAN]
         /\ CheckFits(checked))
    /\ RoutesGuardWhatTheyChange

\* An answer that does something took none of the early returns.
LEMMA GuardPasses ==
    ASSUME NEW returns, NEW answers, NEW answer \in Guarded(returns, answers),
           answer.effect # "none"
    PROVE  answer \in answers /\ \A i \in DOMAIN returns : ~returns[i][1]
<1> DEFINE taken == {i \in DOMAIN returns : returns[i][1]}
           first == CHOOSE i \in taken : \A j \in taken : i <= j
<1>1. Guarded(returns, answers) = IF taken = {} THEN answers ELSE Refuse(returns[first][2])
  BY DEF Guarded
<1>2. answer \notin Refuse(returns[first][2])
  BY DEF Refuse, Answer
<1>3. taken = {} /\ answer \in answers
  BY <1>1, <1>2
<1> QED
  BY <1>3

\* Whom the secrets of a request make it: nobody is let in without one.
LEMMA ClipPrincipalIs ==
    ASSUME NEW q
    PROVE  \/ resolveClipPrincipal(q) = "nobody"
           \/ resolveClipPrincipal(q) = "production" /\ OwnersBearer(q)
           \/ resolveClipPrincipal(q) = "smoke" /\ SmokeBearer(q)
  BY DEF resolveClipPrincipal, resolvePrincipal, presentedMatchesSha256, secretsEqual,
         clipTokenAuthorized, parseBearerToken, OwnersBearer, SmokeBearer

\* The same of the catalogue's secrets.
LEMMA OpdsPrincipalIs ==
    ASSUME NEW q
    PROVE  \/ resolveOpdsPrincipal(q) = "nobody"
           \/ resolveOpdsPrincipal(q) = "production" /\ OwnersBasic(q)
           \/ resolveOpdsPrincipal(q) = "smoke" /\ SmokeBasic(q)
  BY DEF resolveOpdsPrincipal, resolvePrincipal, presentedMatchesSha256, secretsEqual,
         parseBasicCredentials, OwnersBasic, SmokeBasic

\* Whom a page lets in, and whom its token lets act.
LEMMA PageAuthIs ==
    ASSUME NEW q, requireClipWebAuth(q) # "nobody"
    PROVE  /\ OwnersBearer(q) \/ q.email # ""
           /\ ~denyIfCsrfMismatch(q) => OwnersBearer(q) \/ PersonOfPage(q)
<1>1. clipTokenAuthorized(q) => OwnersBearer(q)
  BY DEF clipTokenAuthorized, secretsEqual, parseBearerToken, OwnersBearer
<1>2. ~clipTokenAuthorized(q) => q.email # "" /\ requireClipWebAuth(q) = "access"
  BY DEF requireClipWebAuth
<1>3. secretsEqual(q.csrf, accessCsrfToken(q.email)) /\ q.email # "" => PersonOfPage(q)
  BY DEF secretsEqual, accessCsrfToken, PersonOfPage
<1> QED
  BY <1>1, <1>2, <1>3 DEF denyIfCsrfMismatch

\* What an answer has done, whatever its status.
LEMMA AnswerEffect ==
    \A n, done : Answer(n, done).effect = done
  BY DEF Answer

\* The same of an answer to a page or a program.
LEMMA ReplyEffect ==
    \A q, n, done : Reply303(q, n, done).effect = done
  BY DEF Reply303, Answer

\* One early return of a handler that was not taken.
LEMMA Passes ==
    ASSUME NEW returns, NEW answers, NEW answer \in Guarded(returns, answers),
           answer.effect # "none",
           NEW i \in DOMAIN returns, NEW gone \in BOOLEAN, NEW n, returns[i] = <<gone, n>>
    PROVE  answer \in answers /\ ~gone
<1>1. answer \in answers /\ ~returns[i][1]
  BY GuardPasses
<1> QED
  BY <1>1

\* A handler whose early returns have both checks of a page.
LEMMA PagePasses ==
    ASSUME NEW q, NEW returns, NEW answers, NEW answer \in Guarded(returns, answers),
           answer.effect # "none",
           NEW i \in DOMAIN returns, returns[i] = nobody(q),
           NEW j \in DOMAIN returns, returns[j] = csrfFailed(q)
    PROVE  answer \in answers /\ (OwnersBearer(q) \/ PersonOfPage(q))
<1> DEFINE gone   == requireClipWebAuth(q) = "nobody"
           failed == denyIfCsrfMismatch(q)
<1>1. gone \in BOOLEAN /\ failed \in BOOLEAN
  BY DEF denyIfCsrfMismatch
<1>2. returns[i] = <<gone, 401>> /\ returns[j] = <<failed, 403>>
  BY DEF nobody, csrfFailed
<1> HIDE DEF gone, failed
<1>3. answer \in answers /\ ~gone
  BY <1>1, <1>2, Passes
<1>4. ~failed
  BY <1>1, <1>2, Passes
<1> QED
  BY <1>3, <1>4, PageAuthIs DEF gone, failed

\* A clip is queued for the owner, and with the smoke credential its own URL.
LEMMA ClipFits ==
    ASSUME NEW q, q.route = "clip", NEW answer \in clip(q), answer.effect # "none"
    PROVE  AnswerFits(q, answer)
<1> DEFINE who == resolveClipPrincipal(q)
           url == parseClipShareText(q.body)
           gone    == who = "nobody"
           foreign == who = "smoke" /\ ~smokeUrlIs(url)
           returns == <<<<gone, 401>>, unreadable(q), <<url = NoAddress, 400>>,
                        <<foreign, 403>>>>
<1>1. answer \in Guarded(returns, Enqueued)
  BY DEF clip, unknownId, nobody
<1>2. gone \in BOOLEAN /\ foreign \in BOOLEAN
  OBVIOUS
<1>3. /\ 1 \in DOMAIN returns /\ returns[1] = <<gone, 401>>
      /\ 4 \in DOMAIN returns /\ returns[4] = <<foreign, 403>>
  OBVIOUS
<1> HIDE DEF returns, gone, foreign
<1>4. answer \in Enqueued /\ ~gone
  BY <1>1, <1>2, <1>3, Passes
<1>5. ~foreign
  BY <1>1, <1>2, <1>3, Passes
<1>6. answer.effect # "go_on"
  BY <1>4, AnswerEffect DEF Enqueued
<1>7. aboutOf(q) = url
  BY DEF aboutOf
<1> QED
  BY <1>4, <1>5, <1>6, <1>7, ClipPrincipalIs
     DEF AnswerFits, articleRoutes, pageRoutes, ProgramRoutes, gone, foreign

\* A job is shown to the owner, and with the smoke credential its own.
LEMMA JobFits ==
    ASSUME NEW q, q.route = "job", NEW answer \in getClipJob(q), answer.effect # "none"
    PROVE  AnswerFits(q, answer)
<1> DEFINE who == resolveClipPrincipal(q)
           gone    == who = "nobody"
           foreign == who = "smoke" /\ ~smokeUrlIs(q.id)
           returns == <<<<gone, 401>>, <<q.id = NoAddress, 404>>, <<q.id \notin clipped, 404>>,
                        <<foreign, 404>>>>
<1>1. answer \in Guarded(returns, {Answer(200, "read")})
  BY DEF getClipJob, unknownId, nobody
<1>2. gone \in BOOLEAN /\ foreign \in BOOLEAN
  OBVIOUS
<1>3. /\ 1 \in DOMAIN returns /\ returns[1] = <<gone, 401>>
      /\ 4 \in DOMAIN returns /\ returns[4] = <<foreign, 404>>
  OBVIOUS
<1> HIDE DEF returns, gone, foreign
<1>4. answer \in {Answer(200, "read")} /\ ~gone
  BY <1>1, <1>2, <1>3, Passes
<1>5. ~foreign
  BY <1>1, <1>2, <1>3, Passes
<1>6. answer.effect # "go_on"
  BY <1>4, AnswerEffect
<1>7. aboutOf(q) = q.id
  BY DEF aboutOf
<1> QED
  BY <1>4, <1>5, <1>6, <1>7, ClipPrincipalIs
     DEF AnswerFits, articleRoutes, pageRoutes, ProgramRoutes, gone, foreign

\* The metadata of an article is read by the owner, and that of the smoke
\* article with the smoke credential.
LEMMA ArticleFits ==
    ASSUME NEW q, q.route = "article", NEW answer \in getArticle(q), answer.effect # "none"
    PROVE  AnswerFits(q, answer)
<1> DEFINE who == resolveOpdsPrincipal(q)
           gone    == who = "nobody"
           foreign == who = "smoke" /\ ~(isStored(q.id) /\ articleMatchesSmokeUrl(q.id))
           returns == <<<<gone, 401>>, <<q.id = NoAddress, 404>>, <<~isStored(q.id), 404>>,
                        <<foreign, 404>>>>
<1>1. answer \in Guarded(returns, {Answer(200, "read")})
  BY DEF getArticle, unknownId, nobody
<1>2. gone \in BOOLEAN /\ foreign \in BOOLEAN
  OBVIOUS
<1>3. /\ 1 \in DOMAIN returns /\ returns[1] = <<gone, 401>>
      /\ 4 \in DOMAIN returns /\ returns[4] = <<foreign, 404>>
  OBVIOUS
<1> HIDE DEF returns, gone, foreign
<1>4. answer \in {Answer(200, "read")} /\ ~gone
  BY <1>1, <1>2, <1>3, Passes
<1>5. ~foreign
  BY <1>1, <1>2, <1>3, Passes
<1>6. answer.effect = "read"
  BY <1>4, AnswerEffect
<1> QED
  BY <1>4, <1>5, <1>6, OpdsPrincipalIs
     DEF AnswerFits, articleRoutes, pageRoutes, ProgramRoutes, gone, foreign,
         smokeMayReadArticle

\* What the catalogue lists: to the smoke credential its own article alone.
LEMMA CatalogFits ==
    ASSUME NEW q, q.route = "catalog", NEW answer \in opdsCatalog(q), answer.effect # "none"
    PROVE  AnswerFits(q, answer)
<1> DEFINE who == resolveOpdsPrincipal(q)
           shown == {id \in Addresses :
                        isStored(id) /\ (who = "smoke" => articleMatchesSmokeUrl(id))}
           gone   == who = "nobody"
           hidden == q.id \notin shown
           returns == <<<<gone, 401>>, <<hidden, 404>>>>
<1>1. answer \in Guarded(returns, {Answer(200, "read")})
  BY DEF opdsCatalog, unknownId, nobody
<1>2. gone \in BOOLEAN /\ hidden \in BOOLEAN
  OBVIOUS
<1>3. /\ 1 \in DOMAIN returns /\ returns[1] = <<gone, 401>>
      /\ 2 \in DOMAIN returns /\ returns[2] = <<hidden, 404>>
  OBVIOUS
<1> HIDE DEF returns, gone, hidden
<1>4. answer \in {Answer(200, "read")} /\ ~gone
  BY <1>1, <1>2, <1>3, Passes
<1>5. ~hidden
  BY <1>1, <1>2, <1>3, Passes
<1>6. answer.effect = "read"
  BY <1>4, AnswerEffect
<1> QED
  BY <1>4, <1>5, <1>6, OpdsPrincipalIs
     DEF AnswerFits, articleRoutes, pageRoutes, ProgramRoutes, gone, hidden,
         smokeMayReadArticle

\* A book is asked of the store only when the check lets it.
LEMMA CheckedFits ==
    ASSUME NEW q, q.route \in articleRoutes, NEW answer \in checkArticle(q), answer.effect # "none"
    PROVE  AnswerFits(q, answer)
<1> DEFINE who == articlePrincipal(q)
           gone    == who = "nobody"
           unknown == q.id = NoAddress
           foreign == who = "smoke" /\ ~smokeMayReadArticle(q.id)
           returns == <<<<gone, 401>>, <<unknown, 404>>, <<foreign, 404>>>>
<1>1. answer \in Guarded(returns, {Answer(0, "go_on")})
  BY DEF checkArticle, unknownId, nobody
<1>2. gone \in BOOLEAN /\ unknown \in BOOLEAN /\ foreign \in BOOLEAN
  OBVIOUS
<1>3. /\ 1 \in DOMAIN returns /\ returns[1] = <<gone, 401>>
      /\ 2 \in DOMAIN returns /\ returns[2] = <<unknown, 404>>
      /\ 3 \in DOMAIN returns /\ returns[3] = <<foreign, 404>>
  OBVIOUS
<1> HIDE DEF returns, gone, unknown, foreign
<1>4. answer \in {Answer(0, "go_on")} /\ ~gone
  BY <1>1, <1>2, <1>3, Passes
<1>5. ~unknown
  BY <1>1, <1>2, <1>3, Passes
<1>6. ~foreign
  BY <1>1, <1>2, <1>3, Passes
<1>7. answer.effect = "go_on"
  BY <1>4, AnswerEffect
<1>8. who \in {"production", "smoke"}
  BY <1>4, ClipPrincipalIs, OpdsPrincipalIs DEF articlePrincipal, gone
<1> QED
  BY <1>4, <1>5, <1>6, <1>7, <1>8 DEF AnswerFits, articleRoutes, pageRoutes, ProgramRoutes, gone, unknown, foreign

\* A page is shown to the owner or to an identity of Access.
LEMMA PageFits ==
    ASSUME NEW q, q.route \in pageRoutes, NEW answer \in showPage(q), answer.effect # "none"
    PROVE  AnswerFits(q, answer)
<1> DEFINE gone == requireClipWebAuth(q) = "nobody"
           returns == <<<<gone, 401>>>>
<1>1. answer \in Guarded(returns, {Answer(200, "read")})
  BY DEF showPage, unknownId, nobody
<1>2. gone \in BOOLEAN
  OBVIOUS
<1>3. /\ 1 \in DOMAIN returns /\ returns[1] = <<gone, 401>>
  OBVIOUS
<1> HIDE DEF returns, gone
<1>4. answer \in {Answer(200, "read")} /\ ~gone
  BY <1>1, <1>2, <1>3, Passes
<1>5. answer.effect = "read"
  BY <1>4, AnswerEffect
<1> QED
  BY <1>4, <1>5, PageAuthIs DEF AnswerFits, articleRoutes, pageRoutes, ProgramRoutes, gone

\* The clip page: nobody clips without the token of the page.
LEMMA SubmitFits ==
    ASSUME NEW q, q.route = "submit", NEW answer \in submitClip(q), answer.effect # "none"
    PROVE  AnswerFits(q, answer)
<1> DEFINE returns == <<nobody(q), unreadable(q), csrfFailed(q), <<q.body.secret, 400>>,
                        <<formUrl(q) = NoAddress, 400>>>>
           answers == Enqueued
<1>1. answer \in Guarded(returns, answers)
  BY DEF submitClip
<1>2. 1 \in DOMAIN returns /\ returns[1] = nobody(q)
  OBVIOUS
<1>3. 3 \in DOMAIN returns /\ returns[3] = csrfFailed(q)
  OBVIOUS
<1>4. \A a \in answers : a.effect # "go_on"
  BY AnswerEffect DEF Enqueued
<1> HIDE DEF returns, answers
<1>5. answer \in answers /\ (OwnersBearer(q) \/ PersonOfPage(q))
  BY <1>1, <1>2, <1>3, PagePasses
<1> QED
  BY <1>4, <1>5 DEF AnswerFits, articleRoutes, pageRoutes, ProgramRoutes

\* The form of a purchased book.
LEMMA UploadFits ==
    ASSUME NEW q, q.route = "upload", NEW answer \in uploadBook(q), answer.effect # "none"
    PROVE  AnswerFits(q, answer)
<1> DEFINE via == requireClipWebAuth(q)
           status == parsePurchasedBookForm(q.book, via = "access")
           returns == <<nobody(q), unreadable(q), csrfFailed(q), <<status # 200, status>>>>
           answers == {Answer(200, "store")}
<1>1. answer \in Guarded(returns, answers)
  BY DEF uploadBook
<1>2. 1 \in DOMAIN returns /\ returns[1] = nobody(q)
  OBVIOUS
<1>3. 3 \in DOMAIN returns /\ returns[3] = csrfFailed(q)
  OBVIOUS
<1>4. \A a \in answers : a.effect # "go_on"
  BY AnswerEffect
<1> HIDE DEF returns, answers
<1>5. answer \in answers /\ (OwnersBearer(q) \/ PersonOfPage(q))
  BY <1>1, <1>2, <1>3, PagePasses
<1> QED
  BY <1>4, <1>5 DEF AnswerFits, articleRoutes, pageRoutes, ProgramRoutes

\* A candidate is sent to the clips.
LEMMA SendFits ==
    ASSUME NEW q, q.route = "send", NEW answer \in sendCandidate(q), answer.effect # "none"
    PROVE  AnswerFits(q, answer)
<1> DEFINE returns == <<nobody(q), unknownId(q), <<~q.json /\ ~q.readable, 400>>, csrfFailed(q)>>
           answers == {Answer(404, "none"),
                       Reply303(q, 409, "none"),
                       Reply303(q, 503, "enqueue"),
                       Reply303(q, 200, "candidate"),
                       Reply303(q, 202, "enqueue")}
<1>1. answer \in Guarded(returns, answers)
  BY DEF sendCandidate
<1>2. 1 \in DOMAIN returns /\ returns[1] = nobody(q)
  OBVIOUS
<1>3. 4 \in DOMAIN returns /\ returns[4] = csrfFailed(q)
  OBVIOUS
<1>4. \A a \in answers : a.effect # "go_on"
  BY AnswerEffect, ReplyEffect
<1> HIDE DEF returns, answers
<1>5. answer \in answers /\ (OwnersBearer(q) \/ PersonOfPage(q))
  BY <1>1, <1>2, <1>3, PagePasses
<1> QED
  BY <1>4, <1>5 DEF AnswerFits, articleRoutes, pageRoutes, ProgramRoutes

\* A candidate is marked as recommended.
LEMMA RecommendFits ==
    ASSUME NEW q, q.route = "recommend", NEW answer \in recommendCandidate(q), answer.effect # "none"
    PROVE  AnswerFits(q, answer)
<1> DEFINE returns == <<nobody(q), unknownId(q), <<~q.json /\ ~q.readable, 400>>, csrfFailed(q)>>
           answers == {Answer(404, "none"), Reply303(q, 200, "candidate")}
<1>1. answer \in Guarded(returns, answers)
  BY DEF recommendCandidate
<1>2. 1 \in DOMAIN returns /\ returns[1] = nobody(q)
  OBVIOUS
<1>3. 4 \in DOMAIN returns /\ returns[4] = csrfFailed(q)
  OBVIOUS
<1>4. \A a \in answers : a.effect # "go_on"
  BY AnswerEffect, ReplyEffect
<1> HIDE DEF returns, answers
<1>5. answer \in answers /\ (OwnersBearer(q) \/ PersonOfPage(q))
  BY <1>1, <1>2, <1>3, PagePasses
<1> QED
  BY <1>4, <1>5 DEF AnswerFits, articleRoutes, pageRoutes, ProgramRoutes

\* A candidate is registered by hand.
LEMMA RegisterFits ==
    ASSUME NEW q, q.route = "register", NEW answer \in registerRoute(q), answer.effect # "none"
    PROVE  AnswerFits(q, answer)
<1> DEFINE returns == <<nobody(q), unreadable(q), <<q.json /\ formUrl(q) = NoAddress, 400>>,
                        csrfFailed(q), <<formUrl(q) = NoAddress, 400>>>>
           answers == {Answer(400, "none"),
                       Reply303(q, 200, "candidate"),
                       Reply303(q, 201, "candidate")}
<1>1. answer \in Guarded(returns, answers)
  BY DEF registerRoute
<1>2. 1 \in DOMAIN returns /\ returns[1] = nobody(q)
  OBVIOUS
<1>3. 4 \in DOMAIN returns /\ returns[4] = csrfFailed(q)
  OBVIOUS
<1>4. \A a \in answers : a.effect # "go_on"
  BY AnswerEffect, ReplyEffect
<1> HIDE DEF returns, answers
<1>5. answer \in answers /\ (OwnersBearer(q) \/ PersonOfPage(q))
  BY <1>1, <1>2, <1>3, PagePasses
<1> QED
  BY <1>4, <1>5 DEF AnswerFits, articleRoutes, pageRoutes, ProgramRoutes

\* All sources are collected.
LEMMA CollectFits ==
    ASSUME NEW q, q.route = "collect", NEW answer \in collectEnabled(q), answer.effect # "none"
    PROVE  AnswerFits(q, answer)
<1> DEFINE returns == <<nobody(q), csrfFailed(q)>>
           answers == {Reply303(q, 202, "source")}
<1>1. answer \in Guarded(returns, answers)
  BY DEF collectEnabled
<1>2. 1 \in DOMAIN returns /\ returns[1] = nobody(q)
  OBVIOUS
<1>3. 2 \in DOMAIN returns /\ returns[2] = csrfFailed(q)
  OBVIOUS
<1>4. \A a \in answers : a.effect # "go_on"
  BY AnswerEffect, ReplyEffect
<1> HIDE DEF returns, answers
<1>5. answer \in answers /\ (OwnersBearer(q) \/ PersonOfPage(q))
  BY <1>1, <1>2, <1>3, PagePasses
<1> QED
  BY <1>4, <1>5 DEF AnswerFits, articleRoutes, pageRoutes, ProgramRoutes

\* A source is created.
LEMMA CreateFits ==
    ASSUME NEW q, q.route = "create", NEW answer \in createSource(q), answer.effect # "none"
    PROVE  AnswerFits(q, answer)
<1> DEFINE returns == <<nobody(q), unreadable(q), csrfFailed(q),
                        <<formUrl(q) = NoAddress, 400>>>>
           answers == {Answer(400, "none"),
                       Answer(502, "none"),
                       Reply303(q, 200, "none"),
                       Reply303(q, 201, "source")}
<1>1. answer \in Guarded(returns, answers)
  BY DEF createSource
<1>2. 1 \in DOMAIN returns /\ returns[1] = nobody(q)
  OBVIOUS
<1>3. 3 \in DOMAIN returns /\ returns[3] = csrfFailed(q)
  OBVIOUS
<1>4. \A a \in answers : a.effect # "go_on"
  BY AnswerEffect, ReplyEffect
<1> HIDE DEF returns, answers
<1>5. answer \in answers /\ (OwnersBearer(q) \/ PersonOfPage(q))
  BY <1>1, <1>2, <1>3, PagePasses
<1> QED
  BY <1>4, <1>5 DEF AnswerFits, articleRoutes, pageRoutes, ProgramRoutes

\* One source is collected.
LEMMA CollectOneFits ==
    ASSUME NEW q, q.route = "collect_one", NEW answer \in collectOne(q), answer.effect # "none"
    PROVE  AnswerFits(q, answer)
<1> DEFINE returns == <<nobody(q), unknownId(q), csrfFailed(q)>>
           answers == {Answer(404, "none"),
                       Reply303(q, 409, "none"),
                       Answer(503, "source"),
                       Reply303(q, 202, "source")}
<1>1. answer \in Guarded(returns, answers)
  BY DEF collectOne
<1>2. 1 \in DOMAIN returns /\ returns[1] = nobody(q)
  OBVIOUS
<1>3. 3 \in DOMAIN returns /\ returns[3] = csrfFailed(q)
  OBVIOUS
<1>4. \A a \in answers : a.effect # "go_on"
  BY AnswerEffect, ReplyEffect
<1> HIDE DEF returns, answers
<1>5. answer \in answers /\ (OwnersBearer(q) \/ PersonOfPage(q))
  BY <1>1, <1>2, <1>3, PagePasses
<1> QED
  BY <1>4, <1>5 DEF AnswerFits, articleRoutes, pageRoutes, ProgramRoutes

\* A source is changed.
LEMMA UpdateFits ==
    ASSUME NEW q, q.route = "update", NEW answer \in updateSource(q), answer.effect # "none"
    PROVE  AnswerFits(q, answer)
<1> DEFINE returns == <<nobody(q), unknownId(q), unreadable(q), csrfFailed(q)>>
           answers == {Answer(404, "none"),
                       Answer(400, "none"),
                       Answer(502, "none"),
                       Reply303(q, 200, "none"),
                       Reply303(q, 200, "source")}
<1>1. answer \in Guarded(returns, answers)
  BY DEF updateSource
<1>2. 1 \in DOMAIN returns /\ returns[1] = nobody(q)
  OBVIOUS
<1>3. 4 \in DOMAIN returns /\ returns[4] = csrfFailed(q)
  OBVIOUS
<1>4. \A a \in answers : a.effect # "go_on"
  BY AnswerEffect, ReplyEffect
<1> HIDE DEF returns, answers
<1>5. answer \in answers /\ (OwnersBearer(q) \/ PersonOfPage(q))
  BY <1>1, <1>2, <1>3, PagePasses
<1> QED
  BY <1>4, <1>5 DEF AnswerFits, articleRoutes, pageRoutes, ProgramRoutes

\* The digest is asked for.
LEMMA DigestFits ==
    ASSUME NEW q, q.route = "digest", NEW answer \in digestNow(q), answer.effect # "none"
    PROVE  AnswerFits(q, answer)
<1> DEFINE returns == <<nobody(q), csrfFailed(q)>>
           answers == {Reply303(q, 503, "none"), Reply303(q, 202, "digest")}
<1>1. answer \in Guarded(returns, answers)
  BY DEF digestNow
<1>2. 1 \in DOMAIN returns /\ returns[1] = nobody(q)
  OBVIOUS
<1>3. 2 \in DOMAIN returns /\ returns[2] = csrfFailed(q)
  OBVIOUS
<1>4. \A a \in answers : a.effect # "go_on"
  BY AnswerEffect, ReplyEffect
<1> HIDE DEF returns, answers
<1>5. answer \in answers /\ (OwnersBearer(q) \/ PersonOfPage(q))
  BY <1>1, <1>2, <1>3, PagePasses
<1> QED
  BY <1>4, <1>5 DEF AnswerFits, articleRoutes, pageRoutes, ProgramRoutes

\* Whatever a handler does, its request passed the refusals of its route.
LEMMA HandledFits ==
    ASSUME NEW q \in Calls, NEW answer \in answersOf(q), answer.effect # "none"
    PROVE  AnswerFits(q, answer)
<1>1. q.route \in Routes
  BY CallsHaveRoutes
<1>2. CASE q.route \in articleRoutes
  <2>1. answersOf(q) = checkArticle(q)
    BY <1>2 DEF answersOf, articleRoutes, pageRoutes
  <2> QED
    BY <1>2, <2>1, CheckedFits
<1>3. CASE q.route \in pageRoutes
  <2>1. answersOf(q) = showPage(q)
    BY <1>3 DEF answersOf, articleRoutes, pageRoutes
  <2> QED
    BY <1>3, <2>1, PageFits
<1>4. CASE q.route \in {"clip", "job", "article", "catalog"}
  <2>1. /\ q.route = "clip" => answersOf(q) = clip(q)
        /\ q.route = "job" => answersOf(q) = getClipJob(q)
        /\ q.route = "article" => answersOf(q) = getArticle(q)
        /\ q.route = "catalog" => answersOf(q) = opdsCatalog(q)
    BY <1>4 DEF answersOf, articleRoutes, pageRoutes
  <2> QED
    BY <1>4, <2>1, ClipFits, JobFits, ArticleFits, CatalogFits
<1>5. CASE q.route \in {"logout", "show"}
  <2>1. /\ q.route = "logout" => answersOf(q) = logout(q)
        /\ q.route = "show" => answersOf(q) = showClip(q)
    BY <1>5 DEF answersOf, articleRoutes, pageRoutes
  <2>2. answer \notin logout(q) /\ answer \notin showClip(q)
    <3>1. ASSUME NEW returns, NEW n, answer \in Guarded(returns, {Answer(n, "none")})
          PROVE  FALSE
      BY <3>1, GuardPasses, AnswerEffect
    <3> QED
      BY <3>1 DEF logout, showClip
  <2> QED
    BY <1>5, <2>1, <2>2
<1>6. CASE q.route \in {"submit", "upload", "send", "recommend", "register"}
  <2>1. /\ q.route = "submit" => answersOf(q) = submitClip(q)
        /\ q.route = "upload" => answersOf(q) = uploadBook(q)
        /\ q.route = "send" => answersOf(q) = sendCandidate(q)
        /\ q.route = "recommend" => answersOf(q) = recommendCandidate(q)
        /\ q.route = "register" => answersOf(q) = registerRoute(q)
    BY <1>6 DEF answersOf, articleRoutes, pageRoutes
  <2> QED
    BY <1>6, <2>1, SubmitFits, UploadFits, SendFits, RecommendFits, RegisterFits
<1>7. CASE q.route \in {"collect", "create", "collect_one", "update", "digest"}
  <2>1. /\ q.route = "collect" => answersOf(q) = collectEnabled(q)
        /\ q.route = "create" => answersOf(q) = createSource(q)
        /\ q.route = "collect_one" => answersOf(q) = collectOne(q)
        /\ q.route = "update" => answersOf(q) = updateSource(q)
        /\ q.route = "digest" => answersOf(q) = digestNow(q)
    BY <1>7 DEF answersOf, articleRoutes, pageRoutes
  <2> QED
    BY <1>7, <2>1, CollectFits, CreateFits, CollectOneFits, UpdateFits, DigestFits
<1> QED
  BY <1>1, <1>2, <1>3, <1>4, <1>5, <1>6, <1>7 DEF Routes

\* What is remembered of an answer, field by field.
LEMMA AnsweredIs ==
    ASSUME NEW q, NEW about, NEW effect, Answered(q, about, effect)
    PROVE  /\ answered'.route = q.route /\ answered'.scheme = q.scheme
           /\ answered'.secret = q.secret /\ answered'.email = q.email
           /\ answered'.csrf = q.csrf /\ answered'.about = about
           /\ answered'.source = IF isStored(about) THEN shelf[about] ELSE NoAddress
           /\ answered'.overtaken = (checked.route = q.route /\ checked.overtaken)
           /\ answered'.effect = effect
  BY DEF Answered

\* The smoke credential's own article is the one that is answered with.
LEMMA SmokeArticleIs ==
    ASSUME NEW id, smokeMayReadArticle(id)
    PROVE  /\ env.smokeUrl # NoAddress
           /\ isStored(id) /\ env.smokeUrl \in {id, shelf[id]}
  BY DEF smokeMayReadArticle, articleMatchesSmokeUrl, smokeUrlIs

\* Whoever a handler answers is entitled to the answer.
LEMMA AnswerIsEntitled ==
    ASSUME NEW q, NEW answer, AnswerFits(q, answer), q.route \in Routes \ articleRoutes,
           Answered(q, aboutOf(q), answer.effect), UNCHANGED env
    PROVE  Entitled(answered)'
<1> DEFINE a == answered'
<1>1. /\ a.route = q.route /\ a.scheme = q.scheme /\ a.secret = q.secret
      /\ a.email = q.email /\ a.csrf = q.csrf /\ a.about = aboutOf(q)
      /\ a.source = IF isStored(aboutOf(q)) THEN shelf[aboutOf(q)] ELSE NoAddress
      /\ a.effect = answer.effect
  BY AnsweredIs
<1>2. CASE OwnersBearer(q)
  BY <1>1, <1>2 DEF OwnersBearer, Entitled
<1>3. CASE q.route \in {"clip", "job"} /\ SmokeBearer(q) /\ smokeUrlIs(aboutOf(q))
  BY <1>1, <1>3 DEF SmokeBearer, smokeUrlIs, Entitled
<1>4. CASE /\ q.route \in {"article", "catalog"} /\ answer.effect = "read"
           /\ OwnersBasic(q)
  BY <1>1, <1>4 DEF OwnersBasic, Entitled, ProgramRoutes
<1>5. CASE /\ q.route \in {"article", "catalog"} /\ answer.effect = "read"
           /\ SmokeBasic(q) /\ smokeMayReadArticle(q.id)
  <2>1. aboutOf(q) = q.id
    BY <1>5 DEF aboutOf
  <2>2. env.smokeUrl # NoAddress /\ env.smokeUrl \in {a.about, a.source}
    BY <1>1, <1>5, <2>1, SmokeArticleIs
  <2> QED
    BY <1>1, <1>5, <2>2 DEF SmokeBasic, Entitled
<1>6. CASE q.route \in pageRoutes /\ answer.effect = "read" /\ q.email # ""
  BY <1>1, <1>6 DEF Entitled
<1>7. CASE q.route \notin ProgramRoutes /\ PersonOfPage(q)
  BY <1>1, <1>7 DEF PersonOfPage, Entitled
<1> QED
  BY <1>2, <1>3, <1>4, <1>5, <1>6, <1>7 DEF AnswerFits, ProgramRoutes

\* The credentials are those of the environment, which never changes.
LEMMA PrincipalStays ==
    ASSUME NEW q, UNCHANGED env
    PROVE  articlePrincipal(q)' = articlePrincipal(q)
  BY DEF articlePrincipal, resolveClipPrincipal, resolveOpdsPrincipal, resolvePrincipal,
         clipTokenAuthorized

\* A book that is uploaded takes the place of no other.
LEMMA UploadSparesOthers ==
    ASSUME RouteInvariant,
           shelf' \in {shelf, [shelf EXCEPT ![Purchased] = Purchased]}
    PROVE  /\ shelf' \in [Addresses -> Addresses \union {NoAddress}]
           /\ shelf'[Purchased] \in {NoAddress, Purchased}
           /\ \A id \in Addresses : shelf[id] # NoAddress => shelf'[id] = shelf[id]
  BY AddressesAreNamed DEF RouteInvariant

\* A request is handled.
LEMMA HandleKeeps ==
    ASSUME RouteInvariant, NEW q \in Calls, answered = NoAnswer, Handle(q)
    PROVE  RouteInvariant'
<1>1. PICK answer \in answersOf(q) :
        /\ answer.effect # "none"
        /\ IF answer.effect = "go_on"
           THEN /\ checked' = [route |-> q.route, q |-> q, overtaken |-> FALSE]
                /\ UNCHANGED answered
           ELSE Answered(q, aboutOf(q), answer.effect) /\ UNCHANGED checked
        /\ shelf' = IF answer.effect = "store"
                    THEN [shelf EXCEPT ![Purchased] = Purchased] ELSE shelf
  BY DEF Handle
<1>2. UNCHANGED env /\ (q.route \in articleRoutes => checked = NoCheck)
  BY DEF Handle
<1>3. AnswerFits(q, answer)
  BY <1>1, HandledFits
<1>4. /\ shelf' \in [Addresses -> Addresses \union {NoAddress}]
      /\ shelf'[Purchased] \in {NoAddress, Purchased}
      /\ \A id \in Addresses : shelf[id] # NoAddress => shelf'[id] = shelf[id]
  <2>1. shelf' \in {shelf, [shelf EXCEPT ![Purchased] = Purchased]}
    BY <1>1
  <2> QED
    BY <2>1, UploadSparesOthers
<1>5. CASE answer.effect = "go_on"
  <2>1. q.route \in articleRoutes /\ shelf' = shelf /\ answered' = NoAnswer
    BY <1>1, <1>3, <1>5 DEF AnswerFits
  <2>2. checked' = [route |-> q.route, q |-> q, overtaken |-> FALSE]
    BY <1>1, <1>5
  <2>3. /\ checked' \in [route: articleRoutes, q: Calls, overtaken: BOOLEAN]
        /\ checked'.route = q.route /\ checked'.q = q
    BY <2>1, <2>2
  <2>4. articlePrincipal(q) = "smoke" =>
            env.smokeUrl # NoAddress /\ smokeMayReadArticle(q.id)
    BY <1>3, <2>1, SmokeArticleIs DEF AnswerFits
  <2>5. smokeMayReadArticle(q.id)' = smokeMayReadArticle(q.id)
    BY <1>2, <2>1 DEF smokeMayReadArticle, isStored, articleMatchesSmokeUrl, smokeUrlIs
  <2>6. articlePrincipal(q)' = articlePrincipal(q)
    BY <1>2, PrincipalStays
  <2>7. CheckFits(checked)'
    BY <1>2, <1>3, <2>1, <2>3, <2>4, <2>5, <2>6 DEF CheckFits, AnswerFits
  <2> QED
    BY <1>2, <1>4, <2>1, <2>3, <2>7 DEF RouteInvariant, RoutesGuardWhatTheyChange
<1>6. CASE answer.effect # "go_on"
  <2>1. /\ Answered(q, aboutOf(q), answer.effect) /\ checked' = checked
        /\ q.route \in Routes \ articleRoutes
    BY <1>1, <1>3, <1>6, CallsHaveRoutes DEF AnswerFits
  <2>2. Entitled(answered)'
    BY <1>2, <1>3, <2>1, AnswerIsEntitled
  <2>3. ASSUME checked # NoCheck
        PROVE  CheckFits(checked)'
    <3>1. CheckFits(checked)
      BY <2>3 DEF RouteInvariant
    <3>2. articlePrincipal(checked.q) = "smoke" /\ smokeMayReadArticle(checked.q.id) =>
              smokeMayReadArticle(checked.q.id)'
      BY <1>2, <1>4, <2>1
         DEF smokeMayReadArticle, isStored, articleMatchesSmokeUrl, smokeUrlIs
    <3>3. articlePrincipal(checked.q)' = articlePrincipal(checked.q)
      BY <1>2, <2>1
         DEF articlePrincipal, resolveClipPrincipal, resolveOpdsPrincipal,
             resolvePrincipal, clipTokenAuthorized
    <3> QED
      BY <1>2, <2>1, <3>1, <3>2, <3>3 DEF CheckFits
  <2> QED
    BY <1>2, <1>4, <2>1, <2>2, <2>3 DEF RouteInvariant, RoutesGuardWhatTheyChange
<1> QED
  BY <1>5, <1>6

\* The book that was asked for is read or deleted, by whom the check let in.
LEMMA ActKeeps ==
    ASSUME RouteInvariant, ActOnArticle
    PROVE  RouteInvariant'
<1>1. /\ checked \in [route: articleRoutes, q: Calls, overtaken: BOOLEAN]
      /\ CheckFits(checked) /\ checked' = NoCheck /\ UNCHANGED env
      /\ answered = NoAnswer
  BY DEF ActOnArticle, RouteInvariant
<1> DEFINE q == checked.q
           done == IF checked.route = "delete" THEN "delete" ELSE "read"
<1>2. CASE ~isStored(q.id)
  <2>1. UNCHANGED <<answered, shelf>>
    BY <1>2 DEF ActOnArticle
  <2> QED
    BY <1>1, <2>1 DEF RouteInvariant, RoutesGuardWhatTheyChange
<1>3. CASE isStored(q.id)
  <2>1. /\ Answered(q, q.id, done)
        /\ shelf' = IF checked.route = "delete"
                    THEN [shelf EXCEPT ![q.id] = NoAddress] ELSE shelf
    BY <1>3 DEF ActOnArticle
  <2>2. /\ shelf' \in [Addresses -> Addresses \union {NoAddress}]
        /\ shelf'[Purchased] \in {NoAddress, Purchased}
    BY <1>3, <2>1, AddressesAreNamed DEF RouteInvariant, isStored
  <2>3. /\ answered'.route = q.route /\ answered'.scheme = q.scheme
        /\ answered'.secret = q.secret /\ answered'.about = q.id
        /\ answered'.source = shelf[q.id] /\ answered'.effect = done
        /\ answered'.overtaken = (checked.route = q.route /\ checked.overtaken)
    BY <1>3, <2>1, AnsweredIs
  <2>4. checked.route = q.route /\ q.route \in articleRoutes
    BY <1>1 DEF CheckFits
  <2>5. done = "read" \/ q.route = "delete"
    BY <2>4
  <2>6. \/ q.route = "delete" /\ OwnersBearer(q)
        \/ q.route # "delete" /\ OwnersBasic(q)
        \/ /\ \/ q.route = "delete" /\ SmokeBearer(q)
              \/ q.route # "delete" /\ SmokeBasic(q)
           /\ env.smokeUrl # NoAddress
           /\ checked.overtaken \/ smokeMayReadArticle(q.id)
    BY <1>1, <2>4, ClipPrincipalIs, OpdsPrincipalIs DEF CheckFits, articlePrincipal
  <2>7. checked.overtaken => answered'.overtaken
    BY <2>3, <2>4
  <2>8. smokeMayReadArticle(q.id) => env.smokeUrl \in {answered'.about, answered'.source}
    BY <2>3, SmokeArticleIs
  <2>9. Entitled(answered)'
    <3>1. CASE q.route = "delete" /\ OwnersBearer(q)
      BY <1>1, <2>3, <3>1 DEF OwnersBearer, Entitled
    <3>2. CASE q.route # "delete" /\ OwnersBasic(q)
      BY <1>1, <2>3, <2>4, <2>5, <3>2 DEF OwnersBasic, Entitled, ProgramRoutes
    <3>3. CASE /\ (q.route = "delete" /\ SmokeBearer(q)) \/ (q.route # "delete" /\ SmokeBasic(q))
               /\ env.smokeUrl # NoAddress
               /\ checked.overtaken \/ smokeMayReadArticle(q.id)
      <4>1. env.smokeUrl \in {answered'.about, answered'.source} \/ answered'.overtaken
        BY <2>7, <2>8, <3>3
      <4>2. \/ /\ answered'.scheme = "bearer" /\ answered'.secret = env.smokeToken
               /\ answered'.route = "delete"
            \/ /\ answered'.scheme = "basic" /\ answered'.secret = env.smokeOpds
               /\ answered'.effect = "read"
        BY <2>3, <2>5, <3>3 DEF SmokeBearer, SmokeBasic
      <4>3. answered'.secret # ""
        BY <2>3, <3>3 DEF SmokeBearer, SmokeBasic
      <4> QED
        BY <1>1, <3>3, <4>1, <4>2, <4>3 DEF Entitled
    <3> QED
      BY <2>6, <3>1, <3>2, <3>3
  <2> QED
    BY <1>1, <2>2, <2>9 DEF RouteInvariant, RoutesGuardWhatTheyChange
<1> QED
  BY <1>2, <1>3

\* The consumer stores an article: the check of the one it replaces is marked.
LEMMA StoredKeeps ==
    ASSUME RouteInvariant, NEW source \in Addresses,
           NEW canonical \in Addresses \ {Purchased}, ArticleStored(source, canonical)
    PROVE  RouteInvariant'
<1>1. /\ UNCHANGED <<env, answered>> /\ answered = NoAnswer
      /\ shelf' = [shelf EXCEPT ![canonical] = source]
      /\ checked' = IF checked # NoCheck /\ checked.q.id = canonical
                    THEN [checked EXCEPT !.overtaken = TRUE] ELSE checked
  BY DEF ArticleStored
<1>2. /\ shelf' \in [Addresses -> Addresses \union {NoAddress}]
      /\ shelf'[Purchased] \in {NoAddress, Purchased}
      /\ \A id \in Addresses : id # canonical => shelf'[id] = shelf[id]
  BY <1>1, AddressesAreNamed DEF RouteInvariant
<1>3. ASSUME checked # NoCheck
      PROVE  /\ checked' \in [route: articleRoutes, q: Calls, overtaken: BOOLEAN]
             /\ CheckFits(checked)'
  <2>1. /\ checked \in [route: articleRoutes, q: Calls, overtaken: BOOLEAN]
        /\ CheckFits(checked)
    BY <1>3 DEF RouteInvariant
  <2>2. /\ checked' \in [route: articleRoutes, q: Calls, overtaken: BOOLEAN]
        /\ checked'.route = checked.route /\ checked'.q = checked.q
        /\ checked.overtaken => checked'.overtaken
        /\ checked'.overtaken \/ checked.q.id # canonical
    <3>1. CASE checked.q.id = canonical
      <4>1. checked' = [checked EXCEPT !.overtaken = TRUE]
        BY <1>1, <1>3, <3>1
      <4> QED
        BY <2>1, <4>1
    <3>2. CASE checked.q.id # canonical
      <4>1. checked' = checked
        BY <1>1, <3>2
      <4> QED
        BY <2>1, <3>2, <4>1
    <3> QED
      BY <3>1, <3>2
  <2>3. articlePrincipal(checked.q)' = articlePrincipal(checked.q)
    BY <1>1, <2>2
       DEF articlePrincipal, resolveClipPrincipal, resolveOpdsPrincipal,
           resolvePrincipal, clipTokenAuthorized
  <2>4. checked.q.id # canonical /\ smokeMayReadArticle(checked.q.id) =>
            smokeMayReadArticle(checked.q.id)'
    BY <1>1, <1>2, <2>2
       DEF smokeMayReadArticle, isStored, articleMatchesSmokeUrl, smokeUrlIs
  <2> QED
    BY <1>1, <2>1, <2>2, <2>3, <2>4 DEF CheckFits
<1>4. checked = NoCheck => checked' = NoCheck
  BY <1>1
<1> QED
  BY <1>1, <1>2, <1>3, <1>4 DEF RouteInvariant, RoutesGuardWhatTheyChange

\* What was asked for passed the refusals, and an article that was looked at
\* is the one that was, unless it is marked.
THEOREM RouteInvariantHolds == RouteSpec => []RouteInvariant
<1>1. RouteInit => RouteInvariant
  BY AddressesAreNamed
     DEF RouteInit, RouteInvariant, RoutesGuardWhatTheyChange
<1>2. RouteInvariant /\ [RouteNext]_routeVars => RouteInvariant'
  <2> SUFFICES ASSUME RouteInvariant, [RouteNext]_routeVars
               PROVE  RouteInvariant'
    OBVIOUS
  <2>1. ASSUME UNCHANGED <<env, shelf, checked>>,
               answered' \in {answered, NoAnswer}
        PROVE  RouteInvariant'
    <3>1. CheckFits(checked) => CheckFits(checked)'
      BY <2>1
         DEF CheckFits, smokeMayReadArticle, isStored, articleMatchesSmokeUrl,
             smokeUrlIs, articlePrincipal, resolveClipPrincipal,
             resolveOpdsPrincipal, resolvePrincipal, clipTokenAuthorized
    <3>2. RoutesGuardWhatTheyChange'
      BY <2>1 DEF RouteInvariant, RoutesGuardWhatTheyChange, Entitled
    <3> QED
      BY <2>1, <3>1, <3>2 DEF RouteInvariant
  <2>2. CASE AnswerTaken
    BY <2>1, <2>2 DEF AnswerTaken
  <2>3. CASE UNCHANGED routeVars
    BY <2>1, <2>3 DEF routeVars
  <2> QED
    BY <2>2, <2>3, HandleKeeps, ActKeeps, StoredKeeps DEF RouteNext
<1> QED
  BY <1>1, <1>2, PTL DEF RouteSpec

\* Nobody is answered who was not entitled to it, whatever the secrets are and
\* whatever is sent, but for an article that was replaced after its check.
THEOREM RoutesGuard == RouteSpec => []RoutesGuardWhatTheyChange
<1>1. RouteInvariant => RoutesGuardWhatTheyChange
  BY DEF RouteInvariant
<1> QED
  BY <1>1, RouteInvariantHolds, PTL


\* A handler that never queues anything: no answer of it does.
LEMMA NothingQueued ==
    ASSUME NEW returns, NEW answers, \A a \in answers : a.effect # "enqueue",
           NEW answer \in Guarded(returns, answers)
    PROVE  answer.effect # "enqueue"
BY GuardPasses

\* What is queued has an address: the handlers that queue refuse the others.
LEMMA QueuedIsNamed ==
    ASSUME NEW q \in Calls, NEW answer \in answersOf(q), answer.effect = "enqueue"
    PROVE  aboutOf(q) # NoAddress
<1>1. q.route \in Routes
  BY CallsHaveRoutes
<1>2. CASE q.route = "clip"
  <2> DEFINE who == resolveClipPrincipal(q)
             url == parseClipShareText(q.body)
             unnamed == url = NoAddress
             returns == <<<<who = "nobody", 401>>, unreadable(q), <<unnamed, 400>>,
                          <<who = "smoke" /\ ~smokeUrlIs(url), 403>>>>
  <2>1. answersOf(q) = clip(q)
    BY <1>2 DEF answersOf, articleRoutes, pageRoutes
  <2>2. answer \in Guarded(returns, Enqueued)
    BY <2>1 DEF clip
  <2>3. 3 \in DOMAIN returns /\ returns[3] = <<unnamed, 400>> /\ unnamed \in BOOLEAN
    OBVIOUS
  <2> HIDE DEF returns, unnamed
  <2>4. ~unnamed
    BY <2>2, <2>3, Passes
  <2> QED
    BY <1>2, <2>4 DEF aboutOf, unnamed
<1>3. CASE q.route = "submit"
  <2> DEFINE unnamed == formUrl(q) = NoAddress
             returns == <<nobody(q), unreadable(q), csrfFailed(q), <<q.body.secret, 400>>,
                          <<unnamed, 400>>>>
  <2>1. answersOf(q) = submitClip(q)
    BY <1>3 DEF answersOf, articleRoutes, pageRoutes
  <2>2. answer \in Guarded(returns, Enqueued)
    BY <2>1 DEF submitClip
  <2>3. 5 \in DOMAIN returns /\ returns[5] = <<unnamed, 400>> /\ unnamed \in BOOLEAN
    OBVIOUS
  <2> HIDE DEF returns, unnamed
  <2>4. ~unnamed
    BY <2>2, <2>3, Passes
  <2> QED
    BY <1>3, <2>4 DEF aboutOf, unnamed
<1>4. CASE q.route = "send"
  <2> DEFINE unnamed == q.id = NoAddress
             returns == <<nobody(q), unknownId(q), <<~q.json /\ ~q.readable, 400>>, csrfFailed(q)>>
             answers == {Answer(404, "none"), Reply303(q, 409, "none"),
                         Reply303(q, 503, "enqueue"), Reply303(q, 200, "candidate"),
                         Reply303(q, 202, "enqueue")}
  <2>1. answersOf(q) = sendCandidate(q)
    BY <1>4 DEF answersOf, articleRoutes, pageRoutes
  <2>2. answer \in Guarded(returns, answers)
    BY <2>1 DEF sendCandidate
  <2>3. 2 \in DOMAIN returns /\ returns[2] = <<unnamed, 404>> /\ unnamed \in BOOLEAN
    BY DEF unknownId
  <2> HIDE DEF returns, unnamed, answers
  <2>4. ~unnamed
    BY <2>2, <2>3, Passes
  <2> QED
    BY <1>4, <2>4 DEF aboutOf, unnamed
<1>5. CASE q.route \in articleRoutes \union pageRoutes
  <2>1. answersOf(q) \in {checkArticle(q), showPage(q)}
    BY <1>5 DEF answersOf, articleRoutes, pageRoutes
  <2>2. answer \notin checkArticle(q) /\ answer \notin showPage(q)
    BY NothingQueued, AnswerEffect DEF checkArticle, showPage
  <2> QED
    BY <2>1, <2>2
<1>6. CASE q.route \in {"job", "article", "catalog", "logout", "show"}
  <2>1. answersOf(q) \in {getClipJob(q), getArticle(q), opdsCatalog(q), logout(q), showClip(q)}
    BY <1>6 DEF answersOf, articleRoutes, pageRoutes
  <2>2. /\ answer \notin getClipJob(q) /\ answer \notin getArticle(q)
        /\ answer \notin opdsCatalog(q)
        /\ answer \notin logout(q) /\ answer \notin showClip(q)
    BY NothingQueued, AnswerEffect
       DEF getClipJob, getArticle, opdsCatalog, logout, showClip
  <2> QED
    BY <2>1, <2>2
<1>7. CASE q.route \in {"upload", "recommend", "register", "collect"}
  <2>1. answersOf(q) \in {uploadBook(q), recommendCandidate(q), registerRoute(q),
                          collectEnabled(q)}
    BY <1>7 DEF answersOf, articleRoutes, pageRoutes
  <2>2. /\ answer \notin uploadBook(q) /\ answer \notin recommendCandidate(q)
        /\ answer \notin registerRoute(q) /\ answer \notin collectEnabled(q)
    BY NothingQueued, AnswerEffect, ReplyEffect
       DEF uploadBook, recommendCandidate, registerRoute, collectEnabled
  <2> QED
    BY <2>1, <2>2
<1>8. CASE q.route \in {"create", "collect_one", "update", "digest"}
  <2>1. answersOf(q) \in {createSource(q), collectOne(q), updateSource(q), digestNow(q)}
    BY <1>8 DEF answersOf, articleRoutes, pageRoutes
  <2>2. /\ answer \notin createSource(q) /\ answer \notin collectOne(q)
        /\ answer \notin updateSource(q) /\ answer \notin digestNow(q)
    BY NothingQueued, AnswerEffect, ReplyEffect
       DEF createSource, collectOne, updateSource, digestNow
  <2> QED
    BY <2>1, <2>2
<1> QED
  BY <1>1, <1>2, <1>3, <1>4, <1>5, <1>6, <1>7, <1>8 DEF Routes

\* The routes keep their types: only articles with an address are queued.
THEOREM RouteTypeCorrect == RouteSpec => []RouteTypeOK
<1> DEFINE Named == clipped \subseteq Addresses
<1>1. RouteInit => Named
  BY DEF RouteInit
<1>2. Named /\ [RouteNext]_routeVars => Named'
  <2> SUFFICES ASSUME Named, [RouteNext]_routeVars
               PROVE  Named'
    OBVIOUS
  <2>1. ASSUME NEW q \in Calls, Handle(q)
        PROVE  Named'
    <3>1. PICK answer \in answersOf(q) :
            clipped' = IF answer.effect = "enqueue" THEN clipped \union {aboutOf(q)}
                       ELSE clipped
      BY <2>1 DEF Handle
    <3>2. answer.effect = "enqueue" => aboutOf(q) \in Addresses
      BY CallsNameAddresses, QueuedIsNamed
    <3> QED
      BY <3>1, <3>2
  <2>2. CASE UNCHANGED clipped
    BY <2>2
  <2> QED
    BY <2>1, <2>2 DEF RouteNext, ActOnArticle, ArticleStored, AnswerTaken, routeVars
<1>3. RouteInvariant /\ Named => RouteTypeOK
  BY DEF RouteInvariant, RouteTypeOK
<1> HIDE DEF Named
<1> QED
  BY <1>1, <1>2, <1>3, RouteInvariantHolds, PTL DEF RouteSpec

-----------------------------------------------------------------------------
(***************************************************************************)
(* The links of an issue (DigestInterest): for any number of items, dates  *)
(* and requests under way, a recorded fetch is earned, and so is what the  *)
(* next issue concludes from it.                                           *)
(*                                                                         *)
(* LikesAreEarned is not inductive by itself: the record is written three  *)
(* steps after the link was verified.  EarnedPosts carries what the        *)
(* verification established along with the request.                        *)
(***************************************************************************)
Instants == 0..LastInstant

PostRequests ==
    [step : {"send", "check", "prior", "insert", "readback"},
     date : Dates, item : Items, at : Instants]

RequestsTyped == posts \in [Posts -> PostRequests \union {noPost}]

\* What a request knows: its link was printed, it had not expired when the
\* request came, and after the send its article was sent.
EarnedPost(req, links, done) ==
    req # noPost =>
        /\ linkOf(req) \in links
        /\ req.at < digestQrExpiresAt(req.date)
        /\ req.step # "send" => req.item \in done

EarnedPosts == \A p \in Posts : EarnedPost(posts[p], printed, sent)

InterestInvariant ==
    InterestTypeOK /\ RequestsTyped /\ EarnedPosts /\ LikesAreEarned

-----------------------------------------------------------------------------
\* An issue's links expire at an instant of their own.
LEMMA ExpiryOfOneDate ==
    ASSUME NEW d \in Dates, NEW e \in Dates,
           digestQrExpiresAt(d) = digestQrExpiresAt(e)
    PROVE  d = e
<1> DEFINE x == d + LinkDays
           y == e + LinkDays
<1>1. x \in Nat /\ y \in Nat /\ DayLength \in Nat \ {0}
  BY InterestConstants
<1>2. x * DayLength = y * DayLength
  BY DEF digestQrExpiresAt
<1>3. x = y
  <2> HIDE DEF x, y
  <2>1. ASSUME NEW a \in Nat, NEW b \in Nat, a < b
        PROVE  a * DayLength # b * DayLength
    <3>1. b * DayLength = a * DayLength + (b - a) * DayLength
      BY <1>1, <2>1
    <3>2. b - a \in Nat \ {0}
      BY <2>1
    <3>3. (b - a) * DayLength > 0
      BY <1>1, <3>2
    <3>4. a * DayLength \in Nat /\ (b - a) * DayLength \in Int
      BY <1>1, <2>1
    <3>5. QED  BY <3>1, <3>3, <3>4
  <2>2. x < y \/ y < x \/ x = y
    BY <1>1
  <2>3. QED  BY <1>1, <1>2, <2>1, <2>2
<1>4. QED
  BY <1>1, <1>3, InterestConstants

\* An expiry is a natural number.
LEMMA ExpiryIsNat ==
    ASSUME NEW d \in Dates
    PROVE  digestQrExpiresAt(d) \in Nat
  BY InterestConstants DEF digestQrExpiresAt

\* Confirm verifies the very link that was printed: the date it takes from
\* the expiry is the date the link was signed for.
LEMMA ConfirmTakesThePrintedLink ==
    ASSUME NEW l \in Links, NEW i \in Items, NEW e \in Dates, NEW d \in Dates,
           verifyDigestQrToken(i, digestQrExpiresAt(e),
               signDigestQrToken(l[2], digestQrExpiresAt(l[1])), clock) = "ok",
           d \in issueDateFromDigestQrExpires(digestQrExpiresAt(e)),
           clock \in Nat
    PROVE  <<d, i>> = l /\ clock < digestQrExpiresAt(d)
<1>1. l[1] \in Dates /\ l[2] \in Items /\ l = <<l[1], l[2]>>
  BY DEF Links
<1>2. /\ i = l[2] /\ digestQrExpiresAt(e) = digestQrExpiresAt(l[1])
      /\ ~(clock >= digestQrExpiresAt(e))
  BY DEF verifyDigestQrToken, signDigestQrToken
<1>3. digestQrExpiresAt(d) = digestQrExpiresAt(e)
  BY DEF issueDateFromDigestQrExpires
<1>4. d = l[1]
  BY <1>1, <1>2, <1>3, ExpiryOfOneDate
<1>5. digestQrExpiresAt(d) \in Nat
  BY ExpiryIsNat
<1>6. QED
  BY <1>1, <1>2, <1>3, <1>4, <1>5

\* A link is its date and its item.
LEMMA LinkOfRequest ==
    ASSUME NEW req \in PostRequests
    PROVE  /\ linkOf(req) \in Links
           /\ linkOf(req)[1] = req.date /\ linkOf(req)[2] = req.item
           /\ req.at \in Nat /\ req.at # Never
  BY DEF PostRequests, linkOf, Links, Instants, Never

-----------------------------------------------------------------------------
\* Initially nothing was printed, sent or recorded.
LEMMA InterestInvariantInit == InterestInit => InterestInvariant
<1> SUFFICES ASSUME InterestInit PROVE InterestInvariant
  OBVIOUS
<1>1. InterestTypeOK
  BY InterestConstants DEF InterestInit, InterestTypeOK, Links, Never
<1>2. RequestsTyped
  BY DEF InterestInit, RequestsTyped
<1>3. EarnedPosts /\ LikesAreEarned
  BY DEF InterestInit, EarnedPosts, EarnedPost, LikesAreEarned
<1>4. QED
  BY <1>1, <1>2, <1>3 DEF InterestInvariant

\* A step that moves one request to one that is earned, and takes nothing
\* from what was printed and sent, keeps the requests typed and earned.
LEMMA OnePostMoves ==
    ASSUME InterestInvariant, NEW p \in Posts,
           NEW req \in PostRequests \union {noPost},
           GoPost(p, req), EarnedPost(req, printed', sent'),
           printed \subseteq printed', sent \subseteq sent'
    PROVE  /\ RequestsTyped' /\ EarnedPosts'
           /\ \A q \in Posts : posts'[q] = noPost \/ linkOf(posts'[q]) \in Links
<1>1. posts' \in [Posts -> PostRequests \union {noPost}]
  BY DEF InterestInvariant, RequestsTyped, GoPost
<1>2. \A q \in Posts : posts'[q] = (IF q = p THEN req ELSE posts[q])
  BY DEF InterestInvariant, RequestsTyped, GoPost
<1>3. \A q \in Posts : EarnedPost(posts'[q], printed', sent')
  <2> SUFFICES ASSUME NEW q \in Posts PROVE EarnedPost(posts'[q], printed', sent')
    OBVIOUS
  <2>1. CASE q = p
    BY <1>2, <2>1
  <2>2. CASE q # p
    BY <1>2, <2>2 DEF EarnedPost, InterestInvariant, EarnedPosts
  <2>3. QED  BY <2>1, <2>2
<1>4. QED
  BY <1>1, <1>3, LinkOfRequest DEF RequestsTyped, EarnedPosts

\* The requests are untouched by time and by a new issue.
LEMMA PostsStay ==
    ASSUME InterestInvariant, UNCHANGED <<likes, sent, posts>>,
           printed \subseteq printed'
    PROVE  RequestsTyped' /\ EarnedPosts' /\ LikesAreEarned'
  BY DEF InterestInvariant, RequestsTyped, EarnedPosts, EarnedPost, LikesAreEarned

\* Each request that is moved within its steps keeps its link.
LEMMA StepOfRequest ==
    ASSUME NEW req \in PostRequests,
           NEW s \in {"check", "prior", "insert", "readback"}
    PROVE  LET moved == [req EXCEPT !.step = s]
           IN  /\ moved \in PostRequests
               /\ moved.step = s /\ moved.date = req.date
               /\ moved.item = req.item /\ moved.at = req.at
               /\ linkOf(moved) = linkOf(req)
  BY DEF PostRequests, linkOf

\* noPost is not a request under way.
LEMMA IdleIsNoRequest == noPost \notin PostRequests /\ noPost.step = "idle"
  BY DEF noPost, PostRequests

-----------------------------------------------------------------------------
\* Every step of the requests, of time and of the issues keeps the invariant.
LEMMA InterestInvariantKept ==
    InterestInvariant /\ [InterestNext]_interestVars => InterestInvariant'
<1> SUFFICES ASSUME InterestInvariant, [InterestNext]_interestVars
             PROVE  InterestInvariant'
  OBVIOUS
<1> USE DEF InterestInvariant
<1>1. CASE UNCHANGED interestVars
  <2>1. RequestsTyped' /\ EarnedPosts' /\ LikesAreEarned'
    BY <1>1, PostsStay DEF interestVars
  <2>2. InterestTypeOK'
    BY <1>1 DEF interestVars, InterestTypeOK
  <2>3. QED  BY <2>1, <2>2
<1>2. CASE Tick
  <2>1. RequestsTyped' /\ EarnedPosts' /\ LikesAreEarned'
    BY <1>2, PostsStay DEF Tick
  <2>2. InterestTypeOK'
    BY <1>2, InterestConstants DEF Tick, InterestTypeOK
  <2>3. QED  BY <2>1, <2>2
<1>3. ASSUME NEW d \in Dates, NEW items \in Contents, Publish(d, items)
      PROVE  InterestInvariant'
  <2>1. RequestsTyped' /\ EarnedPosts' /\ LikesAreEarned'
    BY <1>3, PostsStay DEF Publish
  <2>2. InterestTypeOK'
    BY <1>3, InterestConstants DEF Publish, InterestTypeOK, Links
  <2>3. QED  BY <2>1, <2>2
<1>4. ASSUME NEW p \in Posts, NEW l \in printed, NEW i \in Items, NEW e \in Dates,
             Confirm(p, i, digestQrExpiresAt(e),
                     signDigestQrToken(l[2], digestQrExpiresAt(l[1])))
      PROVE  InterestInvariant'
  <2>1. PICK d \in issueDateFromDigestQrExpires(digestQrExpiresAt(e)) :
            GoPost(p, [noPost EXCEPT !.step = "send", !.date = d,
                                     !.item = i, !.at = clock])
    BY <1>4 DEF Confirm, GoPost
  <2> DEFINE req == [noPost EXCEPT !.step = "send", !.date = d, !.item = i, !.at = clock]
  <2>2. d \in Dates /\ l \in Links /\ clock \in Instants /\ clock \in Nat
    BY InterestConstants DEF issueDateFromDigestQrExpires, InterestTypeOK, Instants
  <2>3. <<d, i>> = l /\ clock < digestQrExpiresAt(d)
    BY <1>4, <2>2, ConfirmTakesThePrintedLink DEF Confirm
  <2>4. /\ req \in PostRequests /\ req.step = "send" /\ req.date = d
        /\ req.item = i /\ req.at = clock
    BY <2>2 DEF noPost, PostRequests
  <2>5. UNCHANGED <<clock, published, printed, likes, sent>>
    BY <1>4 DEF Confirm
  <2>6. EarnedPost(req, printed', sent')
    BY <2>3, <2>4, <2>5 DEF EarnedPost, linkOf
  <2>7. /\ RequestsTyped' /\ EarnedPosts'
        /\ \A q \in Posts : posts'[q] = noPost \/ linkOf(posts'[q]) \in Links
    <3> HIDE DEF req
    <3>1. GoPost(p, req)
      BY <2>1 DEF req
    <3>2. QED  BY <2>4, <2>5, <2>6, <3>1, OnePostMoves
  <2>8. QED
    BY <2>5, <2>7 DEF InterestTypeOK, LikesAreEarned
<1>5. ASSUME NEW p \in Posts,
             \/ SendClip(p) \/ CheckPublished(p) \/ CheckPrior(p)
             \/ InsertOrIgnore(p) \/ ReadBack(p)
      PROVE  InterestInvariant'
  <2>1. posts[p] \in PostRequests /\ posts[p] # noPost
    BY <1>5, IdleIsNoRequest DEF RequestsTyped, SendClip, CheckPublished,
       CheckPrior, InsertOrIgnore, ReadBack
  <2>2. EarnedPost(posts[p], printed, sent)
    BY DEF EarnedPosts
  <2>3. /\ UNCHANGED <<clock, published, printed>> /\ sent \subseteq sent'
        /\ sent' \subseteq Items
    BY <1>5, <2>1 DEF SendClip, CheckPublished, CheckPrior, InsertOrIgnore,
       ReadBack, InterestTypeOK, PostRequests
  <2>4. PICK req \in PostRequests \union {noPost} :
            GoPost(p, req) /\ EarnedPost(req, printed', sent')
    <3>1. CASE \E s \in {"check", "prior", "insert", "readback"} :
                 /\ GoPost(p, [posts[p] EXCEPT !.step = s])
                 /\ posts[p].item \in sent'
      <4>1. PICK s \in {"check", "prior", "insert", "readback"} :
                /\ GoPost(p, [posts[p] EXCEPT !.step = s])
                /\ posts[p].item \in sent'
        BY <3>1
      <4> DEFINE moved == [posts[p] EXCEPT !.step = s]
      <4>2. /\ moved \in PostRequests /\ moved.step = s /\ moved.date = posts[p].date
            /\ moved.item = posts[p].item /\ moved.at = posts[p].at
            /\ linkOf(moved) = linkOf(posts[p])
        BY <2>1, StepOfRequest
      <4>3. GoPost(p, moved)
        BY <4>1
      <4> HIDE DEF moved
      <4>4. EarnedPost(moved, printed', sent')
        BY <2>1, <2>2, <2>3, <4>1, <4>2 DEF EarnedPost
      <4>5. QED  BY <4>2, <4>3, <4>4
    <3>2. CASE GoPost(p, noPost)
      BY <3>2 DEF EarnedPost
    <3>3. CASE SendClip(p)
      <4>1. \/ GoPost(p, [posts[p] EXCEPT !.step = "check"]) /\ posts[p].item \in sent'
            \/ GoPost(p, noPost)
        BY <3>3 DEF SendClip
      <4>2. QED  BY <3>1, <3>2, <4>1
    <3>4. ASSUME ~SendClip(p) PROVE posts[p].item \in sent'
      BY <1>5, <2>1, <2>2, <2>3, <3>4 DEF EarnedPost, CheckPublished, CheckPrior,
         InsertOrIgnore, ReadBack
    <3>5. CASE CheckPublished(p)
      BY <3>1, <3>2, <3>4, <3>5 DEF CheckPublished, SendClip
    <3>6. CASE CheckPrior(p)
      BY <3>1, <3>2, <3>4, <3>6 DEF CheckPrior, SendClip
    <3>7. CASE InsertOrIgnore(p) \/ ReadBack(p)
      BY <3>1, <3>2, <3>4, <3>7 DEF InsertOrIgnore, ReadBack, SendClip
    <3>8. QED
      BY <1>5, <3>3, <3>5, <3>6, <3>7
  <2>5. /\ RequestsTyped' /\ EarnedPosts'
        /\ \A q \in Posts : posts'[q] = noPost \/ linkOf(posts'[q]) \in Links
    BY <2>3, <2>4, OnePostMoves
  <2>6. likes' \in [Links -> Instants \union {Never}] /\ LikesAreEarned'
    <3>1. CASE UNCHANGED likes
      BY <2>3, <3>1 DEF InterestTypeOK, Instants, LikesAreEarned
    <3>2. CASE InsertOrIgnore(p)
      <4>1. /\ linkOf(posts[p]) \in Links
            /\ linkOf(posts[p])[1] = posts[p].date
            /\ linkOf(posts[p])[2] = posts[p].item
            /\ posts[p].at \in Instants
        BY <2>1, LinkOfRequest DEF PostRequests
      <4>2. /\ linkOf(posts[p]) \in printed /\ posts[p].item \in sent
            /\ posts[p].at < digestQrExpiresAt(posts[p].date)
        BY <2>1, <2>2, <3>2 DEF EarnedPost, InsertOrIgnore
      <4>3. QED
        BY <2>3, <3>2, <4>1, <4>2 DEF InsertOrIgnore, InterestTypeOK, Instants,
           LikesAreEarned
    <3>3. QED
      BY <1>5, <3>1, <3>2 DEF SendClip, CheckPublished, CheckPrior, ReadBack
  <2>7. QED
    BY <2>3, <2>5, <2>6 DEF InterestTypeOK, Instants
<1>6. QED
  BY <1>1, <1>2, <1>3, <1>4, <1>5 DEF InterestNext

\* The invariant of the links of an issue.
LEMMA InterestInvariantHolds == InterestSpec => []InterestInvariant
  BY InterestInvariantInit, InterestInvariantKept, PTL DEF InterestSpec

-----------------------------------------------------------------------------
(***************************************************************************)
(* A fetch is on record only for a link that was printed, of an article    *)
(* that was sent, at an instant before the link expired (LikesAreEarned:   *)
(* handleDigestConfirm, recordPublishedQrFetch).                           *)
(***************************************************************************)
THEOREM RecordedFetchesAreEarned == InterestSpec => []LikesAreEarned
<1>1. InterestInvariant => LikesAreEarned
  BY DEF InterestInvariant
<1>2. QED
  BY <1>1, InterestInvariantHolds, PTL

\* The links, the records and the requests keep their types (InterestTypeOK).
THEOREM InterestIsTyped == InterestSpec => []InterestTypeOK
<1>1. InterestInvariant => InterestTypeOK
  BY DEF InterestInvariant
<1>2. QED
  BY <1>1, InterestInvariantHolds, PTL

-----------------------------------------------------------------------------
\* The items of a site that the past issues show.
EntriesOf(site) == {e \in joinDigestInterest : SiteOf[e.item] = site}

\* There are finitely many of them.
LEMMA FiniteEntries ==
    ASSUME NEW site
    PROVE  IsFiniteSet(EntriesOf(site))
<1> DEFINE shown == {k \in Links : k[2] \in published[k[1]]}
           entryOf == [l \in shown |->
               [date |-> l[1], item |-> l[2],
                label |-> IF likes[l] = Never THEN "ordinary_or_below"
                          ELSE "weak_positive"]]
<1>1. IsFiniteSet(Links)
  BY InterestConstants, FS_Product DEF Links
<1>2. IsFiniteSet(shown)
  BY <1>1, FS_Subset
<1>3. entryOf \in Surjection(shown, joinDigestInterest)
  BY DEF Surjection, joinDigestInterest
<1>4. IsFiniteSet(joinDigestInterest)
  BY <1>2, <1>3, FS_Surjection
<1>5. QED
  BY <1>4, FS_Subset DEF EntriesOf

(***************************************************************************)
(* What the next issue prefers or avoids is earned too (PriorIsEarned:     *)
(* digestSourceInterestPrior, interestDelta).                              *)
(***************************************************************************)
LEMMA PriorFollowsTheLinks == InterestTypeOK => PriorIsEarned
<1> SUFFICES ASSUME InterestTypeOK, NEW i \in Items
             PROVE
        LET shown == {l \in Links : SiteOf[l[2]] = SiteOf[i] /\ l[2] \in published[l[1]]}
        IN  /\ digestSourceInterestPrior(SiteOf[i]) = 1 =>
                    \E l \in shown : likes[l] # Never
            /\ digestSourceInterestPrior(SiteOf[i]) = -1 =>
                    \E l \in shown : likes[l] = Never /\ clock >= digestQrExpiresAt(l[1])
  BY DEF PriorIsEarned
<1> DEFINE site == SiteOf[i]
           liked == {e \in EntriesOf(site) : interestDelta(e) = 1}
           passed == {e \in EntriesOf(site) : interestDelta(e) = -1}
<1>1. /\ IsFiniteSet(liked) /\ IsFiniteSet(passed)
      /\ Cardinality(liked) \in Nat /\ Cardinality(passed) \in Nat
      /\ (Cardinality(liked) = 0 => liked = {})
      /\ (Cardinality(passed) = 0 => passed = {})
      /\ (liked = {} => Cardinality(liked) = 0)
      /\ (passed = {} => Cardinality(passed) = 0)
  BY FiniteEntries, FS_Subset, FS_CardinalityType, FS_EmptySet
<1>2. digestSourceInterestPrior(site) =
        IF Cardinality(liked) - Cardinality(passed) > 0 THEN 1
        ELSE IF Cardinality(liked) - Cardinality(passed) < 0 THEN -1 ELSE 0
  BY DEF digestSourceInterestPrior, EntriesOf
<1>3. ASSUME NEW e \in EntriesOf(site)
      PROVE  \E l \in Links :
                /\ SiteOf[l[2]] = site /\ l[2] \in published[l[1]]
                /\ e.date = l[1]
                /\ e.label = IF likes[l] = Never THEN "ordinary_or_below"
                             ELSE "weak_positive"
  BY DEF EntriesOf, joinDigestInterest
<1>4. ASSUME digestSourceInterestPrior(site) = 1 PROVE liked # {}
  BY <1>1, <1>2, <1>4
<1>5. ASSUME digestSourceInterestPrior(site) = -1 PROVE passed # {}
  BY <1>1, <1>2, <1>5
<1>6. ASSUME NEW e \in liked PROVE e.label = "weak_positive"
  BY DEF interestDelta
<1>7. ASSUME NEW e \in passed
      PROVE  e.label # "weak_positive" /\ ~(clock < digestQrExpiresAt(e.date))
  BY DEF interestDelta, digestQrWindowOpen
<1>8. ASSUME digestSourceInterestPrior(site) = 1
      PROVE  \E l \in Links : /\ SiteOf[l[2]] = site /\ l[2] \in published[l[1]]
                              /\ likes[l] # Never
  BY <1>3, <1>4, <1>6, <1>8
<1>9. ASSUME digestSourceInterestPrior(site) = -1
      PROVE  \E l \in Links : /\ SiteOf[l[2]] = site /\ l[2] \in published[l[1]]
                              /\ likes[l] = Never /\ clock >= digestQrExpiresAt(l[1])
  <2>1. PICK e \in passed : TRUE
    BY <1>5, <1>9
  <2>2. PICK l \in Links :
            /\ SiteOf[l[2]] = site /\ l[2] \in published[l[1]] /\ e.date = l[1]
            /\ e.label = IF likes[l] = Never THEN "ordinary_or_below"
                         ELSE "weak_positive"
    BY <1>3, <2>1
  <2>3. clock \in Nat /\ digestQrExpiresAt(l[1]) \in Nat
    <3>1. clock \in Nat
      BY InterestConstants DEF InterestTypeOK
    <3>2. l[1] \in Dates
      BY DEF Links
    <3>3. QED  BY <3>1, <3>2, ExpiryIsNat
  <2>4. QED
    BY <1>7, <2>1, <2>2, <2>3
<1>10. QED
  BY <1>8, <1>9

(***************************************************************************)
(* Both together: the records and what is concluded of them are earned     *)
(* (InterestIsEarned), for any number of items, issues and requests.       *)
(***************************************************************************)
THEOREM WhatIsLearntIsEarned == InterestSpec => []InterestIsEarned
<1>1. InterestInvariant => InterestIsEarned
  BY PriorFollowsTheLinks DEF InterestInvariant, InterestIsEarned
<1>2. QED
  BY <1>1, InterestInvariantHolds, PTL

(***************************************************************************)
(* No step moves or removes a recorded fetch (FirstFetchStays: INSERT OR   *)
(* IGNORE behind a check another request may have passed too).             *)
(***************************************************************************)
THEOREM RecordedFetchesStay == InterestSpec => FirstFetchStays
<1>1. InterestInvariant /\ [InterestNext]_interestVars =>
        [\A l \in Links : likes[l] # Never => likes'[l] = likes[l]]_likes
  <2> SUFFICES ASSUME InterestInvariant, InterestNext,
                      NEW l \in Links, likes[l] # Never
               PROVE  likes'[l] = likes[l]
    BY DEF interestVars
  <2>1. CASE UNCHANGED likes
    BY <2>1
  <2>2. CASE \E p \in Posts : InsertOrIgnore(p)
    BY <2>2 DEF InsertOrIgnore, InterestInvariant, InterestTypeOK
  <2>3. QED
    BY <2>1, <2>2 DEF InterestNext, Tick, Publish, Confirm, SendClip,
       CheckPublished, CheckPrior, ReadBack
<1>2. QED
  BY <1>1, InterestInvariantHolds, PTL DEF InterestSpec, FirstFetchStays
=============================================================================
