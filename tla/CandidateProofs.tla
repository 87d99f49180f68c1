-------------------------- MODULE CandidateProofs --------------------------
(***************************************************************************)
(* Proofs about the row of a candidate, for every number of requests, page *)
(* hashes, grades, runs and replies of Jev, and every bound on how many    *)
(* requests come: what the list offers, and what requests that come one    *)
(* after the other keep and agree on.                                      *)
(***************************************************************************)
EXTENDS CandidateProperties, TLAPS

-----------------------------------------------------------------------------
(* What the state looks like.                                              *)

\* Only a page that was read can be found behind a paywall.
ProperRows == {row \in Rows : row.excluded => row.fetched}

RequestRecords ==
    [op: {"idle", "register", "collect", "reevaluate", "send", "regenerate",
          "attach", "list"},
     step: 0..3, copy: ProperRows \union {NoRow}, page: PageKinds,
     run: RunOrNone, article: ArticleIds \union {Null}]

\* The request works on a row that was there when it read it.
OnRow(q) ==
    \/ q.op \in {"reevaluate", "send", "regenerate", "list"}
    \/ q.op = "collect" /\ q.step = 3
    \/ q.op = "attach" /\ q.step = 2

RequestFits(q, row) ==
    /\ OnRow(q) => q.copy \in ProperRows /\ row \in ProperRows
    /\ q.op = "collect" /\ q.step = 2 => row \in ProperRows
    /\ q.op = "attach" => q.article \in ArticleIds
    /\ q.op = "list" /\ q.step = 2 => q.article \in ArticleIds

CandidateShape ==
    /\ crow \in ProperRows \union {NoRow}
    /\ cjob \in ClipJobRecord
    /\ readyId \in ArticleIds \union {Null}
    /\ articles \subseteq ArticleIds
    /\ requests \in [Requests -> RequestRecords]
    /\ \A r \in Requests : RequestFits(requests[r], crow)
    /\ started \in 0..IF serial THEN MaxRequests ELSE MaxOverlaps
    /\ runs \in Nat
    /\ repaired \in BOOLEAN
    /\ serial \in BOOLEAN
    /\ failures \in BOOLEAN

-----------------------------------------------------------------------------
(* Requests that come one after the other.                                 *)

\* The link of a row to an article is the one of its job.
Agrees(row, job, id, stored) ==
    row.exists /\ row.done # Null /\ job.status = "ready" /\ id \in stored
    => row.run = job.run /\ row.done = id

\* The request carries the row as it still is.
Holding(q) ==
    \/ /\ q.step = 1
       /\ q.op \in {"register", "collect", "reevaluate", "send", "regenerate", "list"}
    \/ q.step = 2 /\ q.op \in {"attach", "list"}
    \/ q.step = 3 /\ q.op = "collect"

\* The request carries the row with the new link in it.
Linking(q) == q.step = 2 /\ q.op \in {"send", "regenerate"}

SerialFits(q, row, job, id, stored) ==
    /\ Holding(q) => q.copy = row
    /\ Linking(q) =>
        /\ q.copy = recordClipLink(row, q.copy.run, q.copy.done)
        /\ q.op = "send" /\ row.done # Null => q.copy.done # Null
        /\ Agrees(q.copy, job, id, stored)
    /\ q.op = "attach" =>
        job.status = "ready" /\ q.run = job.run /\ q.article = id
    /\ q.op = "list" /\ q.step = 2 /\ job.status = "ready" /\ id \in stored
       => q.article = id /\ q.run = job.run

Alternate ==
    \A r, s \in Requests :
        requests[r].op # "idle" /\ requests[s].op # "idle" => r = s

InSeries ==
    /\ Alternate
    /\ \A r \in Requests :
        SerialFits(requests[r], crow, cjob, readyId, articles)
    /\ ~failures /\ (\A r \in Requests : requests[r].op # "attach")
       => Agrees(crow, cjob, readyId, articles)

CandidateInvariant == CandidateShape /\ (serial => InSeries)

-----------------------------------------------------------------------------
(* The judgement: what resolveDeRecommendation returns.                    *)

\* A judgement without a grade is a recommendation.
LEMMA PlainRecommendation ==
    ASSUME NEW status \in {"insufficient_material", "skipped", "failed"},
           NEW hash \in Hashes \union {Null},
           NEW code \in RecommendErrorCodes \union {Null}
    PROVE  /\ Rec(status, hash, code) \in Recommendations
           /\ Rec(status, hash, code).status = status
<1>1. NoAxes \in [Axes -> {"yes", "no", Null}]
  BY DEF NoAxes
<1>2. [status |-> status, version |-> "current", hash |-> hash, code |-> code,
       grade |-> Null, decided |-> Null, conf |-> Null, model |-> Null,
       axes |-> NoAxes] \in Recommendations
  BY <1>1 DEF Recommendations
<1>3. Rec(status, hash, code)
      = [status |-> status, version |-> "current", hash |-> hash, code |-> code,
         grade |-> Null, decided |-> Null, conf |-> Null, model |-> Null,
         axes |-> NoAxes]
  BY Zenon DEF Rec
<1>4. Rec(status, hash, code).status = status
  BY <1>3
<1> QED
  BY <1>2, <1>3, <1>4, Zenon

\* One with the answers of Jev is one as well, whether or not it is trusted.
LEMMA AnsweredRecommendation ==
    ASSUME NEW hash \in Hashes \union {Null},
           NEW decided \in Grades \union {Null},
           NEW conf \in {"low", "high"}, NEW model \in {"jev", Null},
           NEW axes \in [Axes -> {"yes", "no", Null}]
    PROVE  /\ LowConfidence(hash, decided, conf, model, axes) \in Recommendations
           /\ LowConfidence(hash, decided, conf, model, axes).status = "low_confidence"
           /\ Evaluated(hash, decided, conf, model, axes) \in Recommendations
           /\ Evaluated(hash, decided, conf, model, axes).status = "evaluated"
<1> DEFINE plain == Rec("low_confidence", hash, Null)
           low == LowConfidence(hash, decided, conf, model, axes)
<1>1. plain \in Recommendations
  <2>1. NoAxes \in [Axes -> {"yes", "no", Null}]
    BY DEF NoAxes
  <2>2. [status |-> "low_confidence", version |-> "current", hash |-> hash,
         code |-> Null, grade |-> Null, decided |-> Null, conf |-> Null,
         model |-> Null, axes |-> NoAxes] \in Recommendations
    BY <2>1 DEF Recommendations
  <2>3. plain = [status |-> "low_confidence", version |-> "current", hash |-> hash,
                 code |-> Null, grade |-> Null, decided |-> Null, conf |-> Null,
                 model |-> Null, axes |-> NoAxes]
    BY Zenon DEF Rec
  <2> QED
    BY <2>2, <2>3, Zenon
<1>2. low = [plain EXCEPT !.decided = decided, !.conf = conf, !.model = model,
                          !.axes = axes]
  BY DEF LowConfidence
<1>3. plain.status = "low_confidence"
  BY DEF Rec
<1> HIDE DEF plain
<1>4. low \in Recommendations /\ low.status = "low_confidence"
  BY <1>1, <1>2, <1>3 DEF Recommendations
<1>5. Evaluated(hash, decided, conf, model, axes) =
        [low EXCEPT !.status = "evaluated", !.grade = decided]
  BY DEF Evaluated
<1> HIDE DEF low
<1>6. /\ Evaluated(hash, decided, conf, model, axes) \in Recommendations
      /\ Evaluated(hash, decided, conf, model, axes).status = "evaluated"
  BY <1>4, <1>5 DEF Recommendations
<1> QED
  BY <1>4, <1>6 DEF low

\* Whatever Jev replies, the text is judged one way or the other.
LEMMA EvaluationJudges ==
    ASSUME NEW hash \in Hashes, NEW r \in Reply
    PROVE  /\ evaluateDeRecommendation(hash, r) \in Recommendations
           /\ evaluateDeRecommendation(hash, r).status # "unevaluated"
<1> DEFINE answer == evaluateSystemOne(r)
           decided == IF answer.choice \in Grades THEN answer.choice ELSE Null
           model == IF answer.model = "" THEN Null ELSE answer.model
           axes == [a \in Axes |-> noulIsTrue(answer.noul[a])]
<1>1. CASE ~r.key
  BY <1>1, PlainRecommendation DEF evaluateDeRecommendation, Skipped
<1>2. CASE r.key /\ ~answer.ok
  <2>1. RecommendErrorByJev(answer.code) \in RecommendErrorCodes
    BY DEF RecommendErrorByJev, RecommendErrorCodes
  <2>2. evaluateDeRecommendation(hash, r) =
            Rec("failed", hash, RecommendErrorByJev(answer.code))
    BY <1>2 DEF evaluateDeRecommendation, FailedRec
  <2> QED
    BY <2>1, <2>2, PlainRecommendation
<1>3. CASE r.key /\ answer.ok
  <2>1. /\ answer.model = r.model /\ r.model \in {"", "jev"}
        /\ answer.choice = r.choice
        /\ answer.conf = parsedConfidence(r.conf)
        /\ answer.noul = r.noul
    BY <1>3 DEF evaluateSystemOne, Failure, Reply
  <2>2. answer.conf \in {"low", "high"}
    BY <2>1 DEF parsedConfidence, Reply
  <2>3. model \in {"jev", Null} /\ decided \in Grades \union {Null}
    BY <2>1
  <2>4. axes \in [Axes -> {"yes", "no", Null}]
    BY DEF noulIsTrue
  <2>5. \/ evaluateDeRecommendation(hash, r) =
                Evaluated(hash, decided, answer.conf, model, axes)
        \/ evaluateDeRecommendation(hash, r) =
                LowConfidence(hash, decided, answer.conf, model, axes)
    BY <1>3 DEF evaluateDeRecommendation
  <2> HIDE DEF answer, decided, model, axes
  <2> QED
    BY <2>2, <2>3, <2>4, <2>5, AnsweredRecommendation
<1> QED
  BY <1>1, <1>2, <1>3

\* A judgement is kept or replaced by another: it never becomes unevaluated.
LEMMA ResolvingKeepsJudgement ==
    ASSUME NEW rec \in Recommendations, NEW page \in PageKinds,
           NEW paywalled \in BOOLEAN, NEW force \in BOOLEAN,
           NEW deps, NEW reply \in Reply
    PROVE  LET out == resolveWith(rec, page, paywalled, force, 1, deps, reply)
           IN  /\ out.rec \in Recommendations
               /\ out.skipped \in BOOLEAN
               /\ rec.status # "unevaluated" => out.rec.status # "unevaluated"
<1> DEFINE hash == pageHash(page)
           asked == [reply EXCEPT !.key = (deps = "key")]
           out == resolveWith(rec, page, paywalled, force, 1, deps, reply)
<1>1. hash \in Hashes \/ hash = Null
  BY DEF pageHash
<1>2. asked \in Reply
  BY DEF Reply
<1>3. \/ out = Kept(rec)
      \/ out = [Kept(rec) EXCEPT !.skipped = (rec.status = "unevaluated")]
      \/ out = Fresh(Insufficient(Null), FALSE)
      \/ hash # Null /\ out = Fresh(evaluateDeRecommendation(hash, asked), TRUE)
  BY DEF resolveWith, resolveDeRecommendation
<1>4. /\ Insufficient(Null) \in Recommendations
      /\ Insufficient(Null).status # "unevaluated"
  BY PlainRecommendation DEF Insufficient
<1>5. hash # Null =>
        /\ evaluateDeRecommendation(hash, asked) \in Recommendations
        /\ evaluateDeRecommendation(hash, asked).status # "unevaluated"
  BY <1>1, <1>2, EvaluationJudges
<1> HIDE DEF hash, asked, out
<1>6. /\ out.rec \in Recommendations
      /\ out.skipped \in BOOLEAN
      /\ rec.status # "unevaluated" => out.rec.status # "unevaluated"
  <2>1. CASE out = Kept(rec)
    BY <2>1 DEF Kept
  <2>2. CASE out = [Kept(rec) EXCEPT !.skipped = (rec.status = "unevaluated")]
    <3> DEFINE untold == (rec.status = "unevaluated")
    <3>1. out = [rec |-> rec, called |-> FALSE, skipped |-> untold]
      BY <2>2 DEF Kept
    <3>2. untold \in BOOLEAN
      OBVIOUS
    <3> HIDE DEF untold
    <3> QED
      BY <3>1, <3>2
  <2>3. CASE out = Fresh(Insufficient(Null), FALSE)
    BY <2>3, <1>4 DEF Fresh
  <2>4. CASE hash # Null /\ out = Fresh(evaluateDeRecommendation(hash, asked), TRUE)
    BY <2>4, <1>5 DEF Fresh
  <2> QED
    BY <1>3, <2>1, <2>2, <2>3, <2>4
<1> QED
  BY <1>6 DEF out

-----------------------------------------------------------------------------
(* The row: what the handlers make of the copy they read.                  *)

\* The new row knows all that the old one knew, and has the same link.
Remembers(old, new) ==
    /\ new.exists
    /\ old.selected => new.selected
    /\ old.excluded => new.excluded
    /\ old.published => new.published
    /\ old.rec.status # "unevaluated" => new.rec.status # "unevaluated"

SameLink(old, new) == new.done = old.done /\ new.run = old.run

Judged(row, rec)  == [row EXCEPT !.rec = rec]
Dated(row, dated) == [row EXCEPT !.published = dated]

\* A row that is there is a whole one.
LEMMA RowIsWhole ==
    ASSUME NEW row \in ProperRows \union {NoRow}
    PROVE  /\ row.exists <=> row \in ProperRows
           /\ row.exists \/ row = NoRow
<1>1. ~NoRow.exists
  BY DEF NoRow
<1>2. ASSUME NEW whole \in ProperRows PROVE whole.exists
  BY DEF ProperRows, Rows
<1> QED
  BY <1>1, <1>2

\* Another judgement leaves the rest of the row alone.
LEMMA JudgedRow ==
    ASSUME NEW row \in ProperRows, NEW rec \in Recommendations,
           row.rec.status # "unevaluated" => rec.status # "unevaluated"
    PROVE  /\ Judged(row, rec) \in ProperRows
           /\ Remembers(row, Judged(row, rec))
           /\ SameLink(row, Judged(row, rec))
<1> HIDE DEF Recommendations
<1> QED
  BY DEF ProperRows, Rows, Remembers, SameLink, Judged

\* Neither does another date.
LEMMA DatedRow ==
    ASSUME NEW row \in ProperRows, NEW dated \in BOOLEAN
    PROVE  LET new == Dated(row, dated) IN
           /\ new \in ProperRows /\ SameLink(row, new) /\ new.exists
           /\ new.selected = row.selected /\ new.excluded = row.excluded
           /\ new.rec = row.rec
  BY DEF ProperRows, Rows, SameLink, Dated

\* A link to a run and an article, of a row that may have been selected.
LEMMA LinkedRow ==
    ASSUME NEW row \in ProperRows, NEW run \in RunOrNone,
           NEW done \in ArticleIds \union {Null}
    PROVE  /\ recordClipLink(row, run, done) \in ProperRows
           /\ Remembers(row, recordClipLink(row, run, done))
           /\ recordClipLink(row, run, done).run = run
           /\ recordClipLink(row, run, done).done = done
  BY DEF ProperRows, Rows, Remembers, recordClipLink, RunOrNone

\* The link of a finished article, written by the consumer and by the list.
LEMMA AttachedRow ==
    ASSUME NEW q \in RequestRecords, q.copy \in ProperRows
    PROVE  /\ attached(q) \in ProperRows
           /\ Remembers(q.copy, attached(q))
           /\ attached(q).run = q.run
           /\ attached(q).done = q.article
<1> DEFINE row == q.copy
<1>1. q.run \in RunOrNone /\ q.article \in ArticleIds \union {Null}
  BY DEF RequestRecords
<1>2. attached(q) = [row EXCEPT !.done = q.article, !.run = q.run]
  BY DEF attached
<1> HIDE DEF row
<1>3. row \in ProperRows
  BY DEF row
<1>4. /\ attached(q) \in ProperRows
      /\ Remembers(row, attached(q))
      /\ attached(q).run = q.run
      /\ attached(q).done = q.article
  BY <1>1, <1>2, <1>3 DEF ProperRows, Rows, Remembers, RunOrNone
<1> QED
  BY <1>4 DEF row

\* What a fetched page is worth on its own and on top of a known row.
LEMMA IncomingRow ==
    ASSUME NEW old \in ProperRows \union {NoRow}, NEW page \in PageKinds
    PROVE  /\ incomingCandidate(old, page) \in ProperRows
           /\ ~old.exists => incomingCandidate(old, page).done = Null
           /\ old.exists =>
                /\ SameLink(old, incomingCandidate(old, page))
                /\ incomingCandidate(old, page).selected = old.selected
                /\ incomingCandidate(old, page).rec = old.rec
                /\ old.published => incomingCandidate(old, page).published
<1> DEFINE new == incomingCandidate(old, page)
<1>1. new.excluded => new.fetched
  BY DEF incomingCandidate
<1>2. CASE old = NoRow
  <2>1. Unevaluated \in Recommendations
    <3>1. NoAxes \in [Axes -> {"yes", "no", Null}]
      BY DEF NoAxes
    <3> QED
      BY <3>1 DEF Unevaluated, Rec, Recommendations
  <2> HIDE DEF Recommendations, Unevaluated
  <2>2. new \in Rows
    BY <1>2, <2>1 DEF Rows, incomingCandidate, clipPointers, NoRow
  <2>3. new.done = Null /\ ~old.exists
    BY <1>2 DEF incomingCandidate, clipPointers, NoRow
  <2> QED
    BY <1>1, <2>2, <2>3 DEF ProperRows
<1>3. CASE old \in ProperRows
  <2>1. old.exists
    BY <1>3, RowIsWhole
  <2>2. new \in Rows
    <3> HIDE DEF Recommendations
    <3> QED
      BY <1>3, <2>1 DEF ProperRows, Rows, incomingCandidate, clipPointers
  <2>3. /\ SameLink(old, new) /\ new.selected = old.selected
        /\ new.rec = old.rec
        /\ old.published => new.published
    BY <2>1 DEF incomingCandidate, clipPointers, SameLink
  <2> QED
    BY <1>1, <2>1, <2>2, <2>3 DEF ProperRows
<1> QED
  BY <1>2, <1>3

\* The row that a registration or a collection writes.
LEMMA SavedRow ==
    ASSUME NEW old \in ProperRows \union {NoRow}, NEW page \in PageKinds
    PROVE  /\ savedCandidate(old, incomingCandidate(old, page)) \in ProperRows
           /\ ~old.exists =>
                savedCandidate(old, incomingCandidate(old, page)).done = Null
           /\ old.exists =>
                /\ Remembers(old, savedCandidate(old, incomingCandidate(old, page)))
                /\ SameLink(old, savedCandidate(old, incomingCandidate(old, page)))
<1> DEFINE incoming == incomingCandidate(old, page)
           new == savedCandidate(old, incoming)
<1>1. /\ incoming \in ProperRows
      /\ ~old.exists => incoming.done = Null
      /\ old.exists => /\ SameLink(old, incoming)
                       /\ incoming.selected = old.selected
                       /\ incoming.rec = old.rec
                       /\ old.published => incoming.published
  BY IncomingRow
<1> HIDE DEF incoming
<1> SUFFICES /\ new \in ProperRows
             /\ ~old.exists => new.done = Null
             /\ old.exists => Remembers(old, new) /\ SameLink(old, new)
  BY DEF incoming
<1>2. CASE ~old.exists \/ incoming.excluded \/ ~old.fetched
  <2>1. new = incoming
    BY <1>2 DEF savedCandidate
  <2>2. incoming.exists
    BY <1>1 DEF ProperRows, Rows
  <2>3. old.exists /\ old.excluded => incoming.excluded
    BY <1>2, RowIsWhole DEF ProperRows
  <2>4. old.exists => Remembers(old, incoming)
    BY <1>1, <2>2, <2>3 DEF Remembers
  <2> QED
    BY <1>1, <2>1, <2>4
<1>3. CASE ~(~old.exists \/ incoming.excluded \/ ~old.fetched)
  <2>1. old \in ProperRows /\ old.exists
    BY <1>3, RowIsWhole
  <2>2. new = [old EXCEPT !.published = incoming.published,
                          !.fullText = IF old.fullText = "confirmed_free"
                                       THEN old.fullText ELSE incoming.fullText]
    BY <1>3, <2>1 DEF savedCandidate, ProperRows, Rows
  <2>3. new \in ProperRows
    <3> HIDE DEF Recommendations, new
    <3> QED
      BY <1>1, <2>1, <2>2 DEF ProperRows, Rows
  <2>4. Remembers(old, new) /\ SameLink(old, new)
    <3> HIDE DEF Recommendations, new
    <3> QED
      BY <1>1, <2>1, <2>2 DEF ProperRows, Rows, Remembers, SameLink
  <2> QED
    BY <2>1, <2>3, <2>4
<1> QED
  BY <1>2, <1>3

-----------------------------------------------------------------------------
(* What a step leaves behind.                                              *)

\* What NothingForgotten says of a step that changes the row.
RowRemembered ==
    /\ crow'.exists
    /\ crow.selected => crow'.selected
    /\ crow.excluded => crow'.excluded
    /\ crow.published => crow'.published \/ repaired' # repaired
    /\ crow.rec.status # "unevaluated" => crow'.rec.status # "unevaluated"
    /\ crow.done # Null =>
          crow'.done # Null \/ \E r \in Requests : At(r, "regenerate", 2)

StepKeeps ==
    /\ CandidateInvariant'
    /\ serial /\ crow.exists /\ crow' # crow => RowRemembered

OthersIdle(r) == \A s \in Requests \ {r} : requests[s].op = "idle"

\* The rest of the state after a step: of the right kind, the row still there.
RestFits ==
    /\ crow' \in ProperRows \union {NoRow}
    /\ crow \in ProperRows => crow' \in ProperRows
    /\ cjob' \in ClipJobRecord
    /\ readyId' \in ArticleIds \union {Null}
    /\ articles' \subseteq ArticleIds
    /\ started' \in 0..IF serial THEN MaxRequests ELSE MaxOverlaps
    /\ runs' \in Nat
    /\ repaired' \in BOOLEAN
    /\ failures' \in BOOLEAN
    /\ serial' = serial

\* A request whose handler is over carries nothing.
LEMMA IdleIsRequest ==
    /\ idle \in RequestRecords
    /\ \A row : RequestFits(idle, row)
    /\ \A row, job, id, stored : SerialFits(idle, row, job, id, stored)
  BY DEF idle, RequestRecords, PageKinds, RunOrNone, RequestFits, OnRow,
         SerialFits, Holding, Linking

\* An idle request fits whatever the state is.
LEMMA IdleFits ==
    ASSUME NEW q, q.op = "idle"
    PROVE  /\ \A row : RequestFits(q, row)
           /\ \A row, job, id, stored : SerialFits(q, row, job, id, stored)
  BY DEF RequestFits, OnRow, SerialFits, Holding, Linking

\* A request that fits goes on fitting while the row does not vanish.
LEMMA StillFits ==
    ASSUME NEW q, NEW row, NEW later, RequestFits(q, row),
           row \in ProperRows => later \in ProperRows
    PROVE  RequestFits(q, later)
  BY DEF RequestFits

\* The step of one request.
LEMMA MoveKeeps ==
    ASSUME CandidateInvariant, NEW r \in Requests, NEW q \in RequestRecords,
           requests' = [requests EXCEPT ![r] = q],
           RestFits, RequestFits(q, crow'),
           serial => /\ OthersIdle(r)
                     /\ SerialFits(q, crow', cjob', readyId', articles')
                     /\ ~failures' /\ q.op # "attach" =>
                            Agrees(crow', cjob', readyId', articles')
                     /\ crow.exists /\ crow' # crow => RowRemembered
    PROVE  StepKeeps
<1>1. /\ requests \in [Requests -> RequestRecords]
      /\ \A s \in Requests : RequestFits(requests[s], crow)
      /\ serial \in BOOLEAN
  BY DEF CandidateInvariant, CandidateShape
<1>2. /\ requests' \in [Requests -> RequestRecords]
      /\ requests'[r] = q
      /\ \A s \in Requests : s # r => requests'[s] = requests[s]
  BY <1>1
<1>3. \A s \in Requests : RequestFits(requests'[s], crow')
  <2>1. SUFFICES ASSUME NEW s \in Requests
                 PROVE  RequestFits(requests'[s], crow')
    OBVIOUS
  <2>2. CASE s = r
    BY <2>2, <1>2
  <2>3. CASE s # r
    <3>1. requests'[s] = requests[s] /\ RequestFits(requests[s], crow)
      BY <1>1, <1>2, <2>3
    <3>2. RequestFits(requests[s], crow')
      BY <3>1, StillFits DEF RestFits
    <3> QED
      BY <3>1, <3>2
  <2> QED
    BY <2>2, <2>3
<1>4. CandidateShape'
  BY <1>1, <1>2, <1>3 DEF CandidateShape, RestFits
<1>5. ASSUME serial PROVE InSeries'
  <2>1. \A s \in Requests : s # r => requests'[s].op = "idle"
    BY <1>2, <1>5 DEF OthersIdle
  <2>2. Alternate'
    BY <2>1 DEF Alternate
  <2>3. \A s \in Requests :
            SerialFits(requests'[s], crow', cjob', readyId', articles')
    BY <1>2, <1>5, <2>1, IdleFits
  <2>4. ~failures' /\ (\A s \in Requests : requests'[s].op # "attach") =>
            Agrees(crow', cjob', readyId', articles')
    BY <1>2, <1>5
  <2> QED
    BY <2>2, <2>3, <2>4 DEF InSeries
<1> QED
  BY <1>4, <1>5 DEF StepKeeps, CandidateInvariant, RestFits

\* A step of the job, the repair or the reader: no request moves.
LEMMA SurroundingsKeep ==
    ASSUME CandidateInvariant, requests' = requests, RestFits,
           serial => /\ \A s \in Requests :
                            SerialFits(requests[s], crow', cjob', readyId', articles')
                     /\ ~failures' /\ (\A s \in Requests : requests[s].op # "attach")
                            => Agrees(crow', cjob', readyId', articles')
                     /\ crow.exists /\ crow' # crow => RowRemembered
    PROVE  StepKeeps
<1>1. /\ requests \in [Requests -> RequestRecords]
      /\ \A s \in Requests : RequestFits(requests[s], crow)
      /\ serial \in BOOLEAN
  BY DEF CandidateInvariant, CandidateShape
<1>2. \A s \in Requests : RequestFits(requests'[s], crow')
  BY <1>1, StillFits DEF RestFits
<1>3. CandidateShape'
  BY <1>1, <1>2 DEF CandidateShape, RestFits
<1>4. ASSUME serial PROVE InSeries'
  BY <1>4 DEF InSeries, Alternate, CandidateInvariant
<1> QED
  BY <1>3, <1>4 DEF StepKeeps, CandidateInvariant, RestFits

\* A request starts: it is counted, and alone when they come one by one.
LEMMA BeginsAlone ==
    ASSUME CandidateShape, NEW r \in Requests, NEW q, Begin(r, q)
    PROVE  /\ requests' = [requests EXCEPT ![r] = q]
           /\ started' \in 0..IF serial THEN MaxRequests ELSE MaxOverlaps
           /\ requests[r].op = "idle"
           /\ serial => \A s \in Requests : requests[s].op = "idle"
  BY BoundsAssumption DEF Begin, CandidateShape, Alone

\* While a request is at work, no other one is when they come one by one.
LEMMA AtWorkAlone ==
    ASSUME CandidateInvariant, NEW r \in Requests, requests[r].op # "idle"
    PROVE  /\ serial => OthersIdle(r)
           /\ requests[r] \in RequestRecords
           /\ RequestFits(requests[r], crow)
           /\ serial => SerialFits(requests[r], crow, cjob, readyId, articles)
           /\ serial /\ ~failures /\ requests[r].op # "attach" =>
                    Agrees(crow, cjob, readyId, articles)
<1>1. /\ requests[r] \in RequestRecords
      /\ RequestFits(requests[r], crow)
  BY DEF CandidateInvariant, CandidateShape
<1>2. ASSUME serial
      PROVE  /\ OthersIdle(r)
             /\ SerialFits(requests[r], crow, cjob, readyId, articles)
  BY <1>2 DEF CandidateInvariant, InSeries, Alternate, OthersIdle
<1>3. ASSUME serial, ~failures, requests[r].op # "attach"
      PROVE  Agrees(crow, cjob, readyId, articles)
  <2>1. \A s \in Requests : requests[s].op # "attach"
    BY <1>2, <1>3 DEF OthersIdle
  <2> QED
    BY <1>3, <2>1 DEF CandidateInvariant, InSeries
<1> QED
  BY <1>1, <1>2, <1>3

\* When nobody is at work and no write failed, the row agrees with the job.
LEMMA AloneAgrees ==
    ASSUME CandidateInvariant, serial, ~failures,
           \A s \in Requests : requests[s].op = "idle"
    PROVE  Agrees(crow, cjob, readyId, articles)
  BY DEF CandidateInvariant, InSeries

-----------------------------------------------------------------------------
(* What a request carries from one step to the next.                       *)

LegalSteps == 0..3
LegalOps == {"idle", "register", "collect", "reevaluate", "send", "regenerate",
             "attach", "list"}

OnwardWith(p, step, copy) == [p EXCEPT !.step = step, !.copy = copy]
OnwardTo(p, step, article, run) ==
    [p EXCEPT !.step = step, !.article = article, !.run = run]
FirstWith(op, step, copy) == [idle EXCEPT !.op = op, !.step = step, !.copy = copy]
FirstPage(op, step, copy, page) ==
    [idle EXCEPT !.op = op, !.step = step, !.copy = copy, !.page = page]
FirstTo(op, step, run, article) ==
    [idle EXCEPT !.op = op, !.step = step, !.run = run, !.article = article]

\* It goes on with another copy of the row.
LEMMA NextCopy ==
    ASSUME NEW p \in RequestRecords, NEW step \in LegalSteps,
           NEW copy \in ProperRows \union {NoRow}
    PROVE  LET q == OnwardWith(p, step, copy) IN
           /\ q \in RequestRecords
           /\ q.op = p.op /\ q.step = step /\ q.copy = copy
           /\ q.page = p.page /\ q.run = p.run /\ q.article = p.article
  BY DEF RequestRecords, LegalSteps, OnwardWith

\* It goes on with a run and an article.
LEMMA NextLink ==
    ASSUME NEW p \in RequestRecords, NEW step \in LegalSteps,
           NEW run \in RunOrNone, NEW article \in ArticleIds \union {Null}
    PROVE  LET q == OnwardTo(p, step, article, run) IN
           /\ q \in RequestRecords
           /\ q.op = p.op /\ q.step = step /\ q.copy = p.copy
           /\ q.run = run /\ q.article = article
  BY DEF RequestRecords, LegalSteps, OnwardTo

\* It begins with a copy of the row.
LEMMA FirstCopy ==
    ASSUME NEW op \in LegalOps, NEW step \in LegalSteps,
           NEW copy \in ProperRows \union {NoRow}
    PROVE  LET q == FirstWith(op, step, copy) IN
           q \in RequestRecords /\ q.op = op /\ q.step = step /\ q.copy = copy
<1> HIDE DEF idle
<1> QED
  BY IdleIsRequest DEF RequestRecords, LegalSteps, LegalOps, FirstWith

\* It begins with a copy of the row and the page that was fetched.
LEMMA FirstCopyAndPage ==
    ASSUME NEW op \in LegalOps, NEW step \in LegalSteps,
           NEW copy \in ProperRows \union {NoRow}, NEW page \in PageKinds
    PROVE  LET q == FirstPage(op, step, copy, page) IN
           q \in RequestRecords /\ q.op = op /\ q.step = step /\ q.copy = copy
<1> HIDE DEF idle
<1> QED
  BY IdleIsRequest DEF RequestRecords, LegalSteps, LegalOps, FirstPage

\* It begins with the run and the article of a finished job.
LEMMA FirstLink ==
    ASSUME NEW op \in LegalOps, NEW step \in LegalSteps,
           NEW run \in RunOrNone, NEW article \in ArticleIds \union {Null}
    PROVE  LET q == FirstTo(op, step, run, article) IN
           /\ q \in RequestRecords
           /\ q.op = op /\ q.step = step /\ q.run = run /\ q.article = article
<1> HIDE DEF idle
<1> QED
  BY IdleIsRequest DEF RequestRecords, LegalSteps, LegalOps, FirstTo

\* The numbers and the names that the handlers use.
LEMMA LegalValues ==
    /\ 1 \in LegalSteps /\ 2 \in LegalSteps /\ 3 \in LegalSteps
    /\ "register" \in LegalOps /\ "collect" \in LegalOps
    /\ "reevaluate" \in LegalOps /\ "send" \in LegalOps
    /\ "regenerate" \in LegalOps /\ "attach" \in LegalOps /\ "list" \in LegalOps
    /\ "empty" \in PageKinds
  BY DEF LegalSteps, LegalOps, PageKinds

-----------------------------------------------------------------------------
(* The requests that begin with the row as it is.                          *)

Untouched == UNCHANGED <<crow, failures, jobVars>>

\* A step that leaves row and job alone leaves the rest fitting.
LEMMA UntouchedFits ==
    ASSUME CandidateShape, Untouched,
           started' \in 0..IF serial THEN MaxRequests ELSE MaxOverlaps
    PROVE  RestFits
  BY DEF CandidateShape, Untouched, jobVars, RestFits

\* A request begins with a copy of the row; all but the first two ask that
\* the row is there.
LEMMA CopyBegins ==
    ASSUME CandidateInvariant, NEW r \in Requests, NEW q \in RequestRecords,
           q.op \in {"register", "collect", "reevaluate", "send", "regenerate",
                     "list"},
           q.step = 1, q.copy = crow,
           q.op \in {"register", "collect"} \/ crow.exists,
           Begin(r, q), Untouched
    PROVE  StepKeeps
<1>1. CandidateShape
  BY DEF CandidateInvariant
<1>2. crow \in ProperRows \union {NoRow} /\ (crow.exists <=> crow \in ProperRows)
  BY <1>1, RowIsWhole DEF CandidateShape
<1>3. /\ requests' = [requests EXCEPT ![r] = q]
      /\ RestFits
      /\ serial => \A s \in Requests : requests[s].op = "idle"
  BY <1>1, BeginsAlone, UntouchedFits
<1>4. RequestFits(q, crow')
  BY <1>2 DEF RequestFits, OnRow, Untouched
<1>5. serial => SerialFits(q, crow', cjob', readyId', articles')
  BY DEF SerialFits, Holding, Linking, Untouched
<1>6. serial /\ ~failures' => Agrees(crow', cjob', readyId', articles')
  BY <1>3, AloneAgrees DEF Untouched, jobVars
<1>7. crow' = crow
  BY DEF Untouched
<1> QED
  BY <1>3, <1>4, <1>5, <1>6, <1>7, MoveKeeps DEF OthersIdle

\* The row as it is, there or not.
LEMMA RowNow ==
    ASSUME CandidateInvariant
    PROVE  crow \in ProperRows \union {NoRow} /\ (crow.exists <=> crow \in ProperRows)
  BY RowIsWhole DEF CandidateInvariant, CandidateShape

\* A registration or a collection has fetched its page.
LEMMA RegisterReadKeeps ==
    ASSUME CandidateInvariant, NEW r \in Requests, NEW page \in PageKinds,
           NEW op \in {"register", "collect"}, RegisterRead(r, op, page)
    PROVE  StepKeeps
<1> DEFINE q == FirstPage(op, 1, crow, page)
<1>1. q \in RequestRecords /\ q.op = op /\ q.step = 1 /\ q.copy = crow
  BY RowNow, LegalValues, FirstCopyAndPage
<1>2. Begin(r, q) /\ Untouched
  BY DEF RegisterRead, Untouched, FirstPage
<1> HIDE DEF q
<1> QED
  BY <1>1, <1>2, CopyBegins

\* The reader asks for a judgement.
LEMMA ReevaluateReadKeeps ==
    ASSUME CandidateInvariant, NEW r \in Requests, NEW page \in PageKinds,
           ReevaluateRead(r, page)
    PROVE  StepKeeps
<1> DEFINE q == FirstPage("reevaluate", 1, crow, page)
<1>1. q \in RequestRecords /\ q.op = "reevaluate" /\ q.step = 1 /\ q.copy = crow
  BY RowNow, LegalValues, FirstCopyAndPage
<1>2. Begin(r, q) /\ Untouched /\ crow.exists
  BY DEF ReevaluateRead, Untouched, FirstPage
<1> HIDE DEF q
<1> QED
  BY <1>1, <1>2, CopyBegins

\* The reader sends the candidate.
LEMMA SendReadKeeps ==
    ASSUME CandidateInvariant, NEW r \in Requests, NEW regenerate \in BOOLEAN,
           SendRead(r, regenerate)
    PROVE  StepKeeps
<1> DEFINE op == IF regenerate THEN "regenerate" ELSE "send"
           q == FirstWith(op, 1, crow)
<1>1. op \in {"send", "regenerate"}
  OBVIOUS
<1>2. Begin(r, q) /\ Untouched /\ crow.exists
  BY DEF SendRead, Untouched, FirstWith
<1> HIDE DEF op
<1>3. q \in RequestRecords /\ q.op = op /\ q.step = 1 /\ q.copy = crow
  BY <1>1, RowNow, LegalValues, FirstCopy
<1> HIDE DEF q
<1> QED
  BY <1>1, <1>2, <1>3, CopyBegins

\* The list is asked for.
LEMMA ListReadKeeps ==
    ASSUME CandidateInvariant, NEW r \in Requests, ListRead(r)
    PROVE  StepKeeps
<1> DEFINE q == FirstWith("list", 1, crow)
<1>1. q \in RequestRecords /\ q.op = "list" /\ q.step = 1 /\ q.copy = crow
  BY RowNow, LegalValues, FirstCopy
<1>2. Begin(r, q) /\ Untouched /\ crow.exists
  BY DEF ListRead, Untouched, FirstWith
<1> HIDE DEF q
<1> QED
  BY <1>1, <1>2, CopyBegins

-----------------------------------------------------------------------------
(* The requests at work, the row as it is.                                 *)

\* A request that goes on or ends without touching anything.
LEMMA QuietMove ==
    ASSUME CandidateInvariant, NEW r \in Requests, requests[r].op # "idle",
           NEW q \in RequestRecords, requests' = [requests EXCEPT ![r] = q],
           Untouched, UNCHANGED started, RequestFits(q, crow),
           serial => SerialFits(q, crow, cjob, readyId, articles),
           serial /\ ~failures /\ requests[r].op = "attach" /\ q.op # "attach" =>
                Agrees(crow, cjob, readyId, articles)
    PROVE  StepKeeps
<1>1. CandidateShape
  BY DEF CandidateInvariant
<1>2. RestFits
  BY <1>1, UntouchedFits DEF CandidateShape
<1>3. UNCHANGED <<crow, cjob, readyId, articles, failures, serial>>
  BY DEF Untouched, jobVars
<1>4. serial => OthersIdle(r)
  BY AtWorkAlone
<1>5. serial /\ ~failures /\ q.op # "attach" => Agrees(crow, cjob, readyId, articles)
  BY AtWorkAlone
<1> QED
  BY <1>2, <1>3, <1>4, <1>5, MoveKeeps

\* A request ends and nothing changed: unless it was to attach an article.
LEMMA QuietEnd ==
    ASSUME CandidateInvariant, NEW r \in Requests,
           requests[r].op \notin {"idle", "attach"},
           Finish(r), Untouched, UNCHANGED started
    PROVE  StepKeeps
  BY QuietMove, IdleIsRequest DEF Finish, Go

\* A collection reads the row again before it judges.
LEMMA JudgeReadKeeps ==
    ASSUME CandidateInvariant, NEW r \in Requests, JudgeRead(r)
    PROVE  StepKeeps
<1> DEFINE p == requests[r]
           q == OnwardWith(p, 3, crow)
<1>1. p.op = "collect" /\ p.step = 2 /\ p \in RequestRecords /\ RequestFits(p, crow)
  BY AtWorkAlone DEF JudgeRead, At
<1>2. crow \in ProperRows
  BY <1>1 DEF RequestFits
<1>3. requests' = [requests EXCEPT ![r] = q]
  BY DEF JudgeRead, Go, OnwardWith
<1> HIDE DEF p
<1>4. /\ q \in RequestRecords
      /\ q.op = "collect" /\ q.step = 3 /\ q.copy = crow
  BY <1>1, <1>2, LegalValues, NextCopy
<1> HIDE DEF q
<1>5. RequestFits(q, crow)
  BY <1>2, <1>4 DEF RequestFits, OnRow
<1>6. SerialFits(q, crow, cjob, readyId, articles)
  BY <1>4 DEF SerialFits, Holding, Linking
<1>7. Untouched /\ UNCHANGED started /\ requests[r].op = "collect"
  BY DEF JudgeRead, Untouched, At
<1> QED
  BY <1>3, <1>4, <1>5, <1>6, <1>7, QuietMove

\* The consumer reads the row, if there is one.
LEMMA AttachReadKeeps ==
    ASSUME CandidateInvariant, NEW r \in Requests, AttachRead(r)
    PROVE  StepKeeps
<1> DEFINE p == requests[r]
           q == OnwardWith(p, 2, crow)
<1>1. /\ p.op = "attach" /\ p.step = 1
      /\ p \in RequestRecords
      /\ RequestFits(p, crow)
      /\ serial => SerialFits(p, crow, cjob, readyId, articles)
  BY AtWorkAlone DEF AttachRead, At
<1>2. /\ crow \in ProperRows \union {NoRow}
      /\ crow.exists <=> crow \in ProperRows
      /\ Untouched /\ UNCHANGED started
  BY RowIsWhole DEF CandidateInvariant, CandidateShape, AttachRead, Untouched
<1>3. CASE crow.exists
  <2>1. requests' = [requests EXCEPT ![r] = q]
    BY <1>3 DEF AttachRead, Go, OnwardWith
  <2>2. p.article \in ArticleIds
    BY <1>1 DEF RequestFits
  <2> HIDE DEF p
  <2>3. /\ q \in RequestRecords
        /\ q.op = "attach" /\ q.step = 2 /\ q.copy = crow
        /\ q.run = p.run /\ q.article = p.article
    BY <1>1, <1>2, LegalValues, NextCopy
  <2> HIDE DEF q
  <2>4. RequestFits(q, crow)
    BY <1>2, <1>3, <2>2, <2>3 DEF RequestFits, OnRow
  <2>5. serial => SerialFits(q, crow, cjob, readyId, articles)
    BY <1>1, <2>3 DEF SerialFits, Holding, Linking
  <2> QED
    BY <1>1, <1>2, <2>1, <2>3, <2>4, <2>5, QuietMove DEF p
<1>4. CASE ~crow.exists
  <2>1. requests' = [requests EXCEPT ![r] = idle]
    BY <1>4 DEF AttachRead, Finish, Go
  <2>2. Agrees(crow, cjob, readyId, articles)
    BY <1>4 DEF Agrees
  <2> QED
    BY <1>1, <1>2, <2>1, <2>2, QuietMove, IdleIsRequest
<1> QED
  BY <1>3, <1>4

-----------------------------------------------------------------------------
(* The requests that write the row.                                        *)

\* A row with the link of one that agrees agrees as well.
LEMMA SameLinkAgrees ==
    ASSUME NEW old, NEW new, NEW job, NEW id, NEW stored,
           Agrees(old, job, id, stored), old.exists, SameLink(old, new)
    PROVE  Agrees(new, job, id, stored)
  BY DEF Agrees, SameLink

\* So does one that is linked to no article.
LEMMA UnlinkedAgrees ==
    ASSUME NEW new, NEW job, NEW id, NEW stored, new.done = Null
    PROVE  Agrees(new, job, id, stored)
  BY DEF Agrees

\* What a handler makes of the row without taking the link away.
LEMMA RememberedRow ==
    ASSUME Remembers(crow, crow'), crow.done # Null => crow'.done # Null
    PROVE  RowRemembered
  BY DEF Remembers, RowRemembered

\* A write leaves the rest of the state fitting.
LEMMA WriteFits ==
    ASSUME CandidateShape, UNCHANGED <<started, jobVars>>,
           crow' \in ProperRows, failures' \in BOOLEAN
    PROVE  RestFits
  BY DEF CandidateShape, RestFits, jobVars

\* A request that writes the row last of all.
LEMMA WriteEnds ==
    ASSUME CandidateInvariant, NEW r \in Requests, requests[r].op # "idle",
           Finish(r), UNCHANGED <<started, jobVars>>,
           crow' \in ProperRows, failures' \in BOOLEAN,
           serial /\ crow.exists => RowRemembered,
           serial /\ ~failures' => Agrees(crow', cjob, readyId, articles)
    PROVE  StepKeeps
<1>1. requests' = [requests EXCEPT ![r] = idle]
  BY DEF Finish, Go
<1>2. RestFits
  BY WriteFits DEF CandidateInvariant
<1>3. cjob' = cjob /\ readyId' = readyId /\ articles' = articles
  BY DEF jobVars
<1>4. serial => OthersIdle(r)
  BY AtWorkAlone
<1> QED
  BY <1>1, <1>2, <1>3, <1>4, IdleIsRequest, MoveKeeps

\* The copy is one of the row, and the row itself when requests come one by one.
LEMMA HeldCopy ==
    ASSUME CandidateInvariant, NEW r \in Requests, Holding(requests[r])
    PROVE  /\ requests[r].op # "idle"
           /\ requests[r].copy \in ProperRows \union {NoRow}
           /\ requests[r].page \in PageKinds
           /\ serial => requests[r].copy = crow
           /\ serial /\ ~failures /\ requests[r].op # "attach" =>
                    Agrees(crow, cjob, readyId, articles)
<1>1. requests[r].op # "idle"
  BY DEF Holding
<1>2. /\ requests[r] \in RequestRecords
      /\ serial => SerialFits(requests[r], crow, cjob, readyId, articles)
      /\ serial /\ ~failures /\ requests[r].op # "attach" =>
                    Agrees(crow, cjob, readyId, articles)
  BY <1>1, AtWorkAlone
<1>3. serial => requests[r].copy = crow
  BY <1>2 DEF SerialFits
<1>4. /\ requests[r].copy \in ProperRows \union {NoRow}
      /\ requests[r].page \in PageKinds
  BY <1>2 DEF RequestRecords
<1> QED
  BY <1>1, <1>2, <1>3, <1>4

\* Every reply that Jev is asked for is one it can give.
LEMMA RepliesAreReplies ==
    ASSUME NEW deps, NEW reply \in RepliesTo(deps)
    PROVE  reply \in Reply
  BY RepliesAssumption DEF RepliesTo

\* Jev judged the row of a request, or the row stays without a judgement.
LEMMA JudgedCopyKeeps ==
    ASSUME CandidateInvariant, NEW r \in Requests, Holding(requests[r]),
           requests[r].op # "attach",
           Finish(r), UNCHANGED <<started, jobVars, failures>>,
           NEW saved \in ProperRows, NEW rec \in Recommendations,
           saved.rec.status # "unevaluated" => rec.status # "unevaluated",
           crow' = Judged(saved, rec),
           ~requests[r].copy.exists => saved.done = Null,
           requests[r].copy.exists =>
                Remembers(requests[r].copy, saved) /\ SameLink(requests[r].copy, saved)
    PROVE  StepKeeps
<1> DEFINE p == requests[r]
<1>1. /\ p.op # "idle"
      /\ serial => p.copy = crow
      /\ serial /\ ~failures => Agrees(crow, cjob, readyId, articles)
  BY HeldCopy
<1>2. crow' \in ProperRows /\ Remembers(saved, crow') /\ SameLink(saved, crow')
  BY JudgedRow
<1>3. ASSUME serial, crow.exists
      PROVE  Remembers(crow, crow') /\ SameLink(crow, crow')
  BY <1>1, <1>2, <1>3 DEF Remembers, SameLink
<1>4. ASSUME serial, ~crow.exists PROVE crow'.done = Null
  BY <1>1, <1>2, <1>4 DEF SameLink
<1>5. serial /\ crow.exists => RowRemembered
  BY <1>3, RememberedRow DEF SameLink
<1>6. serial /\ ~failures' => Agrees(crow', cjob, readyId, articles)
  BY <1>1, <1>3, <1>4, SameLinkAgrees, UnlinkedAgrees
<1>7. failures' \in BOOLEAN
  BY DEF CandidateInvariant, CandidateShape
<1> QED
  BY <1>1, <1>2, <1>5, <1>6, <1>7, WriteEnds

\* The registration judges the page and writes the row.
LEMMA RegisterWriteKeeps ==
    ASSUME CandidateInvariant, NEW r \in Requests, NEW deps,
           NEW reply \in RepliesTo(deps), RegisterWrite(r, deps, reply)
    PROVE  StepKeeps
<1> DEFINE p == requests[r]
           saved == savedCandidate(p.copy, incomingCandidate(p.copy, p.page))
           paywalled == p.page = "paywalled"
           out == resolveWith(saved.rec, p.page, paywalled, FALSE, 1, deps, reply)
<1>1. Holding(p) /\ p.op = "register"
  BY DEF RegisterWrite, At, Holding
<1>2. p.copy \in ProperRows \union {NoRow} /\ p.page \in PageKinds
  BY <1>1, HeldCopy
<1>3. /\ Finish(r)
      /\ UNCHANGED <<started, jobVars, failures>>
      /\ crow' = Judged(saved, out.rec)
  BY DEF RegisterWrite, Put, Judged
<1>4. /\ saved \in ProperRows
      /\ ~p.copy.exists => saved.done = Null
      /\ p.copy.exists => Remembers(p.copy, saved) /\ SameLink(p.copy, saved)
  BY <1>2, SavedRow
<1> HIDE DEF saved, paywalled
<1>5. saved.rec \in Recommendations
  BY <1>4 DEF ProperRows, Rows
<1>6. paywalled \in BOOLEAN /\ FALSE \in BOOLEAN /\ reply \in Reply
  BY RepliesAreReplies DEF paywalled
<1>7. /\ out.rec \in Recommendations
      /\ saved.rec.status # "unevaluated" => out.rec.status # "unevaluated"
  BY <1>2, <1>5, <1>6, ResolvingKeepsJudgement
<1> HIDE DEF out
<1> QED
  BY <1>1, <1>3, <1>4, <1>7, JudgedCopyKeeps

\* The reader's judgement is written over the copy.
LEMMA ReevaluateWriteKeeps ==
    ASSUME CandidateInvariant, NEW r \in Requests, NEW deps,
           NEW reply \in RepliesTo(deps), NEW force \in BOOLEAN,
           ReevaluateWrite(r, force, deps, reply)
    PROVE  StepKeeps
<1> DEFINE p == requests[r]
           paywalled == p.page = "paywalled" \/ p.copy.excluded
           out == resolveWith(p.copy.rec, p.page, paywalled, force, 1, deps, reply)
<1>1. Holding(p) /\ OnRow(p) /\ p.op = "reevaluate"
  BY DEF ReevaluateWrite, At, Holding, OnRow
<1>2. p.copy \in ProperRows /\ p.page \in PageKinds
  BY <1>1, HeldCopy, AtWorkAlone DEF RequestFits
<1>3. /\ Finish(r)
      /\ UNCHANGED <<started, jobVars, failures>>
      /\ crow' = Judged(p.copy, out.rec)
  BY DEF ReevaluateWrite, Put, Judged
<1>4. Remembers(p.copy, p.copy) /\ SameLink(p.copy, p.copy) /\ p.copy.exists
  BY <1>2 DEF Remembers, SameLink, ProperRows, Rows
<1>5. p.copy.rec \in Recommendations
  BY <1>2 DEF ProperRows, Rows
<1>6. paywalled \in BOOLEAN /\ reply \in Reply
  BY RepliesAreReplies
<1> HIDE DEF paywalled
<1>7. /\ out.rec \in Recommendations
      /\ p.copy.rec.status # "unevaluated" => out.rec.status # "unevaluated"
  BY <1>2, <1>5, <1>6, ResolvingKeepsJudgement
<1> HIDE DEF out
<1> QED
  BY <1>1, <1>2, <1>3, <1>4, <1>7, JudgedCopyKeeps

\* The judgement of a collection is written over the copy read last.
LEMMA JudgeWriteKeeps ==
    ASSUME CandidateInvariant, NEW r \in Requests, NEW deps,
           NEW reply \in RepliesTo(deps), JudgeWrite(r, deps, reply)
    PROVE  StepKeeps
<1> DEFINE p == requests[r]
           paywalled == p.page = "paywalled"
           out == resolveWith(p.copy.rec, p.page, paywalled, FALSE, 1, deps, reply)
           broken == FailedRec(p.copy.rec.hash, "recommend_internal")
<1>1. Holding(p) /\ OnRow(p) /\ p.op = "collect"
  BY DEF JudgeWrite, At, Holding, OnRow
<1>2. p.copy \in ProperRows /\ p.page \in PageKinds
  BY <1>1, HeldCopy, AtWorkAlone DEF RequestFits
<1>3. /\ Finish(r)
      /\ UNCHANGED <<started, jobVars>>
      /\ \/ UNCHANGED <<crow, failures>>
         \/ crow' = Judged(p.copy, out.rec) /\ UNCHANGED failures
         \/ crow' = Judged(p.copy, broken) /\ UNCHANGED failures
  <2>1. [p.copy EXCEPT !.rec = FailedRec(@.hash, "recommend_internal")] =
            Judged(p.copy, broken)
    BY <1>2 DEF Judged, ProperRows, Rows
  <2> QED
    BY <2>1 DEF JudgeWrite, Put, Judged
<1>4. Remembers(p.copy, p.copy) /\ SameLink(p.copy, p.copy) /\ p.copy.exists
  BY <1>2 DEF Remembers, SameLink, ProperRows, Rows
<1>5. p.copy.rec \in Recommendations
  BY <1>2 DEF ProperRows, Rows
<1>6. paywalled \in BOOLEAN /\ FALSE \in BOOLEAN /\ reply \in Reply
  BY RepliesAreReplies
<1>7. broken \in Recommendations /\ broken.status # "unevaluated"
  <2>1. p.copy.rec.hash \in Hashes \union {Null}
    BY <1>5 DEF Recommendations
  <2> QED
    BY <2>1, PlainRecommendation DEF FailedRec, RecommendErrorCodes
<1> HIDE DEF paywalled, broken
<1>8. /\ out.rec \in Recommendations
      /\ p.copy.rec.status # "unevaluated" => out.rec.status # "unevaluated"
  BY <1>2, <1>5, <1>6, ResolvingKeepsJudgement
<1> HIDE DEF out
<1>9. CASE UNCHANGED <<crow, failures>>
  BY <1>1, <1>3, <1>9, QuietEnd DEF Untouched
<1>10. CASE crow' = Judged(p.copy, out.rec) /\ UNCHANGED failures
  BY <1>1, <1>2, <1>3, <1>4, <1>8, <1>10, JudgedCopyKeeps
<1>11. CASE crow' = Judged(p.copy, broken) /\ UNCHANGED failures
  BY <1>1, <1>2, <1>3, <1>4, <1>7, <1>11, JudgedCopyKeeps
<1> QED
  BY <1>3, <1>9, <1>10, <1>11

\* The collection writes the row and has yet to judge it.
LEMMA CollectWriteKeeps ==
    ASSUME CandidateInvariant, NEW r \in Requests, CollectWrite(r)
    PROVE  StepKeeps
<1> DEFINE p == requests[r]
           saved == savedCandidate(p.copy, incomingCandidate(p.copy, p.page))
           q == OnwardWith(p, 2, NoRow)
<1>1. Holding(p) /\ p.op = "collect"
  BY DEF CollectWrite, At, Holding
<1>2. /\ p.copy \in ProperRows \union {NoRow} /\ p.page \in PageKinds
      /\ serial => p.copy = crow
      /\ serial /\ ~failures => Agrees(crow, cjob, readyId, articles)
  BY <1>1, HeldCopy
<1>3. /\ requests' = [requests EXCEPT ![r] = q]
      /\ UNCHANGED <<started, jobVars, failures>>
      /\ crow' = saved
  BY DEF CollectWrite, Put, Go, OnwardWith
<1>4. /\ saved \in ProperRows
      /\ ~p.copy.exists => saved.done = Null
      /\ p.copy.exists => Remembers(p.copy, saved) /\ SameLink(p.copy, saved)
  BY <1>2, SavedRow
<1>5. p \in RequestRecords /\ (serial => OthersIdle(r))
  BY <1>1, AtWorkAlone
<1> HIDE DEF p, saved
<1>6. q \in RequestRecords /\ q.op = "collect" /\ q.step = 2
  BY <1>1, <1>5, LegalValues, NextCopy
<1> HIDE DEF q
<1>7. RestFits
  BY <1>3, <1>4, WriteFits DEF CandidateInvariant, CandidateShape
<1>8. RequestFits(q, crow')
  BY <1>3, <1>4, <1>6 DEF RequestFits, OnRow
<1>9. SerialFits(q, crow', cjob', readyId', articles')
  BY <1>6 DEF SerialFits, Holding, Linking
<1>10. serial /\ crow.exists => RowRemembered
  BY <1>2, <1>3, <1>4, RememberedRow DEF SameLink
<1>11. serial /\ ~failures' => Agrees(crow', cjob', readyId', articles')
  BY <1>2, <1>3, <1>4, SameLinkAgrees, UnlinkedAgrees DEF jobVars
<1> QED
  BY <1>3, <1>5, <1>6, <1>7, <1>8, <1>9, <1>10, <1>11, MoveKeeps

-----------------------------------------------------------------------------
(* The link to the article: the send, the consumer and the list.           *)

\* A new run is not ready yet, whether its message was sent or not.
LEMMA EnqueuedJob ==
    ASSUME CandidateShape, enqueueClipJob
    PROVE  /\ cjob' \in ClipJobRecord /\ cjob'.status # "ready"
           /\ runs' \in Nat /\ runs + 1 \in RunOrNone
           /\ readyId' = Null
           /\ failures' \in BOOLEAN /\ (failures => failures')
<1>1. /\ runs \in Nat /\ failures \in BOOLEAN
      /\ runs' = runs + 1 /\ runs + 1 \in Runs /\ readyId' = Null
  BY DEF CandidateShape, enqueueClipJob
<1>2. /\ JobOf(runs + 1, "queued", "none") \in ClipJobRecord
      /\ JobOf(runs + 1, "queued", "none").status = "queued"
      /\ JobOf(runs + 1, "failed", "queue_failed") \in ClipJobRecord
      /\ JobOf(runs + 1, "failed", "queue_failed").status = "failed"
  BY <1>1 DEF JobOf, ClipJobRecord, RunOrNone, Statuses, Codes
<1>3. PICK sent \in BOOLEAN :
        /\ cjob' = IF sent THEN JobOf(runs + 1, "queued", "none")
                   ELSE JobOf(runs + 1, "failed", "queue_failed")
        /\ failures' = (failures \/ ~sent)
  BY DEF enqueueClipJob
<1>4. cjob' \in ClipJobRecord /\ cjob'.status # "ready"
  BY <1>2, <1>3
<1>5. failures' \in BOOLEAN /\ (failures => failures')
  BY <1>1, <1>3
<1> QED
  BY <1>1, <1>4, <1>5 DEF RunOrNone

\* The send has decided on a link: one that agrees with the job.
LEMMA DecisionKeeps ==
    ASSUME CandidateInvariant, NEW r \in Requests,
           requests[r].op \in {"send", "regenerate"}, requests[r].step = 1,
           NEW run \in RunOrNone, NEW done \in ArticleIds \union {Null},
           requests' = [requests EXCEPT ![r] =
                OnwardWith(requests[r], 2, recordClipLink(requests[r].copy, run, done))],
           UNCHANGED <<crow, articles, started, repaired, serial>>,
           cjob' \in ClipJobRecord, readyId' \in ArticleIds \union {Null},
           runs' \in Nat, failures' \in BOOLEAN, failures => failures',
           UNCHANGED <<cjob, readyId>> \/ cjob'.status # "ready",
           Agrees(recordClipLink(requests[r].copy, run, done), cjob', readyId', articles),
           requests[r].op = "send" /\ requests[r].copy.done # Null => done # Null
    PROVE  StepKeeps
<1> DEFINE p == requests[r]
           link == recordClipLink(p.copy, run, done)
           q == OnwardWith(p, 2, link)
<1>1. Holding(p) /\ OnRow(p) /\ p.op \notin {"idle", "attach"}
  BY DEF Holding, OnRow
<1>2. /\ p \in RequestRecords
      /\ p.copy \in ProperRows /\ crow \in ProperRows
      /\ serial => OthersIdle(r) /\ p.copy = crow
      /\ serial /\ ~failures => Agrees(crow, cjob, readyId, articles)
  BY <1>1, AtWorkAlone, HeldCopy DEF RequestFits
<1>3. /\ link \in ProperRows
      /\ link.run = run /\ link.done = done
  BY <1>2, LinkedRow
<1>4. serial => link = recordClipLink(crow, run, done)
  BY <1>2
<1>5. /\ p.op \in {"send", "regenerate"}
      /\ Agrees(link, cjob', readyId', articles)
      /\ p.op = "send" /\ p.copy.done # Null => done # Null
      /\ requests' = [requests EXCEPT ![r] = q]
  OBVIOUS
<1> HIDE DEF p, link
<1>6. /\ q \in RequestRecords
      /\ q.op = p.op /\ q.step = 2 /\ q.copy = link
  BY <1>2, <1>3, LegalValues, NextCopy
<1> HIDE DEF q
<1>7. RestFits
  BY DEF RestFits, CandidateInvariant, CandidateShape
<1>8. RequestFits(q, crow')
  BY <1>2, <1>3, <1>5, <1>6 DEF RequestFits
<1>9. serial => SerialFits(q, crow', cjob', readyId', articles')
  BY <1>2, <1>3, <1>4, <1>5, <1>6 DEF SerialFits, Holding, Linking
<1>10. serial /\ ~failures' => Agrees(crow', cjob', readyId', articles')
  BY <1>2 DEF Agrees
<1> QED
  BY <1>2, <1>5, <1>6, <1>7, <1>8, <1>9, <1>10, MoveKeeps

\* The send reuses a run or an article, or asks for a new run.
LEMMA SendDecideKeeps ==
    ASSUME CandidateInvariant, NEW r \in Requests, SendDecide(r)
    PROVE  StepKeeps
<1> DEFINE p == requests[r]
           stored == IF cjob.status = "ready" THEN readyId ELSE Canonical
           cleared == IF p.op = "regenerate" THEN Null ELSE p.copy.done
           Link(run, done) ==
               requests' = [requests EXCEPT ![r] =
                   OnwardWith(p, 2, recordClipLink(p.copy, run, done))]
<1>1. p.op \in {"send", "regenerate"} /\ p.step = 1 /\ OnRow(p) /\ p.op # "idle"
  BY DEF SendDecide, At, OnRow
<1>2. p.copy \in ProperRows /\ p \in RequestRecords
  BY <1>1, AtWorkAlone DEF RequestFits
<1>3. p.copy.done \in ArticleIds \union {Null} /\ p.copy.run \in RunOrNone
  BY <1>2 DEF ProperRows, Rows, RunOrNone
<1>4. cleared \in ArticleIds \union {Null}
  BY <1>3
<1>5. /\ CandidateShape /\ cjob.run \in RunOrNone
      /\ cjob \in ClipJobRecord /\ readyId \in ArticleIds \union {Null}
      /\ runs \in Nat /\ failures \in BOOLEAN /\ articles \subseteq ArticleIds
  BY DEF CandidateInvariant, CandidateShape, ClipJobRecord
<1>6. UNCHANGED <<crow, articles, started, repaired, serial>>
  BY DEF SendDecide
<1>7. p.op = "send" /\ p.copy.done # Null => cleared # Null
  OBVIOUS
<1>8. \/ /\ isActiveClipJob(cjob)
         /\ Link(cjob.run, cleared)
         /\ UNCHANGED <<cjob, readyId, runs, failures>>
      \/ /\ ~isActiveClipJob(cjob)
         /\ stored \in articles
         /\ Link(IF cjob.status = "absent" THEN p.copy.run ELSE cjob.run, stored)
         /\ UNCHANGED <<cjob, readyId, runs, failures>>
      \/ enqueueClipJob /\ Link(runs + 1, cleared)
  <2>1. ASSUME NEW run, NEW done
        PROVE  [p EXCEPT !.step = 2, !.copy = recordClipLink(@, run, done)] =
                    OnwardWith(p, 2, recordClipLink(p.copy, run, done))
    BY <1>2 DEF OnwardWith, RequestRecords
  <2> QED
    BY <2>1 DEF SendDecide, Go
<1>9. CASE /\ isActiveClipJob(cjob)
           /\ Link(cjob.run, cleared)
           /\ UNCHANGED <<cjob, readyId, runs, failures>>
  <2>1. cjob.status # "ready"
    BY <1>9 DEF isActiveClipJob, isClipJobInFlight
  <2>2. Agrees(recordClipLink(p.copy, cjob.run, cleared), cjob', readyId', articles)
    BY <1>9, <2>1 DEF Agrees
  <2> HIDE DEF cleared
  <2> QED
    BY <1>1, <1>4, <1>5, <1>6, <1>7, <1>9, <2>2, DecisionKeeps
<1>10. CASE /\ stored \in articles
            /\ Link(IF cjob.status = "absent" THEN p.copy.run ELSE cjob.run, stored)
            /\ UNCHANGED <<cjob, readyId, runs, failures>>
  <2> DEFINE run == IF cjob.status = "absent" THEN p.copy.run ELSE cjob.run
  <2>1. run \in RunOrNone
    BY <1>3, <1>5
  <2>2. stored \in ArticleIds \union {Null} /\ stored # Null
    BY <1>5, <1>10, ArticleIdsAssumption DEF ArticleIds
  <2>3. /\ recordClipLink(p.copy, run, stored).run = run
        /\ recordClipLink(p.copy, run, stored).done = stored
    BY <1>2, <2>1, <2>2, LinkedRow
  <2>4. cjob.status = "ready" => stored = readyId /\ run = cjob.run
    OBVIOUS
  <2>5. Agrees(recordClipLink(p.copy, run, stored), cjob', readyId', articles)
    BY <1>10, <2>3, <2>4 DEF Agrees
  <2>6. Link(run, stored)
    BY <1>10
  <2> HIDE DEF run, stored
  <2> QED
    BY <1>1, <1>5, <1>6, <1>10, <2>1, <2>2, <2>5, <2>6, DecisionKeeps
<1>11. CASE enqueueClipJob /\ Link(runs + 1, cleared)
  <2>1. /\ cjob' \in ClipJobRecord /\ cjob'.status # "ready"
        /\ runs' \in Nat /\ runs + 1 \in RunOrNone
        /\ readyId' \in ArticleIds \union {Null}
        /\ failures' \in BOOLEAN /\ (failures => failures')
    BY <1>5, <1>11, EnqueuedJob
  <2>2. Agrees(recordClipLink(p.copy, runs + 1, cleared), cjob', readyId', articles)
    BY <2>1 DEF Agrees
  <2> DEFINE run == runs + 1
  <2>3. Link(run, cleared)
    BY <1>11
  <2> HIDE DEF cleared, run
  <2> QED
    BY <1>1, <1>4, <1>6, <1>7, <2>1, <2>2, <2>3, DecisionKeeps DEF run
<1> QED
  BY <1>8, <1>9, <1>10, <1>11

\* The send writes the row with its link, or the write fails unseen.
LEMMA SendLinkKeeps ==
    ASSUME CandidateInvariant, NEW r \in Requests, SendLink(r)
    PROVE  StepKeeps
<1> DEFINE p == requests[r]
<1>1. /\ Linking(p) /\ OnRow(p) /\ p.op # "idle" /\ p.op # "attach"
      /\ p.op = "regenerate" => At(r, "regenerate", 2)
      /\ p.op \in {"send", "regenerate"}
  BY DEF SendLink, At, Linking, OnRow
<1>2. /\ p \in RequestRecords
      /\ p.copy \in ProperRows /\ crow \in ProperRows
      /\ serial => SerialFits(p, crow, cjob, readyId, articles)
      /\ serial /\ ~failures => Agrees(crow, cjob, readyId, articles)
  BY <1>1, AtWorkAlone DEF RequestFits
<1>3. /\ Finish(r) /\ UNCHANGED <<started, jobVars>>
      /\ \/ crow' = p.copy /\ failures' = failures
         \/ crow' = crow /\ failures' = TRUE
  BY DEF SendLink, PutOrSwallow, Put
<1>4. crow' \in ProperRows /\ failures' \in BOOLEAN
  BY <1>2, <1>3 DEF CandidateInvariant, CandidateShape
<1>5. ASSUME serial, crow' = p.copy PROVE RowRemembered
  <2>1. /\ crow' = recordClipLink(crow, p.copy.run, p.copy.done)
        /\ p.op = "send" /\ crow.done # Null => crow'.done # Null
    BY <1>1, <1>2, <1>5 DEF SerialFits
  <2>2. p.copy.run \in RunOrNone /\ p.copy.done \in ArticleIds \union {Null}
    BY <1>2 DEF ProperRows, Rows, RunOrNone
  <2>3. Remembers(crow, crow')
    BY <1>2, <2>1, <2>2, LinkedRow
  <2> QED
    BY <1>1, <2>1, <2>3 DEF Remembers, RowRemembered
<1>6. ASSUME crow' = crow PROVE RowRemembered
  BY <1>2, <1>6 DEF RowRemembered, ProperRows, Rows
<1>7. serial /\ ~failures' => Agrees(crow', cjob, readyId, articles)
  BY <1>1, <1>2, <1>3 DEF SerialFits
<1> QED
  BY <1>1, <1>3, <1>4, <1>5, <1>6, <1>7, WriteEnds

\* The article and its run are written into the row, or are there already, or
\* the write fails unseen.
LEMMA AttachingKeeps ==
    ASSUME CandidateInvariant, NEW r \in Requests,
           requests[r].op \in {"attach", "list"}, requests[r].step = 2,
           Finish(r), UNCHANGED <<started, jobVars>>,
           \/ /\ requests[r].copy = attached(requests[r])
              /\ UNCHANGED <<crow, failures>>
           \/ crow' = attached(requests[r]) /\ UNCHANGED failures
           \/ crow' = crow /\ failures' = TRUE
    PROVE  StepKeeps
<1> DEFINE p == requests[r]
<1>1. OnRow(p) /\ Holding(p) /\ p.op # "idle"
  BY DEF OnRow, Holding
<1>2. /\ p \in RequestRecords
      /\ p.copy \in ProperRows /\ crow \in ProperRows
      /\ p.article \in ArticleIds
      /\ serial => SerialFits(p, crow, cjob, readyId, articles)
      /\ serial => p.copy = crow
  BY <1>1, AtWorkAlone, HeldCopy DEF RequestFits
<1>3. /\ attached(p) \in ProperRows
      /\ Remembers(p.copy, attached(p))
      /\ attached(p).run = p.run /\ attached(p).done = p.article
  BY <1>2, AttachedRow
<1>4. crow' \in ProperRows /\ failures' \in BOOLEAN
  BY <1>2, <1>3 DEF CandidateInvariant, CandidateShape
<1>5. ASSUME serial, crow' = attached(p) PROVE RowRemembered
  <2>1. crow'.done # Null
    BY <1>2, <1>3, <1>5, ArticleIdsAssumption DEF ArticleIds
  <2> QED
    BY <1>2, <1>3, <1>5, <2>1, RememberedRow
<1>6. ASSUME crow' = crow PROVE RowRemembered
  BY <1>2, <1>6 DEF RowRemembered, ProperRows, Rows
<1>7. ASSUME serial, ~failures' PROVE Agrees(crow', cjob, readyId, articles)
  <2>1. crow' = attached(p)
    BY <1>2, <1>7
  <2>2. cjob.status = "ready" /\ readyId \in articles =>
            p.run = cjob.run /\ p.article = readyId
    BY <1>2, <1>7 DEF SerialFits
  <2> QED
    BY <1>3, <2>1, <2>2 DEF Agrees
<1> QED
  BY <1>1, <1>2, <1>4, <1>5, <1>6, <1>7, WriteEnds

\* The consumer attaches the article it finished.
LEMMA AttachWriteKeeps ==
    ASSUME CandidateInvariant, NEW r \in Requests, AttachWrite(r)
    PROVE  StepKeeps
<1> HIDE DEF attached
<1> QED
  BY AttachingKeeps DEF AttachWrite, At, PutOrSwallow, Put

\* The list attaches the article it shows.
LEMMA SyncKeeps ==
    ASSUME CandidateInvariant, NEW r \in Requests, syncCandidateCompletion(r)
    PROVE  StepKeeps
<1> HIDE DEF attached
<1> QED
  BY AttachingKeeps DEF syncCandidateCompletion, At, PutOrSwallow, Put

\* The list shows an article that is stored, under the job's own id when the
\* job is ready and its article is there.
LEMMA ListViewKeeps ==
    ASSUME CandidateInvariant, NEW r \in Requests, ListView(r)
    PROVE  StepKeeps
<1> DEFINE p == requests[r]
           article == presentId(p.copy)
           run == IF cjob.status = "absent" THEN p.copy.run ELSE cjob.run
           q == OnwardTo(p, 2, article, run)
<1>1. /\ p.op = "list" /\ p.step = 1
      /\ Holding(p) /\ OnRow(p)
      /\ Untouched /\ UNCHANGED started
  BY DEF ListView, At, Holding, OnRow, Untouched
<1>2. /\ p \in RequestRecords
      /\ p.copy \in ProperRows /\ crow \in ProperRows
      /\ serial => p.copy = crow
  BY <1>1, AtWorkAlone, HeldCopy DEF RequestFits
<1>3. CASE loadCandidateDelivery(p.copy) # "available"
  <2>1. Finish(r)
    BY <1>3 DEF ListView
  <2> QED
    BY <1>1, <2>1, QuietEnd
<1>4. CASE loadCandidateDelivery(p.copy) = "available"
  <2>1. requests' = [requests EXCEPT ![r] = q]
    BY <1>4 DEF ListView, Go, OnwardTo
  <2>2. article # Null
    BY <1>4 DEF loadCandidateDelivery
  <2>3. article \in ArticleIds
    BY <2>2 DEF presentId, CandidateInvariant, CandidateShape
  <2>4. run \in RunOrNone
    BY <1>2 DEF CandidateInvariant, CandidateShape, ClipJobRecord, ProperRows,
                Rows, RunOrNone
  <2>5. cjob.status = "ready" /\ readyId \in articles =>
            article = readyId /\ run = cjob.run
    BY DEF presentId, linkedId
  <2> HIDE DEF p, article, run
  <2>6. /\ q \in RequestRecords
        /\ q.op = p.op /\ q.step = 2 /\ q.copy = p.copy
        /\ q.run = run /\ q.article = article
    BY <1>2, <2>3, <2>4, LegalValues, NextLink
  <2> HIDE DEF q
  <2>7. RequestFits(q, crow)
    BY <1>1, <1>2, <2>3, <2>6 DEF RequestFits
  <2>8. serial => SerialFits(q, crow, cjob, readyId, articles)
    BY <1>1, <1>2, <2>5, <2>6 DEF SerialFits, Holding, Linking
  <2> QED
    BY <1>1, <2>1, <2>6, <2>7, <2>8, QuietMove DEF p
<1> QED
  BY <1>3, <1>4

\* The consumer has stored the article and its job is ready.
LEMMA JobReadyKeeps ==
    ASSUME CandidateInvariant, NEW r \in Requests, NEW article \in ArticleIds,
           JobReady(r, article)
    PROVE  StepKeeps
<1> DEFINE q == FirstTo("attach", 1, cjob.run, article)
<1>1. CandidateShape /\ cjob.run \in RunOrNone /\ article \in ArticleIds \union {Null}
  BY DEF CandidateInvariant, CandidateShape, ClipJobRecord
<1>2. q \in RequestRecords
      /\ q.op = "attach" /\ q.step = 1 /\ q.run = cjob.run /\ q.article = article
  BY <1>1, LegalValues, FirstLink
<1>3. /\ Begin(r, q)
      /\ articles' = articles \union {article}
      /\ cjob' = JobOf(cjob.run, "ready", "none") /\ readyId' = article
      /\ UNCHANGED <<crow, runs, repaired, serial, failures>>
  BY DEF JobReady, FirstTo
<1> HIDE DEF q
<1>4. /\ requests' = [requests EXCEPT ![r] = q]
      /\ started' \in 0..IF serial THEN MaxRequests ELSE MaxOverlaps
      /\ serial => OthersIdle(r)
  BY <1>1, <1>3, BeginsAlone DEF OthersIdle
<1>5. cjob' \in ClipJobRecord /\ cjob'.status = "ready" /\ cjob'.run = cjob.run
  BY <1>1, <1>3 DEF JobOf, ClipJobRecord, Statuses, Codes
<1>6. RestFits
  BY <1>1, <1>3, <1>4, <1>5 DEF RestFits, CandidateShape
<1>7. RequestFits(q, crow')
  BY <1>2 DEF RequestFits, OnRow
<1>8. SerialFits(q, crow', cjob', readyId', articles')
  BY <1>2, <1>3, <1>5 DEF SerialFits, Holding, Linking
<1> QED
  BY <1>2, <1>3, <1>4, <1>6, <1>7, <1>8, MoveKeeps

-----------------------------------------------------------------------------
(* The steps around the requests.                                          *)

\* A job that is not ready puts nothing in the row's way.
LEMMA NotReadyAgrees ==
    ASSUME NEW row, NEW job, NEW id, NEW stored, job.status # "ready"
    PROVE  Agrees(row, job, id, stored)
  BY DEF Agrees

\* The page is clipped by another route.
LEMMA ClipPostedKeeps ==
    ASSUME CandidateInvariant, ClipPosted
    PROVE  StepKeeps
<1>1. /\ CandidateShape
      /\ serial => \A s \in Requests : requests[s].op = "idle"
      /\ UNCHANGED <<crow, articles, requests, started, repaired, serial>>
  BY DEF CandidateInvariant, ClipPosted, Alone
<1>2. /\ cjob' \in ClipJobRecord /\ cjob'.status # "ready"
      /\ runs' \in Nat /\ readyId' = Null /\ failures' \in BOOLEAN
  BY <1>1, EnqueuedJob DEF ClipPosted
<1>3. RestFits
  BY <1>1, <1>2 DEF RestFits, CandidateShape
<1>4. Agrees(crow', cjob', readyId', articles')
  BY <1>2, NotReadyAgrees
<1> QED
  BY <1>1, <1>3, <1>4, IdleFits, SurroundingsKeep

\* The job's run goes on, gets stuck or fails.
LEMMA JobRunsKeeps ==
    ASSUME CandidateInvariant, JobRuns
    PROVE  StepKeeps
<1>1. /\ cjob \in ClipJobRecord /\ cjob.status \in {"queued", "running"}
      /\ UNCHANGED <<crow, readyId, articles, requests, started, runs, repaired,
                     serial, failures>>
  BY DEF CandidateInvariant, CandidateShape, JobRuns, isClipJobInFlight
<1>2. cjob' \in ClipJobRecord /\ cjob'.status # "ready"
  <2>1. CASE cjob' = JobOf(cjob.run, "running", "none")
    BY <1>1, <2>1 DEF JobOf, ClipJobRecord, Statuses, Codes
  <2>2. CASE cjob' = [cjob EXCEPT !.stale = TRUE]
    BY <1>1, <2>2 DEF ClipJobRecord
  <2>3. CASE cjob' = JobOf(cjob.run, "failed", "pipeline")
    BY <1>1, <2>3 DEF JobOf, ClipJobRecord, Statuses, Codes
  <2> QED
    BY <2>1, <2>2, <2>3 DEF JobRuns
<1>3. RestFits
  BY <1>1, <1>2 DEF RestFits, CandidateInvariant, CandidateShape
<1>4. \A row : Agrees(row, cjob', readyId', articles')
  BY <1>2, NotReadyAgrees
<1>5. serial => \A s \in Requests :
            SerialFits(requests[s], crow', cjob', readyId', articles')
  <2>1. SUFFICES ASSUME serial, NEW s \in Requests
                 PROVE  SerialFits(requests[s], crow', cjob', readyId', articles')
    OBVIOUS
  <2>2. SerialFits(requests[s], crow, cjob, readyId, articles)
    BY <2>1 DEF CandidateInvariant, InSeries
  <2>3. cjob.status # "ready" /\ crow' = crow
    BY <1>1
  <2> QED
    BY <1>2, <1>4, <2>2, <2>3 DEF SerialFits
<1> QED
  BY <1>1, <1>3, <1>4, <1>5, SurroundingsKeep

\* The repair sets or clears the date of a row that is there.
LEMMA writePublishedAtKeeps ==
    ASSUME CandidateInvariant, writePublishedAt
    PROVE  StepKeeps
<1>1. /\ crow \in ProperRows
      /\ serial => \A s \in Requests : requests[s].op = "idle"
      /\ ~repaired /\ repaired' = TRUE
      /\ UNCHANGED <<cjob, readyId, articles, requests, started, runs, serial,
                     failures>>
  BY RowNow DEF writePublishedAt, Alone
<1>2. PICK dated \in BOOLEAN : crow' = Dated(crow, dated)
  BY DEF writePublishedAt, Dated
<1>3. /\ crow' \in ProperRows /\ SameLink(crow, crow') /\ crow'.exists
      /\ crow'.selected = crow.selected /\ crow'.excluded = crow.excluded
      /\ crow'.rec = crow.rec
  BY <1>1, <1>2, DatedRow
<1>4. RestFits
  BY <1>1, <1>3 DEF RestFits, CandidateInvariant, CandidateShape
<1>5. RowRemembered
  BY <1>1, <1>3 DEF RowRemembered, SameLink
<1>6. serial /\ ~failures' => Agrees(crow', cjob', readyId', articles')
  <2>1. crow.exists
    BY <1>1, RowIsWhole
  <2>2. serial /\ ~failures => Agrees(crow, cjob, readyId, articles)
    BY <1>1, AloneAgrees
  <2> QED
    BY <1>1, <1>3, <2>1, <2>2, SameLinkAgrees
<1> QED
  BY <1>1, <1>4, <1>5, <1>6, IdleFits, SurroundingsKeep

\* The reader deletes an article.
LEMMA DeleteArticleKeeps ==
    ASSUME CandidateInvariant, NEW article, DeleteArticle(article)
    PROVE  StepKeeps
<1>1. /\ articles' \subseteq articles
      /\ UNCHANGED <<crow, cjob, readyId, requests, started, runs, repaired,
                     serial, failures>>
  BY DEF DeleteArticle
<1>2. RestFits
  BY <1>1 DEF RestFits, CandidateInvariant, CandidateShape
<1>3. ASSUME NEW row, Agrees(row, cjob, readyId, articles)
      PROVE  Agrees(row, cjob', readyId', articles')
  BY <1>1, <1>3 DEF Agrees
<1>4. serial => \A s \in Requests :
            SerialFits(requests[s], crow', cjob', readyId', articles')
  <2>1. SUFFICES ASSUME serial, NEW s \in Requests
                 PROVE  SerialFits(requests[s], crow', cjob', readyId', articles')
    OBVIOUS
  <2>2. SerialFits(requests[s], crow, cjob, readyId, articles)
    BY <2>1 DEF CandidateInvariant, InSeries
  <2> QED
    BY <1>1, <1>3, <2>2 DEF SerialFits
<1>5. serial /\ ~failures' /\ (\A s \in Requests : requests[s].op # "attach")
        => Agrees(crow', cjob', readyId', articles')
  BY <1>1, <1>3 DEF CandidateInvariant, InSeries
<1> QED
  BY <1>1, <1>2, <1>4, <1>5, SurroundingsKeep

-----------------------------------------------------------------------------
(* The behaviours.                                                         *)

\* Nothing is known yet, or the candidate is registered and has no link.
LEMMA CandidateStarts == CandidateInit => CandidateInvariant
<1> SUFFICES ASSUME CandidateInit PROVE CandidateInvariant
  OBVIOUS
<1>1. requests \in [Requests -> RequestRecords]
  BY IdleIsRequest DEF CandidateInit
<1>2. \A r \in Requests : requests[r] = idle /\ requests[r].op = "idle"
  BY DEF CandidateInit, idle
<1>3. /\ crow \in ProperRows \union {NoRow}
      /\ ~crow.exists \/ crow.done = Null
  <2>1. CASE crow = NoRow
    BY <2>1 DEF NoRow
  <2>2. CASE crow # NoRow
    <3>1. PICK page \in Hashes : crow = incomingCandidate(NoRow, page)
      BY <2>2 DEF CandidateInit
    <3>2. page \in PageKinds /\ ~NoRow.exists
      BY DEF PageKinds, NoRow
    <3> QED
      BY <3>1, <3>2, IncomingRow
  <2> QED
    BY <2>1, <2>2
<1>4. NoJob \in ClipJobRecord
  BY DEF NoJob, ClipJobRecord, RunOrNone, Statuses, Codes
<1>5. 0 \in 0..IF serial THEN MaxRequests ELSE MaxOverlaps
  BY BoundsAssumption
<1>6. CandidateShape
  BY <1>1, <1>2, <1>3, <1>4, <1>5, IdleIsRequest DEF CandidateInit, CandidateShape
<1>7. Agrees(crow, cjob, readyId, articles)
  BY <1>3 DEF Agrees
<1>8. InSeries
  BY <1>2, <1>7, IdleIsRequest DEF InSeries, Alternate
<1> QED
  BY <1>6, <1>8 DEF CandidateInvariant

\* The steps of the requests.
LEMMA RequestsKeep ==
    ASSUME CandidateInvariant, NEW r \in Requests,
           \/ \E page \in PageKinds :
               \/ \E op \in {"register", "collect"} : RegisterRead(r, op, page)
               \/ ReevaluateRead(r, page)
           \/ \E deps \in {"absent", "nokey", "key"} : \E reply \in RepliesTo(deps) :
               \/ RegisterWrite(r, deps, reply)
               \/ JudgeWrite(r, deps, reply)
               \/ \E force \in BOOLEAN : ReevaluateWrite(r, force, deps, reply)
           \/ CollectWrite(r) \/ JudgeRead(r)
           \/ \E regenerate \in BOOLEAN : SendRead(r, regenerate)
           \/ SendDecide(r) \/ SendLink(r)
           \/ \E article \in {Canonical, Redirected} : JobReady(r, article)
           \/ AttachRead(r) \/ AttachWrite(r)
           \/ ListRead(r) \/ ListView(r) \/ syncCandidateCompletion(r)
    PROVE  StepKeeps
<1>1. \A page \in PageKinds : \A op \in {"register", "collect"} :
            RegisterRead(r, op, page) => StepKeeps
  BY RegisterReadKeeps
<1>2. \A page \in PageKinds : ReevaluateRead(r, page) => StepKeeps
  BY ReevaluateReadKeeps
<1>3. \A deps : \A reply \in RepliesTo(deps) :
        /\ RegisterWrite(r, deps, reply) => StepKeeps
        /\ JudgeWrite(r, deps, reply) => StepKeeps
        /\ \A force \in BOOLEAN : ReevaluateWrite(r, force, deps, reply) => StepKeeps
  BY RegisterWriteKeeps, JudgeWriteKeeps, ReevaluateWriteKeeps
<1>4. \A regenerate \in BOOLEAN : SendRead(r, regenerate) => StepKeeps
  BY SendReadKeeps
<1>5. \A article \in {Canonical, Redirected} : JobReady(r, article) => StepKeeps
  BY JobReadyKeeps DEF ArticleIds
<1> QED
  BY <1>1, <1>2, <1>3, <1>4, <1>5, CollectWriteKeeps, JudgeReadKeeps,
     SendDecideKeeps, SendLinkKeeps, AttachReadKeeps, AttachWriteKeeps,
     ListReadKeeps, ListViewKeeps, SyncKeeps

\* Every step keeps the invariant and remembers what the row knew.
LEMMA CandidateStepKeeps ==
    ASSUME CandidateInvariant, CandidateNext
    PROVE  StepKeeps
  BY RequestsKeep, ClipPostedKeeps, JobRunsKeeps, writePublishedAtKeeps,
     DeleteArticleKeeps DEF CandidateNext

\* The row, the job and the requests are what the handlers made of them, and
\* requests that come one by one carry the row as it is.
THEOREM CandidateInvariantHolds == CandidateSpec => []CandidateInvariant
<1>1. CandidateInvariant /\ [CandidateNext]_candidateVars => CandidateInvariant'
  <2>1. CandidateInvariant /\ CandidateNext => CandidateInvariant'
    BY CandidateStepKeeps DEF StepKeeps
  <2>2. CandidateInvariant /\ UNCHANGED candidateVars => CandidateInvariant'
    BY DEF candidateVars, CandidateInvariant, CandidateShape, InSeries, Alternate
  <2> QED
    BY <2>1, <2>2
<1> QED
  BY <1>1, CandidateStarts, PTL DEF CandidateSpec

\* The row, the job and every request hold what their handlers put there.
THEOREM CandidateTypeCorrect == CandidateSpec => []CandidateTypeOK
<1>1. CandidateInvariant => CandidateTypeOK
  BY DEF CandidateInvariant, CandidateShape, CandidateTypeOK, ProperRows,
         RequestRecords, RunOrNone
<1> QED
  BY <1>1, CandidateInvariantHolds, PTL

\* An article that its job reports and that is stored is offered under its own
\* id, whatever stale link an overlapping request left in the row.
THEOREM DeliveredArticleIsShown == CandidateSpec => []DeliveredIsShown
<1>1. CandidateInvariant => DeliveredIsShown
  <2> SUFFICES ASSUME CandidateInvariant, cjob.status = "ready", readyId \in articles
               PROVE  loadCandidateDelivery(crow) = "available" /\ presentId(crow) = readyId
    BY DEF DeliveredIsShown
  <2>1. presentId(crow) = readyId
    BY DEF presentId, linkedId
  <2>2. readyId # Null
    BY ArticleIdsAssumption DEF CandidateInvariant, CandidateShape, ArticleIds
  <2>3. /\ ~isActiveClipJob(cjob) /\ ~isClipJobStale(cjob)
        /\ cjob.status # "failed"
    BY DEF isActiveClipJob, isClipJobStale, isClipJobInFlight
  <2> QED
    BY <2>1, <2>2, <2>3 DEF loadCandidateDelivery
<1> QED
  BY <1>1, CandidateInvariantHolds, PTL

\* Requests that come one by one and whose writes succeed leave a candidate
\* linked to the article of its job and to the run that made it.
THEOREM SettledLinkIsTheJobs == CandidateSpec => []SettledLinkAgrees
<1>1. CandidateInvariant => SettledLinkAgrees
  BY AloneAgrees DEF SettledLinkAgrees, Alone, Agrees
<1> QED
  BY <1>1, CandidateInvariantHolds, PTL

\* Requests that come one by one never take back what the reader did or what
\* was learnt of the candidate.
THEOREM NothingIsForgotten == CandidateSpec => NothingForgotten
<1>1. CandidateInvariant /\ [CandidateNext]_candidateVars =>
        [serial /\ crow.exists => RowRemembered]_crow
  <2>1. CandidateInvariant /\ CandidateNext =>
            [serial /\ crow.exists => RowRemembered]_crow
    BY CandidateStepKeeps DEF StepKeeps
  <2> QED
    BY <2>1 DEF candidateVars
<1> QED
  BY <1>1, CandidateInvariantHolds, PTL DEF CandidateSpec, NothingForgotten,
     RowRemembered

-----------------------------------------------------------------------------
(* The judgement again: whose text it is about, and what its columns keep. *)

\* The record of a text without answers.
LEMMA PlainIs ==
    ASSUME NEW hash, NEW code
    PROVE  /\ Skipped(hash).status = "skipped" /\ Skipped(hash).hash = hash
           /\ Skipped(hash).version = "current"
           /\ FailedRec(hash, code).status = "failed"
           /\ FailedRec(hash, code).hash = hash
BY DEF Skipped, FailedRec, Rec

\* A judgement without answers reads back from its columns.
LEMMA PlainReadsBack ==
    /\ ReadsBack(Unevaluated)
    /\ ReadsBack(Insufficient(Null))
    /\ \A hash :
        hash # Null =>
          /\ ReadsBack(Skipped(hash))
          /\ \A code \in RecommendErrorCodes : ReadsBack(FailedRec(hash, code))
<1> DEFINE Plain(status, version, h, c) ==
        [status |-> status, version |-> version, hash |-> h, code |-> c,
         grade |-> Null, decided |-> Null, conf |-> Null, model |-> Null,
         axes |-> NoAxes]
<1>1. "current" # Null
  BY NullIsNoWord
<1>2. [a \in Axes |-> bool01(NoAxes[a])] = NoAxes
  BY DEF NoAxes, bool01
<1>3. \A status, version, h, c :
        recommendBindValues(Plain(status, version, h, c)) = Plain(status, version, h, c)
  <2> SUFFICES ASSUME NEW status, NEW version, NEW h, NEW c
               PROVE  recommendBindValues(Plain(status, version, h, c))
                        = Plain(status, version, h, c)
    OBVIOUS
  <2>1. Plain(status, version, h, c).axes = NoAxes
    OBVIOUS
  <2>2. recommendBindValues(Plain(status, version, h, c))
          = [Plain(status, version, h, c) EXCEPT !.axes = NoAxes]
    BY <1>2, <2>1, Zenon DEF recommendBindValues
  <2> QED
    BY <2>2
<1>4. /\ Unevaluated = Plain("unevaluated", Null, Null, Null)
      /\ Insufficient(Null) = Plain("insufficient_material", "current", Null, Null)
      /\ \A hash : Skipped(hash) = Plain("skipped", "current", hash, Null)
      /\ \A hash, code :
            FailedRec(hash, code) = Plain("failed", "current", hash, code)
  BY DEF Unevaluated, Insufficient, Skipped, FailedRec, Rec
<1>5. ReadsBack(Unevaluated)
  <2>1. parseCandidateRecommendation(Plain("unevaluated", Null, Null, Null))
            = Unevaluated
    BY DEF parseCandidateRecommendation
  <2> QED
    BY <1>3, <1>4, <2>1 DEF ReadsBack
<1>6. ReadsBack(Insufficient(Null))
  <2>1. parseCandidateRecommendation(
            Plain("insufficient_material", "current", Null, Null))
            = Insufficient(Null)
    BY <1>1 DEF parseCandidateRecommendation
  <2> QED
    BY <1>3, <1>4, <2>1 DEF ReadsBack
<1>7. ASSUME NEW hash, hash # Null
      PROVE  ReadsBack(Skipped(hash))
  <2>1. parseCandidateRecommendation(Plain("skipped", "current", hash, Null))
            = Skipped(hash)
    BY <1>1, <1>7 DEF parseCandidateRecommendation
  <2> QED
    BY <1>3, <1>4, <2>1 DEF ReadsBack
<1>8. ASSUME NEW hash, hash # Null, NEW code \in RecommendErrorCodes
      PROVE  ReadsBack(FailedRec(hash, code))
  <2>1. parseCandidateRecommendation(Plain("failed", "current", hash, code))
            = FailedRec(hash, code)
    BY <1>1, <1>8 DEF parseCandidateRecommendation
  <2> QED
    BY <1>3, <1>4, <2>1 DEF ReadsBack
<1> QED
  BY <1>5, <1>6, <1>7, <1>8

\* The record of a text that Jev answered about.
LEMMA JudgedIs ==
    ASSUME NEW hash, NEW decided, NEW conf, NEW model, NEW axes
    PROVE  /\ LowConfidence(hash, decided, conf, model, axes)
               = [status |-> "low_confidence", version |-> "current", hash |-> hash,
                  code |-> Null, grade |-> Null, decided |-> decided,
                  conf |-> conf, model |-> model, axes |-> axes]
           /\ Evaluated(hash, decided, conf, model, axes)
               = [status |-> "evaluated", version |-> "current", hash |-> hash,
                  code |-> Null, grade |-> decided, decided |-> decided,
                  conf |-> conf, model |-> model, axes |-> axes]
<1> DEFINE Filed(status, grade, ax) ==
               [status |-> status, version |-> "current", hash |-> hash,
                code |-> Null, grade |-> grade, decided |-> decided,
                conf |-> conf, model |-> model, axes |-> ax]
<1> DEFINE plain == Rec("low_confidence", hash, Null)
<1>1. plain = [status |-> "low_confidence", version |-> "current", hash |-> hash,
               code |-> Null, grade |-> Null, decided |-> Null, conf |-> Null,
               model |-> Null, axes |-> NoAxes]
  BY Zenon DEF Rec
<1>2. LowConfidence(hash, decided, conf, model, axes)
        = [plain EXCEPT !.decided = decided, !.conf = conf, !.model = model,
                        !.axes = axes]
  BY DEF LowConfidence
<1> HIDE DEF plain
<1>3. LowConfidence(hash, decided, conf, model, axes)
        = Filed("low_confidence", Null, axes)
  BY <1>1, <1>2
<1> DEFINE low == LowConfidence(hash, decided, conf, model, axes)
<1>4. Evaluated(hash, decided, conf, model, axes)
        = [low EXCEPT !.status = "evaluated", !.grade = decided]
  BY DEF Evaluated
<1> HIDE DEF low
<1>5. low = Filed("low_confidence", Null, axes)
  BY <1>3 DEF low
<1>6. Evaluated(hash, decided, conf, model, axes) = Filed("evaluated", decided, axes)
  BY <1>4, <1>5
<1> QED
  BY <1>3, <1>6

\* One with the answers of Jev does as well: 1 and 0 stand for yes and no.
LEMMA AnsweredReadsBack ==
    ASSUME NEW hash, hash # Null, NEW decided \in Grades \union {Null},
           NEW conf \in {"low", "high"}, NEW model \in {"jev", Null},
           NEW axes \in [Axes -> {"yes", "no"}]
    PROVE  /\ ReadsBack(LowConfidence(hash, decided, conf, model, axes))
           /\ decided # Null /\ model # Null =>
                ReadsBack(Evaluated(hash, decided, conf, model, axes))
<1> DEFINE bits == [a \in Axes |-> bool01(axes[a])]
           Filed(status, grade, ax) ==
               [status |-> status, version |-> "current", hash |-> hash,
                code |-> Null, grade |-> grade, decided |-> decided,
                conf |-> conf, model |-> model, axes |-> ax]
<1>1. hash # Null /\ "current" # Null /\ conf # Null
  BY NullIsNoWord
<1>2. [a \in Axes |-> asBool01(bits[a])] = axes
  <2>1. \A a \in Axes : asBool01(bits[a]) = axes[a]
    <3> SUFFICES ASSUME NEW a \in Axes
                 PROVE  asBool01(bits[a]) = axes[a]
      OBVIOUS
    <3>1. axes[a] \in {"yes", "no"} /\ axes[a] # Null
      BY NullIsNoWord
    <3> QED
      BY <3>1 DEF bool01, asBool01
  <2> QED
    BY <2>1
<1>3. \A a \in Axes : axes[a] # Null
  BY NullIsNoWord
<1>4. /\ LowConfidence(hash, decided, conf, model, axes)
            = Filed("low_confidence", Null, axes)
      /\ Evaluated(hash, decided, conf, model, axes)
            = Filed("evaluated", decided, axes)
  BY JudgedIs
<1>5. \A status, grade :
        recommendBindValues(Filed(status, grade, axes)) = Filed(status, grade, bits)
  <2> SUFFICES ASSUME NEW status, NEW grade
               PROVE  recommendBindValues(Filed(status, grade, axes))
                        = Filed(status, grade, bits)
    OBVIOUS
  <2>1. Filed(status, grade, axes).axes = axes
    OBVIOUS
  <2>2. recommendBindValues(Filed(status, grade, axes))
          = [Filed(status, grade, axes) EXCEPT !.axes = bits]
    BY <2>1, Zenon DEF recommendBindValues
  <2> HIDE DEF bits
  <2> QED
    BY <2>2
<1>6. /\ \A grade : Filed("low_confidence", grade, bits).axes = bits
      /\ \A grade : Filed("evaluated", grade, bits).axes = bits
  OBVIOUS
<1> HIDE DEF bits
<1>7. ReadsBack(LowConfidence(hash, decided, conf, model, axes))
  <2>1. parseCandidateRecommendation(Filed("low_confidence", Null, bits))
            = LowConfidence(hash, decided, conf, model, axes)
    BY <1>1, <1>2 DEF parseCandidateRecommendation
  <2> QED
    BY <1>4, <1>5, <2>1 DEF ReadsBack
<1>8. ASSUME decided # Null, model # Null
      PROVE  ReadsBack(Evaluated(hash, decided, conf, model, axes))
  <2>1. parseCandidateRecommendation(Filed("evaluated", decided, bits))
            = Evaluated(hash, decided, conf, model, axes)
    BY <1>1, <1>2, <1>3, <1>8 DEF parseCandidateRecommendation
  <2> QED
    BY <1>4, <1>5, <2>1 DEF ReadsBack
<1> QED
  BY <1>7, <1>8

\* What an answer is made into, by the reply it answers with.
LEMMA EvaluationForms ==
    ASSUME NEW hash, NEW r \in Reply
    PROVE  LET rec == evaluateDeRecommendation(hash, r) IN
           \/ ~r.key /\ rec = Skipped(hash)
           \/ /\ r.key
              /\ \E code \in RecommendErrorCodes : rec = FailedRec(hash, code)
           \/ /\ r.key
              /\ \E decided \in Grades \union {Null}, conf \in {"low", "high"},
                    model \in {"jev", Null}, axes \in [Axes -> {"yes", "no"}] :
                    \/ rec = LowConfidence(hash, decided, conf, model, axes)
                    \/ /\ decided # Null /\ model # Null
                       /\ rec = Evaluated(hash, decided, conf, model, axes)
<1> DEFINE rec == evaluateDeRecommendation(hash, r)
           answer == evaluateSystemOne(r)
           decided == IF answer.choice \in Grades THEN answer.choice ELSE Null
           model == IF answer.model = "" THEN Null ELSE answer.model
           axes == [a \in Axes |-> noulIsTrue(answer.noul[a])]
<1>1. CASE ~r.key
  BY <1>1 DEF evaluateDeRecommendation
<1>2. CASE r.key /\ ~answer.ok
  <2>1. RecommendErrorByJev(answer.code) \in RecommendErrorCodes
    BY DEF RecommendErrorByJev, RecommendErrorCodes
  <2>2. rec = FailedRec(hash, RecommendErrorByJev(answer.code))
    BY <1>2 DEF evaluateDeRecommendation
  <2> HIDE DEF rec, answer
  <2>3. \E code \in RecommendErrorCodes : rec = FailedRec(hash, code)
    BY <2>1, <2>2
  <2> QED
    BY <1>2, <2>3 DEF rec
<1>3. CASE r.key /\ answer.ok
  <2>1. /\ answer.model = r.model /\ r.model \in {"", "jev"}
        /\ answer.choice = r.choice
        /\ answer.conf = parsedConfidence(r.conf)
    BY <1>3 DEF evaluateSystemOne, Failure, Reply
  <2>2. answer.conf \in {"low", "high"}
    BY <2>1 DEF parsedConfidence, Reply
  <2>3. model \in {"jev", Null} /\ decided \in Grades \union {Null}
    BY <2>1
  <2>4. axes \in [Axes -> {"yes", "no"}]
    BY DEF noulIsTrue
  <2>5. \/ rec = LowConfidence(hash, decided, answer.conf, model, axes)
        \/ /\ decided # Null /\ model # Null
           /\ rec = Evaluated(hash, decided, answer.conf, model, axes)
    BY <1>3 DEF evaluateDeRecommendation
  <2> HIDE DEF rec, answer, decided, model, axes
  <2>6. \E d \in Grades \union {Null}, c \in {"low", "high"},
           m \in {"jev", Null}, ax \in [Axes -> {"yes", "no"}] :
            \/ rec = LowConfidence(hash, d, c, m, ax)
            \/ d # Null /\ m # Null /\ rec = Evaluated(hash, d, c, m, ax)
    BY <2>2, <2>3, <2>4, <2>5
  <2> QED
    BY <1>3, <2>6 DEF rec
<1> QED
  BY <1>1, <1>2, <1>3

\* Everything on record reads back from its columns.
LEMMA StoredReadsBack ==
    ASSUME NEW hashes, Null \notin hashes, NEW rec \in StoredJudgements(hashes)
    PROVE  ReadsBack(rec)
<1>1. CASE rec = Unevaluated \/ rec = Insufficient(Null)
  BY <1>1, PlainReadsBack
<1>2. ASSUME NEW hash \in hashes, NEW r \in Reply,
             rec = evaluateDeRecommendation(hash, r)
      PROVE  ReadsBack(rec)
  <2>1. \/ rec = Skipped(hash)
        \/ \E code \in RecommendErrorCodes : rec = FailedRec(hash, code)
        \/ \E decided \in Grades \union {Null}, conf \in {"low", "high"},
              model \in {"jev", Null}, axes \in [Axes -> {"yes", "no"}] :
                \/ rec = LowConfidence(hash, decided, conf, model, axes)
                \/ /\ decided # Null /\ model # Null
                   /\ rec = Evaluated(hash, decided, conf, model, axes)
    BY <1>2, EvaluationForms
  <2>2. hash # Null
    OBVIOUS
  <2>3. ASSUME NEW decided \in Grades \union {Null}, NEW conf \in {"low", "high"},
               NEW model \in {"jev", Null}, NEW axes \in [Axes -> {"yes", "no"}],
               \/ rec = LowConfidence(hash, decided, conf, model, axes)
               \/ /\ decided # Null /\ model # Null
                  /\ rec = Evaluated(hash, decided, conf, model, axes)
        PROVE  ReadsBack(rec)
    BY <2>2, <2>3, AnsweredReadsBack
  <2>4. CASE \/ rec = Skipped(hash)
             \/ \E code \in RecommendErrorCodes : rec = FailedRec(hash, code)
    BY <2>2, <2>4, PlainReadsBack
  <2> QED
    BY <2>1, <2>3, <2>4
<1> QED
  BY <1>1, <1>2 DEF StoredJudgements

\* What resolveDeRecommendation returns, and in which case.
LEMMA ResolutionForms ==
    ASSUME NEW hashes, NEW in \in JudgementRequests(hashes)
    PROVE  LET out   == resolveDeRecommendation(in)
               asked == [in.reply EXCEPT !.key = (in.deps = "key")]
           IN
           \/ /\ out.rec = in.existing /\ ~out.called
              /\ in.paywalled \/ in.hash = Null
           \/ /\ out.rec = Insufficient(Null) /\ ~out.called
              /\ in.hash = Null /\ ~isJudgedRecommendation(in.existing)
           \/ /\ out.rec = in.existing /\ ~out.called
              /\ ~in.paywalled /\ in.hash # Null /\ in.existing.hash = in.hash
           \/ /\ out.rec = in.existing /\ ~out.called
              /\ ~in.paywalled /\ in.hash # Null
              /\ in.budget < 1 \/ in.deps = "absent"
           \/ /\ out.rec = evaluateDeRecommendation(in.hash, asked) /\ out.called
              /\ ~in.paywalled /\ in.hash # Null
<1>1. CASE in.paywalled \/ in.hash = Null
  BY <1>1 DEF resolveDeRecommendation, Kept, Fresh
<1>2. CASE ~in.paywalled /\ in.hash # Null
  BY <1>2 DEF resolveDeRecommendation, Kept, Fresh, shouldReuseRecommendation
<1> QED
  BY <1>1, <1>2

\* A judgement that was just made, and did not fail, is not made again.
LEMMA FreshIsReused ==
    ASSUME NEW hash, hash # Null, NEW r \in Reply,
           evaluateDeRecommendation(hash, r).status # "failed"
    PROVE  shouldReuseRecommendation(evaluateDeRecommendation(hash, r), hash,
                                     r.key, FALSE)
<1> DEFINE rec == evaluateDeRecommendation(hash, r)
<1>1. /\ rec.version = "current" /\ rec.hash = hash
      /\ rec.status \notin {"unevaluated", "failed"}
      /\ rec.status = "skipped" => ~r.key
  <2>1. CASE ~r.key /\ rec = Skipped(hash)
    BY <2>1, PlainIs
  <2>2. CASE \E code \in RecommendErrorCodes : rec = FailedRec(hash, code)
    BY <2>2, PlainIs
  <2>3. CASE \E decided \in Grades \union {Null}, conf \in {"low", "high"},
                model \in {"jev", Null}, axes \in [Axes -> {"yes", "no"}] :
                \/ rec = LowConfidence(hash, decided, conf, model, axes)
                \/ rec = Evaluated(hash, decided, conf, model, axes)
    BY <2>3, JudgedIs
  <2>4. \/ ~r.key /\ rec = Skipped(hash)
        \/ \E code \in RecommendErrorCodes : rec = FailedRec(hash, code)
        \/ \E decided \in Grades \union {Null}, conf \in {"low", "high"},
              model \in {"jev", Null}, axes \in [Axes -> {"yes", "no"}] :
                \/ rec = LowConfidence(hash, decided, conf, model, axes)
                \/ rec = Evaluated(hash, decided, conf, model, axes)
    BY EvaluationForms
  <2> QED
    BY <2>1, <2>2, <2>3, <2>4
<1> QED
  BY <1>1 DEF shouldReuseRecommendation

\* A new judgement is about the text it was asked of.
LEMMA EvaluationHash ==
    ASSUME NEW hash, NEW r \in Reply
    PROVE  evaluateDeRecommendation(hash, r).hash = hash
BY EvaluationForms, PlainIs, JudgedIs

(***************************************************************************)
(* Whatever is asked and whatever Jev replies, what is put on record is    *)
(* again the outcome of a judgement: the judgements a request meets are    *)
(* those this code has made (resolveDeRecommendation).                     *)
(***************************************************************************)
THEOREM JudgementsStay ==
    ASSUME NEW hashes, NEW in \in JudgementRequests(hashes)
    PROVE  resolveDeRecommendation(in).rec \in StoredJudgements(hashes)
<1> DEFINE out == resolveDeRecommendation(in)
           asked == [in.reply EXCEPT !.key = (in.deps = "key")]
<1>1. in.existing \in StoredJudgements(hashes) /\ in.hash \in hashes \union {Null}
  BY DEF JudgementRequests
<1>2. asked \in Reply
  BY DEF JudgementRequests, Reply
<1>3. \/ out.rec = in.existing
      \/ out.rec = Insufficient(Null)
      \/ in.hash # Null /\ out.rec = evaluateDeRecommendation(in.hash, asked)
  BY ResolutionForms
<1> HIDE DEF out, asked
<1>4. out.rec \in StoredJudgements(hashes)
  BY <1>1, <1>2, <1>3 DEF StoredJudgements
<1> QED
  BY <1>4 DEF out

(***************************************************************************)
(* JudgementFits for every judgement on record, text, budget and reply: a  *)
(* judgement is of the text it stands beside, is made again only when      *)
(* asked for or after a failure, survives a page without a text, and is    *)
(* read back from its columns as it was stored (resolveDeRecommendation,   *)
(* recommendBindValues, parseCandidateRecommendation).                     *)
(***************************************************************************)
THEOREM JudgementIsOfItsText ==
    ASSUME NEW hashes, Null \notin hashes, NEW in \in JudgementRequests(hashes)
    PROVE  JudgementFits(in)
<1> DEFINE out == resolveDeRecommendation(in)
           asked == [in.reply EXCEPT !.key = (in.deps = "key")]
           next == [in EXCEPT !.existing = out.rec, !.force = FALSE]
           again == resolveDeRecommendation(next)
<1>1. /\ in.hash \in hashes \union {Null} /\ in.budget \in Nat
      /\ in.paywalled \in BOOLEAN
  BY DEF JudgementRequests
<1>2. asked \in Reply /\ asked.key = (in.deps = "key")
  BY DEF JudgementRequests, Reply
<1>3. \/ /\ out.rec = in.existing /\ ~out.called
         /\ in.paywalled \/ in.hash = Null
      \/ /\ out.rec = Insufficient(Null) /\ ~out.called
         /\ in.hash = Null /\ ~isJudgedRecommendation(in.existing)
      \/ /\ out.rec = in.existing /\ ~out.called
         /\ ~in.paywalled /\ in.hash # Null /\ in.existing.hash = in.hash
      \/ /\ out.rec = in.existing /\ ~out.called
         /\ ~in.paywalled /\ in.hash # Null
         /\ in.budget < 1 \/ in.deps = "absent"
      \/ /\ out.rec = evaluateDeRecommendation(in.hash, asked) /\ out.called
         /\ ~in.paywalled /\ in.hash # Null
  BY ResolutionForms
<1>4. ReadsBack(out.rec)
  BY JudgementsStay, StoredReadsBack
<1>5. out.called =>
        /\ ~in.paywalled /\ in.hash # Null
        /\ out.rec = evaluateDeRecommendation(in.hash, asked)
        /\ out.rec.hash = in.hash
  <2> HIDE DEF out, asked
  <2> QED
    BY <1>1, <1>2, <1>3, EvaluationHash
<1>6. ~in.paywalled /\ in.hash # Null /\ in.budget > 0 /\ in.deps = "key" =>
         out.rec.hash = in.hash
  <2> HIDE DEF out, asked
  <2>1. ~(in.budget > 0 /\ in.budget < 1)
    BY <1>1
  <2> QED
    BY <1>3, <1>5, <2>1
<1>7. isJudgedRecommendation(in.existing) /\ (in.paywalled \/ in.hash = Null) =>
         out.rec = in.existing
  <2> HIDE DEF out, asked
  <2> QED
    BY <1>3
<1>8. out.called /\ out.rec.status # "failed" => ~again.called
  <2> SUFFICES ASSUME out.called, out.rec.status # "failed"
               PROVE  ~again.called
    OBVIOUS
  <2>1. shouldReuseRecommendation(out.rec, in.hash, in.deps = "key", FALSE)
    <3> HIDE DEF out, asked
    <3>1. /\ in.hash # Null
          /\ out.rec = evaluateDeRecommendation(in.hash, asked)
      BY <1>5
    <3>2. shouldReuseRecommendation(out.rec, in.hash, asked.key, FALSE)
      BY <1>2, <3>1, FreshIsReused
    <3> QED
      BY <1>2, <3>2, Zenon
  <2> HIDE DEF out
  <2>2. /\ next.existing = out.rec /\ next.force = FALSE
        /\ next.hash = in.hash /\ next.paywalled = in.paywalled
        /\ next.deps = in.deps
    BY DEF JudgementRequests
  <2>3. ~next.paywalled /\ next.hash # Null
    BY <1>3, <1>5, <2>2
  <2>4. shouldReuseRecommendation(next.existing, next.hash, next.deps = "key",
                                  next.force)
    BY <2>1, <2>2, Zenon
  <2> HIDE DEF next
  <2>5. again = Kept(next.existing)
    BY <2>3, <2>4 DEF resolveDeRecommendation
  <2> QED
    BY <2>5 DEF Kept
<1>9. /\ ReadsBack(out.rec)
      /\ out.called => out.rec.hash = in.hash
      /\ ~in.paywalled /\ in.hash # Null /\ in.budget > 0 /\ in.deps = "key" =>
            out.rec.hash = in.hash
      /\ isJudgedRecommendation(in.existing) /\ (in.paywalled \/ in.hash = Null) =>
            out.rec = in.existing
      /\ out.called /\ out.rec.status # "failed" => ~again.called
  BY <1>4, <1>5, <1>6, <1>7, <1>8
<1> QED
  BY <1>9, Zenon DEF JudgementFits
=============================================================================
