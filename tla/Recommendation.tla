--------------------------- MODULE Recommendation ---------------------------
(***************************************************************************)
(* The judgement of a candidate: the answers of Jev (jev/client.ts), what  *)
(* is made of them (recommend/evaluate.ts, classify/article.ts), when a    *)
(* new judgement is asked for (candidates/recommend.ts) and how it is      *)
(* stored and read back (recommend/parse.ts, classify/parse.ts).  Scores   *)
(* are abstracted to the side of the threshold they fall on; the time and  *)
(* token counts are left out.                                              *)
(***************************************************************************)
EXTENDS Naturals

CONSTANTS
    Grades,    \* the recommendation grades Jev may choose
    Shelves,   \* the topics (and, in the same way, kinds) of an article
    Hashes,    \* hashes of article excerpts
    Null       \* JavaScript's null

ASSUME NullIsNoValue == Null \notin Grades \union Shelves \union Hashes
ASSUME NullIsNoWord ==
    Null \notin {"yes", "no", "0", "1", "low", "high", "jev", "current"}

Axes  == {"relevant", "concrete", "verification"}
RecommendErrorCodes == {"recommend_http", "recommend_timeout",
                        "recommend_invalid_payload", "recommend_internal"}

NoAxes == [a \in Axes |-> Null]

(***************************************************************************)
(* A reply of the model: whether the request succeeded and the fields of   *)
(* the payload.  "bad" is a field that is missing or of the wrong type.    *)
(***************************************************************************)
Reply == [http: {"ok", "status", "timeout", "network"}, key: BOOLEAN,
          model: {"bad", "", "jev"}, choice: {"bad", "other"} \union Grades,
          conf: {"bad", "low", "high"},
          noul: [Axes -> {"bad", "below", "above"}]]

parsedConfidence(c) == IF c = "bad" THEN "low" ELSE c

Failure(code) == [ok |-> FALSE, code |-> code]

evaluateSystemOne(r) ==
    IF ~r.key THEN Failure("missing_key")
    ELSE IF r.http # "ok" THEN
        Failure(CASE r.http = "status"  -> "http"
                  [] r.http = "timeout" -> "timeout"
                  [] r.http = "network" -> "network")
    ELSE IF \/ r.model = "bad"
            \/ r.choice = "bad"
            \/ \E a \in Axes : r.noul[a] = "bad"
        THEN Failure("invalid_payload")
    ELSE [ok |-> TRUE, model |-> r.model, choice |-> r.choice,
          conf |-> parsedConfidence(r.conf), noul |-> r.noul]

RecommendErrorByJev(code) ==
    CASE code = "http"            -> "recommend_http"
      [] code = "timeout"         -> "recommend_timeout"
      [] code = "invalid_payload" -> "recommend_invalid_payload"
      [] OTHER                    -> "recommend_internal"

(***************************************************************************)
(* The constructors of recommend/taxonomy.ts.  version is the current one  *)
(* in every recommendation but the unevaluated.                            *)
(***************************************************************************)
Rec(status, hash, code) ==
    [status |-> status, version |-> "current", hash |-> hash, code |-> code,
     grade |-> Null, decided |-> Null, conf |-> Null, model |-> Null,
     axes |-> NoAxes]

Unevaluated == [Rec("unevaluated", Null, Null) EXCEPT !.version = Null]
Insufficient(hash)  == Rec("insufficient_material", hash, Null)
Skipped(hash)       == Rec("skipped", hash, Null)
FailedRec(hash, code) == Rec("failed", hash, code)

LowConfidence(hash, decided, conf, model, axes) ==
    [Rec("low_confidence", hash, Null) EXCEPT
        !.decided = decided, !.conf = conf, !.model = model, !.axes = axes]

Evaluated(hash, grade, conf, model, axes) ==
    [LowConfidence(hash, grade, conf, model, axes) EXCEPT
        !.status = "evaluated", !.grade = grade]

noulIsTrue(n) == IF n = "above" THEN "yes" ELSE "no"

evaluateDeRecommendation(hash, r) ==
    IF ~r.key THEN Skipped(hash)
    ELSE LET answer == evaluateSystemOne(r) IN
    IF ~answer.ok THEN FailedRec(hash, RecommendErrorByJev(answer.code))
    ELSE LET decided == IF answer.choice \in Grades THEN answer.choice ELSE Null
             model   == IF answer.model = "" THEN Null ELSE answer.model
             axes    == [a \in Axes |-> noulIsTrue(answer.noul[a])] IN
    IF decided # Null /\ answer.conf = "high" /\ model # Null
    THEN Evaluated(hash, decided, answer.conf, model, axes)
    ELSE LowConfidence(hash, decided, answer.conf, model, axes)

isJudgedRecommendation(rec) == rec.status \in {"evaluated", "low_confidence"}

\* Slip: a judgement is reused whatever text it was made from.
reuseAnyText(rec, hash, hasKey, force) ==
    /\ ~force
    /\ rec.status \notin {"unevaluated", "failed"}
    /\ rec.status = "skipped" => ~hasKey

shouldReuseRecommendation(rec, hash, hasKey, force) ==
    /\ ~force
    /\ rec.status \notin {"unevaluated", "failed"}
    /\ rec.version = "current"
    /\ rec.hash = hash
    /\ rec.status = "skipped" => ~hasKey
    /\ isJudgedRecommendation(rec) => rec.hash # Null

(***************************************************************************)
(* resolveDeRecommendation: keep the judgement or make a new one.  deps    *)
(* says whether Jev is at hand ("absent", "nokey", "key"), budget how many *)
(* calls are left.                                                         *)
(***************************************************************************)
Kept(rec)  == [rec |-> rec, called |-> FALSE, skipped |-> FALSE]
Fresh(rec, called) == [rec |-> rec, called |-> called, skipped |-> FALSE]

resolveDeRecommendation(in) ==
    LET hasKey == in.deps = "key" IN
    IF in.paywalled THEN Kept(in.existing)
    ELSE IF in.hash = Null THEN
        IF \/ isJudgedRecommendation(in.existing)
           \/ shouldReuseRecommendation(in.existing, Null, hasKey, FALSE)
        THEN Kept(in.existing)
        ELSE Fresh(Insufficient(Null), FALSE)
    ELSE IF shouldReuseRecommendation(in.existing, in.hash, hasKey, in.force)
        THEN Kept(in.existing)
    ELSE IF in.budget < 1 \/ in.deps = "absent" THEN
        [Kept(in.existing) EXCEPT !.skipped = in.existing.status = "unevaluated"]
    ELSE Fresh(evaluateDeRecommendation(in.hash,
                    [in.reply EXCEPT !.key = hasKey]), TRUE)

(***************************************************************************)
(* The columns of candidate_articles and the reading of a row.             *)
(***************************************************************************)
bool01(v)   == IF v = Null THEN Null ELSE IF v = "yes" THEN "1" ELSE "0"
asBool01(v) == CASE v = "1" -> "yes" [] v = "0" -> "no" [] OTHER -> Null

recommendBindValues(rec) ==
    [rec EXCEPT !.axes = [a \in Axes |-> bool01(rec.axes[a])]]

parseCandidateRecommendation(row) ==
    LET needsHash == row.status \notin {"insufficient_material", "failed"}
        axes      == [a \in Axes |-> asBool01(row.axes[a])]
        whole     == \A a \in Axes : axes[a] # Null IN
    IF \/ row.status = "unevaluated"
       \/ row.version = Null
       \/ needsHash /\ row.hash = Null
    THEN Unevaluated
    ELSE CASE row.status = "insufficient_material" -> Insufficient(row.hash)
           [] row.status = "skipped" -> Skipped(row.hash)
           [] row.status = "failed"  ->
                FailedRec(row.hash, IF row.code \in RecommendErrorCodes
                                    THEN row.code ELSE "recommend_internal")
           [] OTHER ->
                IF /\ row.status = "evaluated"
                   /\ Null \notin {row.grade, row.decided, row.conf, row.model}
                   /\ whole
                THEN Evaluated(row.hash, row.grade, row.conf, row.model, axes)
                ELSE LowConfidence(row.hash, row.decided, row.conf, row.model,
                                   axes)

(***************************************************************************)
(* The classification of a finished article, for one shelf question (topic *)
(* or kind; the two are treated alike).                                    *)
(***************************************************************************)
Class(status, shelf, decided, conf, model) ==
    [status |-> status, shelf |-> shelf, decided |-> decided, conf |-> conf,
     model |-> model]

unavailableClassification(status) ==
    Class(status, "uncategorized", Null, Null, Null)

shelfChoice(decided, conf) ==
    IF decided # Null /\ conf = "high" THEN decided ELSE "uncategorized"

attemptedClassification(decided, conf, model) ==
    LET shelf == shelfChoice(decided, conf) IN
    IF model = Null \/ conf = Null \/ shelf \notin Shelves
    THEN Class("low_confidence", shelf, decided, conf, model)
    ELSE Class("classified", shelf, shelf, conf, model)

classifyArticle(r, shelf) ==
    IF ~r.key THEN unavailableClassification("skipped")
    ELSE LET answer == evaluateSystemOne(r) IN
    IF ~answer.ok THEN unavailableClassification("failed")
    ELSE attemptedClassification(IF shelf \in Shelves THEN shelf ELSE Null,
                                 answer.conf, answer.model)

parseArticleClassification(c) ==
    IF c.status \in {"skipped", "failed"} THEN unavailableClassification(c.status)
    ELSE attemptedClassification(
        IF c.decided # Null THEN c.decided
        ELSE IF c.shelf \in Shelves THEN c.shelf ELSE Null,
        c.conf, IF c.model = "" THEN Null ELSE c.model)
=============================================================================
