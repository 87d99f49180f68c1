---------------------------- MODULE DailySelect ----------------------------
(***************************************************************************)
(* Which candidates an issue of the digest takes (daily/select.ts): up to  *)
(* a quota of each bucket, no more than MaxPerSource of one site over all  *)
(* buckets, and the order in which unjudged candidates are evaluated.      *)
(* Pure functions; DigestRun has the run that calls them.                  *)
(*                                                                         *)
(* A candidate is a record: id, host and path of its URL, found (when it   *)
(* was discovered), eligible fields, and the judgement: grade (Ungraded    *)
(* unless evaluated), concrete, verification and confidence.               *)
(***************************************************************************)
EXTENDS Integers, FiniteSets, SequencesExt, Orders

CONSTANTS
    Quotas,        \* the most an issue takes of each bucket
    MaxPerSource,  \* and of one site
    Ungraded

\* DIGEST_BUCKET_QUOTAS and DIGEST_MAX_PER_SOURCE
ASSUME LimitsAssumption ==
    Quotas \in [{"deep", "tech", "general"} -> Nat] /\ MaxPerSource \in Nat

Buckets == <<"deep", "tech", "general">>

isDigestEligible(c) == c.listed /\ c.fetched /\ c.free /\ ~c.excluded

digestBucketOfGrade(grade) ==
    CASE grade = "recommended"  -> "deep"
      [] grade = "related"      -> "tech"
      [] grade = "low_priority" -> "general"

digestHasSubstance(c) == c.grade # Ungraded /\ c.concrete = 1

digestNeedsEvaluation(c) == isDigestEligible(c) /\ c.grade = Ungraded

\* The host; on Zenn the author or the publication.
digestSourceKey(c) ==
    IF c.host # "zenn.dev" \/ c.path = <<>> THEN <<c.host>>
    ELSE IF c.path[1] = "p" /\ Len(c.path) > 1 THEN <<c.host, "p", c.path[2]>>
    ELSE <<c.host, c.path[1]>>

(***************************************************************************)
(* The order inside a bucket: the first score that differs decides.        *)
(***************************************************************************)
compareDigestCandidates(prior, l, r) ==
    LET Score(c) == <<c.concrete, c.verification, c.confidence,
                      IF digestSourceKey(c) \in DOMAIN prior
                      THEN prior[digestSourceKey(c)] ELSE 0,
                      c.found, c.id>>
    IN  Before(Score(l), Score(r))

compareNewest(l, r) == Before(<<l.found, l.id>>, <<r.found, r.id>>)

(***************************************************************************)
(* selectDigestCandidates: the buckets in turn, each from its best down    *)
(***************************************************************************)
Takable(pool, used, bucket) ==
    {c \in pool : /\ isDigestEligible(c) /\ digestHasSubstance(c)
                  /\ c.id \notin used
                  /\ digestBucketOfGrade(c.grade) = bucket}

Ranked(pool, used, prior, bucket) ==
    InOrder(Takable(pool, used, bucket),
            LAMBDA l, r : compareDigestCandidates(prior, l, r))

OfBucket(chosen, bucket) ==
    Cardinality({i \in DOMAIN chosen : digestBucketOfGrade(chosen[i].grade) = bucket})

OfSource(chosen, key) ==
    Cardinality({i \in DOMAIN chosen : digestSourceKey(chosen[i]) = key})

\* Slip: a site is counted in each bucket by itself.
takePerBucket(chosen, c) ==
    LET bucket == digestBucketOfGrade(c.grade)
        here   == SelectSeq(chosen, LAMBDA d : digestBucketOfGrade(d.grade) = bucket)
    IN  IF Len(here) >= Quotas[bucket] \/ OfSource(here, digestSourceKey(c)) >= MaxPerSource
        THEN chosen ELSE Append(chosen, c)

take(chosen, c) ==
    IF \/ OfBucket(chosen, digestBucketOfGrade(c.grade))
            >= Quotas[digestBucketOfGrade(c.grade)]
       \/ OfSource(chosen, digestSourceKey(c)) >= MaxPerSource
    THEN chosen ELSE Append(chosen, c)

selectDigestCandidates(pool, used, prior) ==
    FoldLeft(take, <<>>,
             FlattenSeq([b \in DOMAIN Buckets |-> Ranked(pool, used, prior, Buckets[b])]))

countDigestBuckets(chosen) ==
    [bucket \in DOMAIN Quotas |-> OfBucket(chosen, bucket)]

digestQuotasFilled(counts) == \A bucket \in DOMAIN Quotas : counts[bucket] >= Quotas[bucket]

digestSelectionSaturated(pool, used) ==
    digestQuotasFilled(countDigestBuckets(selectDigestCandidates(pool, used, <<>>)))

digestSourceAtCap(pool, key, used) ==
    Cardinality({c \in pool : /\ c.id \notin used
                              /\ isDigestEligible(c) /\ digestHasSubstance(c)
                              /\ digestSourceKey(c) = key}) >= MaxPerSource

(***************************************************************************)
(* orderDigestEvaluations: the newest of every site, then the second of    *)
(* every site, and so on; the sites by their newest.                       *)
(***************************************************************************)
SameSource(pool, c) == {d \in pool : digestSourceKey(d) = digestSourceKey(c)}

Round(pool, c) == Cardinality({d \in SameSource(pool, c) : compareNewest(d, c)})

NewestOf(pool, c) ==
    CHOOSE d \in SameSource(pool, c) :
        \A e \in SameSource(pool, c) \ {d} : compareNewest(d, e)

orderDigestEvaluations(pool) ==
    InOrder(pool, LAMBDA l, r :
        LET a == Round(pool, l)  b == Round(pool, r) IN
        \/ a < b
        \/ a = b /\ compareNewest(NewestOf(pool, l), NewestOf(pool, r)))

(***************************************************************************)
(* stepEvaluate: the index of the next candidate to judge, from index on;  *)
(* one past the list when there is none.                                   *)
(***************************************************************************)
nextToEvaluate(pool, used, pending, index) ==
    LET Wanted(i) ==
            /\ pending[i] \in pool
            /\ digestNeedsEvaluation(pending[i])
            /\ ~digestSourceAtCap(pool, digestSourceKey(pending[i]), used)
        found == {i \in index..Len(pending) : Wanted(i)}
    IN  IF digestSelectionSaturated(pool, used) THEN index
        ELSE IF found = {} THEN Len(pending) + 1
        ELSE CHOOSE i \in found : \A j \in found : i <= j
=============================================================================
