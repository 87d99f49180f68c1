-------------------------- MODULE CompositionProofs --------------------------
(***************************************************************************)
(* Proofs about the parts side by side: each part of a behaviour of Parts  *)
(* is a behaviour of the part alone, so what is proved of the parts holds  *)
(* of the whole.                                                           *)
(***************************************************************************)
EXTENDS PartsProperties, CandidateProofs, DeployProofs, PartsProofs, PureProofs

\* A behaviour of Parts is one of the candidate and of the deployment.
LEMMA CandidateAndDeployment ==
    PartsSpec => CandidateSpec /\ DeploySpec
<1>1. PartsInit => CandidateInit /\ DeployInit
  BY DEF PartsInit
<1>2. [PartsNext]_partVars => [CandidateNext]_candidateVars /\ [DeployNext]_deployVars
  BY Zenon DEF PartsNext, partVars
<1> QED
  BY <1>1, <1>2, PTL DEF PartsSpec, CandidateSpec, DeploySpec

\* One of the interest, the telemetry, the review and the routes.
LEMMA OtherParts ==
    PartsSpec => InterestSpec /\ TelemetrySpec /\ RiskSpec /\ RouteSpec
<1>1. PartsInit => InterestInit /\ TelemetryInit /\ RiskInit /\ RouteInit
  BY DEF PartsInit
<1>2. [PartsNext]_partVars =>
        /\ [InterestNext]_interestVars /\ [TelemetryNext]_telemetryVars
        /\ [RiskNext]_riskVars /\ [RouteNext]_routeVars
  BY Zenon DEF PartsNext, partVars
<1> QED
  BY <1>1, <1>2, PTL
     DEF PartsSpec, InterestSpec, TelemetrySpec, RiskSpec, RouteSpec

(***************************************************************************)
(* Every part keeps to its types, whichever of them moves.                 *)
(***************************************************************************)
THEOREM PartsAreTyped == PartsSpec => []TypeOK
<1>1. /\ CandidateTypeOK /\ DeployTypeOK /\ InterestTypeOK
      /\ TelemetryTypeOK /\ RiskTypeOK /\ RouteTypeOK
      => TypeOK
  BY DEF TypeOK
<1> QED
  BY <1>1, CandidateAndDeployment, OtherParts, CandidateTypeCorrect,
     DeploymentIsTyped, InterestIsTyped, TelemetryTypeCorrect, RiskTypeCorrect,
     RouteTypeCorrect, PTL

(***************************************************************************)
(* What is proved of a candidate, of the deployment, of the interest, of   *)
(* the telemetry, of the review and of the routes holds while the others   *)
(* go on as well.                                                          *)
(***************************************************************************)
THEOREM PartsKeepTheirPromises ==
    PartsSpec =>
        /\ [](SettledLinkAgrees /\ DeliveredIsShown)
        /\ NothingForgotten
        /\ KeepsPromise
        /\ [](PassedStaysLive /\ SmokeArticleIsCleared /\ FailureIsTold)
        /\ [](InterestIsEarned /\ PingsMatchTheJob)
        /\ [](DangerIsReviewedOnce /\ RoutesGuardWhatTheyChange)
<1>1. PartsSpec => [](SettledLinkAgrees /\ DeliveredIsShown)
  BY CandidateAndDeployment, SettledLinkIsTheJobs, DeliveredArticleIsShown, PTL
<1>2. PartsSpec => NothingForgotten /\ KeepsPromise
  BY CandidateAndDeployment, NothingIsForgotten, WorkflowKeepsPromise, PTL
<1>3. PartsSpec => [](PassedStaysLive /\ SmokeArticleIsCleared /\ FailureIsTold)
  BY CandidateAndDeployment, PassedRunStaysLive, CleanupClears, FailuresAreTold, PTL
<1>4. PartsSpec => [](InterestIsEarned /\ PingsMatchTheJob)
  BY OtherParts, WhatIsLearntIsEarned, PingsAreTrue, PTL
<1>5. PartsSpec => [](DangerIsReviewedOnce /\ RoutesGuardWhatTheyChange)
  BY OtherParts, DangerIsReviewed, RoutesGuard, PTL
<1> QED
  BY <1>1, <1>2, <1>3, <1>4, <1>5, PTL

\* The sequences a sample is made of.
LEMMA ShortSequences ==
    /\ Len(<<>>) = 0
    /\ \A x : Len(<<x>>) = 1 /\ <<x>>[1] = x
    /\ \A x, y : Len(<<x, y>>) = 2 /\ <<x, y>>[2] = y
    /\ \A x, y : Append(<<x>>, y) = <<x, y>>
<1>1. ASSUME NEW x, NEW y
      PROVE  Append(<<x>>, y) = <<x, y>>
  <2> DEFINE s == Append(<<x>>, y)
  <2>1. <<x>> \in Seq({x, y}) /\ <<x, y>> \in Seq({x, y})
    OBVIOUS
  <2>2. s \in Seq({x, y}) /\ Len(s) = 2 /\ s[1] = x /\ s[2] = y
    BY <2>1
  <2>3. s = [i \in 1..2 |-> s[i]] /\ <<x, y>> = [i \in 1..2 |-> <<x, y>>[i]]
    BY <2>1, <2>2
  <2> HIDE DEF s
  <2>4. s = <<x, y>>
    BY <2>2, <2>3
  <2> QED
    BY <2>4 DEF s
<1>2. Len(<<>>) = 0 /\ \A x : Len(<<x>>) = 1 /\ <<x>>[1] = x
  OBVIOUS
<1>3. \A x, y : Len(<<x, y>>) = 2 /\ <<x, y>>[2] = y
  OBVIOUS
<1> QED
  BY <1>1, <1>2, <1>3, Zenon

(***************************************************************************)
(* Every judgement on record fits its text under every request that meets  *)
(* it (resolveDeRecommendation): the sample of Parts is such a judgement,  *)
(* then such a request.                                                    *)
(***************************************************************************)
THEOREM JudgementsFitTheirText == PartsSpec => []JudgementFitsTheText
<1> DEFINE hashes == Hashes \union {EarlierHash}
           Sampled ==
               part = "judgement" =>
                  \/ sample = <<>>
                  \/ \E rec \in StoredJudgements(hashes) : sample = <<rec>>
                  \/ \E rec \in StoredJudgements(hashes) :
                        \E in \in JudgementRequests(hashes) : sample = <<rec, in>>
<1> HIDE DEF hashes
<1>1. PartsInit => Sampled
  BY DEF PartsInit, FirstSample
<1>2. Sampled /\ [PartsNext]_partVars => Sampled'
  <2> SUFFICES ASSUME Sampled, [PartsNext]_partVars, part' = "judgement"
               PROVE  \/ sample' = <<>>
                      \/ \E rec \in StoredJudgements(hashes) : sample' = <<rec>>
                      \/ \E rec \in StoredJudgements(hashes) :
                            \E in \in JudgementRequests(hashes) : sample' = <<rec, in>>
    OBVIOUS
  <2>1. /\ part = "judgement"
        /\ UNCHANGED sample \/ MoreToJudge
    BY DEF PartsNext, partVars
  <2>2. CASE UNCHANGED sample
    BY <2>1, <2>2
  <2>3. CASE MoreToJudge /\ sample = <<>>
    <3>1. PICK rec \in {Unevaluated, Insufficient(Null)} \union
                {evaluateDeRecommendation(h, r) :
                    h \in Hashes \union {EarlierHash}, r \in SampleReplies} :
              sample' = <<rec>>
      BY <2>3 DEF MoreToJudge
    <3>2. rec \in StoredJudgements(hashes)
      BY SamplesAreReplies DEF StoredJudgements, hashes
    <3> QED
      BY <3>1, <3>2
  <2>4. CASE MoreToJudge /\ Len(sample) = 1
    <3>1. PICK in \in [existing: {sample[1]}, hash: Hashes \union {Null},
                       paywalled: BOOLEAN, force: BOOLEAN, budget: {0, 1},
                       deps: {"absent", "nokey", "key"}, reply: SampleReplies] :
              sample' = Append(sample, in)
      BY <2>4 DEF MoreToJudge
    <3>2. PICK rec \in StoredJudgements(hashes) : sample = <<rec>>
      BY ShortSequences, <2>1, <2>4
    <3>3. in \in JudgementRequests(hashes)
      BY ShortSequences, <3>2, SamplesAreReplies DEF JudgementRequests, hashes
    <3>4. sample' = <<rec, in>>
      BY ShortSequences, <3>1, <3>2
    <3> QED
      BY <3>3, <3>4, Zenon
  <2>5. MoreToJudge => sample = <<>> \/ Len(sample) = 1
    BY DEF MoreToJudge
  <2> QED
    BY <2>1, <2>2, <2>3, <2>4, <2>5, Zenon
<1>3. Sampled => JudgementFitsTheText
  <2> SUFFICES ASSUME Sampled, part = "judgement", Len(sample) = 2
               PROVE  JudgementFits(sample[2])
    BY DEF JudgementFitsTheText
  <2>1. Null \notin hashes
    BY NullIsNoValue, SamplesAreReplies DEF hashes
  <2>2. PICK in \in JudgementRequests(hashes) : sample[2] = in
    BY ShortSequences
  <2> QED
    BY <2>1, <2>2, JudgementIsOfItsText
<1> HIDE DEF Sampled
<1> QED
  BY <1>1, <1>2, <1>3, PTL DEF PartsSpec

(***************************************************************************)
(* An issue takes what it should of every pool the store can have: what is *)
(* wanted and no more than the quota of a bucket and of a site, and leaves *)
(* out only what a limit keeps out; and candidates are judged in rounds,   *)
(* nobody's second before everybody's first (selectDigestCandidates,       *)
(* orderDigestEvaluations).                                                *)
(***************************************************************************)
THEOREM SelectionsAreJustified == PartsSpec => []SelectionIsJustified
<1> DEFINE Sampled == part = "selection" =>
               /\ sample = [pool |-> sample.pool, used |-> sample.used, prior |-> sample.prior]
               /\ IsFiniteSet(sample.pool) /\ sample.pool \subseteq Pool
               /\ \A c, d \in sample.pool : c.id = d.id => c = d
               /\ sample.prior \in Priors
<1>1. PartsInit => Sampled
  <2> SUFFICES ASSUME PartsInit, part = "selection" PROVE Sampled
    OBVIOUS
  <2>1. sample \in [pool: {{}}, used: UsedIds, prior: Priors]
    BY DEF PartsInit, FirstSample
  <2>2. /\ sample = [pool |-> sample.pool, used |-> sample.used, prior |-> sample.prior]
        /\ sample.pool = {} /\ sample.prior \in Priors
    BY <2>1
  <2> QED
    BY <2>2, FS_EmptySet
<1>2. Sampled /\ [PartsNext]_partVars => Sampled'
  <2> SUFFICES ASSUME Sampled, [PartsNext]_partVars, part' = "selection" PROVE Sampled'
    BY DEF PartsNext, partVars
  <2>1. part = "selection" /\ (sample' = sample \/ MoreToSelect)
    BY Zenon DEF PartsNext, partVars
  <2>2. CASE sample' = sample
    BY <2>1, <2>2
  <2>3. CASE MoreToSelect
    <3>1. PICK c \in Pool : /\ \A d \in sample.pool : d.id < c.id
                            /\ sample' = [sample EXCEPT !.pool = @ \union {c}]
      BY <2>3, Zenon DEF MoreToSelect, Later
    <3>2. sample' = [pool |-> sample.pool \union {c}, used |-> sample.used, prior |-> sample.prior]
      BY <2>1, <3>1
    <3>3. /\ sample'.pool = sample.pool \union {c}
          /\ sample'.used = sample.used /\ sample'.prior = sample.prior
      BY <3>2
    <3>4. IsFiniteSet(sample'.pool)
      BY <2>1, <3>3, FS_AddElement
    <3>5. \A a \in Pool : a.id \in Int
      BY PoolAssumption DEF PoolOK
    <3>6. \A a, b \in sample'.pool : a.id = b.id => a = b
      BY <2>1, <3>1, <3>3, <3>5
    <3> QED
      BY <2>1, <3>2, <3>3, <3>4, <3>6
  <2> QED
    BY <2>1, <2>2, <2>3
<1>3. Sampled => SelectionIsJustified
  <2> SUFFICES ASSUME Sampled, part = "selection" PROVE SelectionIsJustified
    BY DEF SelectionIsJustified
  <2>1. Candidates(sample.pool)
    BY PoolAssumption DEF PoolOK, Candidates, Scored
  <2>2. Weights(sample.prior)
    BY PoolAssumption DEF PoolOK, Weights
  <2>3. Wanted(sample.pool, sample.used) =
            {c \in sample.pool : isDigestEligible(c) /\ digestHasSubstance(c) /\ c.id \notin sample.used}
    BY DEF Wanted
  <2>4. LET chosen == selectDigestCandidates(sample.pool, sample.used, sample.prior)
        IN  /\ ToSet(chosen) \subseteq Wanted(sample.pool, sample.used)
            /\ Cardinality(ToSet(chosen)) = Len(chosen)
            /\ WithinLimits(chosen, sample.pool)
            /\ \A c \in Wanted(sample.pool, sample.used) \ ToSet(chosen) :
                    LeftOutRightly(c, chosen, sample.prior)
    BY <2>1, <2>2, SelectionRightly
  <2>5. LET order == orderDigestEvaluations(sample.pool)
        IN  \A i, j \in DOMAIN order :
                i < j => Round(sample.pool, order[i]) <= Round(sample.pool, order[j])
    BY <2>1, EvaluatedInRounds
  <2> QED
    BY <2>3, <2>4, <2>5 DEF SelectionIsJustified
<1> QED
  BY <1>1, <1>2, <1>3, PTL DEF PartsSpec

\* What has grown of a diff is read rightly.
LEMMA DiffsAreRead ==
    PartsSpec => [](part = "coverage" /\ sample # <<>> => RightlyRead(sample))
<1> DEFINE Sampled == part = "coverage" /\ sample # <<>> => RightlyRead(sample)
<1>1. PartsInit => Sampled
    <2> SUFFICES ASSUME PartsInit, part = "coverage" PROVE sample = <<>>
        OBVIOUS
    <2>1. sample \in FirstSample("coverage")
        BY DEF PartsInit
    <2> QED BY <2>1 DEF FirstSample
<1>2. Sampled /\ [PartsNext]_partVars => Sampled'
    <2> SUFFICES ASSUME Sampled, [PartsNext]_partVars, part' = "coverage", sample' # <<>>
                 PROVE  RightlyRead(sample')
        BY DEF RightlyRead, InStep, NumbersRead, FoundChanges, AddedLines, Misleading, StateRead,
               FileOf, InHunk, NextNumber, LastOf
    <2>1. part = "coverage" /\ (sample' = sample \/ MoreToReport)
        BY Zenon DEF PartsNext, partVars
    <2>2. sample = <<>> \/ RightlyRead(sample)
        BY <2>1
    <2>3. CASE sample' = sample
        BY <2>2, <2>3
    <2>4. CASE \E f \in WorkerSources \union {NoPath} :
                  sample' = sample \o <<DiffLine("git", NoPath, 0), DiffLine("header", f, 0)>>
        <3>1. PICK f \in WorkerSources \union {NoPath} :
                  sample' = sample \o <<DiffLine("git", NoPath, 0), DiffLine("header", f, 0)>>
            BY <2>4
        <3> DEFINE g == DiffLine("git", NoPath, 0)
                   h == DiffLine("header", f, 0)
        <3>2. /\ g \in DiffLines /\ g.kind = "git"
              /\ h \in DiffLines /\ h.kind = "header"
            BY DEF DiffLine, DiffLines, DiffKinds
        <3>3. sample \in Seq(DiffLines)
            BY <2>2, EmptySeq DEF RightlyRead
        <3> HIDE DEF g, h
        <3>4. sample \o <<g, h>> = Append(Append(sample, g), h)
            BY <3>2, <3>3
        <3> QED BY <3>1, <3>2, <3>4, <2>2, HeaderRead DEF g, h
    <2>5. CASE sample # <<>> /\ \E n \in HunkStarts : sample' = Append(sample, DiffLine("hunk", NoPath, n))
        <3>1. PICK n \in HunkStarts : sample' = Append(sample, DiffLine("hunk", NoPath, n))
            BY <2>5
        <3>2. n \in Nat \ {0}
            BY ReportAssumption DEF ReportInputOK
        <3> DEFINE x == DiffLine("hunk", NoPath, n)
        <3>3. x \in DiffLines /\ x.kind = "hunk" /\ x.at # 0
            BY <3>2 DEF DiffLine, DiffLines, DiffKinds
        <3> HIDE DEF x
        <3> QED BY <3>1, <3>3, <2>2, <2>5, HunkRead DEF x
    <2>6. CASE InHunk(sample) /\ \E line \in HunkLines : sample' = Append(sample, line)
        <3>1. PICK line \in HunkLines : sample' = Append(sample, line)
            BY <2>6
        <3>2. /\ line \in DiffLines
              /\ line.kind \in {"add", "del", "context", "note"}
            BY ReportAssumption DEF ReportInputOK, DiffLines, DiffKinds
        <3>3. sample # <<>>
            <4>1. LastOf("hunk", <<>>) = 0 /\ LastOf("git", <<>>) = 0
                <5>1. <<>> \in Seq(DiffLines) /\ Len(<<>>) = 0
                    BY EmptySeq
                <5>2. 0..0 = {0}
                    OBVIOUS
                <5>3. LastOf("hunk", <<>>) \in 0..Len(<<>>) /\ LastOf("git", <<>>) \in 0..Len(<<>>)
                    BY <5>1, LastIsALine
                <5>4. 0..Len(<<>>) = {0}
                    BY <5>1, <5>2
                <5> QED BY <5>3, <5>4
            <4> QED BY <4>1, <2>6 DEF InHunk
        <3> QED BY <3>1, <3>2, <3>3, <2>2, <2>6, OtherLineRead, AddedLineRead
    <2>7. MoreToReport =>
            \/ \E f \in WorkerSources \union {NoPath} :
                  sample' = sample \o <<DiffLine("git", NoPath, 0), DiffLine("header", f, 0)>>
            \/ sample # <<>> /\ \E n \in HunkStarts : sample' = Append(sample, DiffLine("hunk", NoPath, n))
            \/ InHunk(sample) /\ \E line \in HunkLines : sample' = Append(sample, line)
        BY DEF MoreToReport
    <2> QED BY <2>1, <2>3, <2>4, <2>5, <2>6, <2>7, Zenon
<1> HIDE DEF Sampled
<1>3. PartsSpec => []Sampled
    BY <1>1, <1>2, PTL DEF PartsSpec
<1> QED BY <1>3 DEF Sampled

(***************************************************************************)
(* The report says of every line that a diff adds what the tests did with  *)
(* it, whatever the diff, its hunks and the recorded counts: each changed  *)
(* line once and in order, full marks only where all ran, nothing of       *)
(* another file unless a line misleads, and no silence about what could    *)
(* not be compared or read (parseUnifiedDiff, diffCoverage,                *)
(* buildCoverageSummary).                                                  *)
(***************************************************************************)
THEOREM ReportsCoverTheDiff == PartsSpec => []ReportCoversTheDiff
<1> DEFINE Sampled == part = "coverage" /\ sample # <<>> => RightlyRead(sample)
<1>1. Sampled => ReportCoversTheDiff
    <2> SUFFICES ASSUME Sampled, part = "coverage", sample # <<>>
                 PROVE  LET read == parseUnifiedDiff(sample)
                            report == diffCoverage(read, parseCoverageFinal(SampleFiles))
                        IN  /\ FoundChanges(read, sample)
                            /\ SaidOfAll(report, read)
                            /\ \A ci \in CiInputs :
                                  NothingHidden(buildCoverageSummary(ci, sample, SampleFiles), report)
        BY DEF ReportCoversTheDiff
    <2> DEFINE r == StateRead(sample)
               read == parseUnifiedDiff(sample)
    <2>1. /\ r \in ReadStates /\ NumbersRead(r) /\ FoundChanges(r.changed, sample)
        BY DEF RightlyRead
    <2>2. read = r.changed
        BY NothingReadYet
    <2> HIDE DEF r, read
    <2>3. LinesRead(read)
        <3>1. r.changed \in [WorkerSources -> SUBSET Nat]
            BY <2>1 DEF ReadStates
        <3>2. \A f \in WorkerSources : IsFiniteSet(read[f]) /\ 0 \notin read[f]
            BY <2>1, <2>2 DEF NumbersRead
        <3>3. \A f \in WorkerSources : read[f] \in SUBSET (Nat \ {0})
            BY <2>2, <3>1, <3>2
        <3>4. read \in [WorkerSources -> SUBSET (Nat \ {0})]
            BY <2>2, <3>1, <3>3
        <3> QED BY <3>2, <3>4 DEF LinesRead
    <2>4. SaidOfAll(diffCoverage(read, parseCoverageFinal(SampleFiles)), read)
        BY <2>3, ReportSaysAll
    <2>5. FoundChanges(read, sample)
        BY <2>1, <2>2
    <2> QED BY <2>4, <2>5, SummaryHidesNothing DEF read
<1>2. PartsSpec => []Sampled
    BY DiffsAreRead DEF Sampled
<1> HIDE DEF Sampled
<1> QED BY <1>1, <1>2, PTL

(***************************************************************************)
(* Whatever is stored, the lists cover it: every article is in the         *)
(* catalogue once, under stamps that tell of the newest; the pages show    *)
(* every candidate that matches once; and the recent clips are the last    *)
(* (buildOpdsCatalog, listListed, listRecentJobs).                         *)
(***************************************************************************)
THEOREM ListsCoverWhatIsStored == PartsSpec => []ListsCoverTheStore
<1> DEFINE Sampled == part = "lists" =>
               /\ sample = [articles |-> sample.articles, candidates |-> sample.candidates,
                            jobs |-> sample.jobs]
               /\ Some(sample.articles, SampleArticles)
               /\ Some(sample.candidates, SampleCandidates)
               /\ Some(sample.jobs, SampleJobs)
<1>1. PartsInit => Sampled
    <2> SUFFICES ASSUME PartsInit, part = "lists" PROVE Sampled
        OBVIOUS
    <2>1. sample = [articles |-> {}, candidates |-> {}, jobs |-> {}]
        BY DEF PartsInit, FirstSample
    <2>2. \A Samples : Some({}, Samples)
        BY FS_EmptySet DEF Some
    <2> QED BY <2>1, <2>2
<1>2. Sampled /\ [PartsNext]_partVars => Sampled'
    <2> SUFFICES ASSUME Sampled, [PartsNext]_partVars, part' = "lists" PROVE Sampled'
        BY DEF PartsNext, partVars
    <2>1. part = "lists" /\ (sample' = sample \/ MoreToList)
        BY Zenon DEF PartsNext, partVars
    <2>2. CASE sample' = sample
        BY <2>1, <2>2
    <2> DEFINE A == sample.articles
               C == sample.candidates
               J == sample.jobs
    <2>3. /\ sample = [articles |-> A, candidates |-> C, jobs |-> J]
          /\ Some(A, SampleArticles) /\ Some(C, SampleCandidates) /\ Some(J, SampleJobs)
        BY <2>1
    <2>4. /\ \A a \in SampleArticles : a.id \in Int
          /\ \A c \in SampleCandidates : c.id \in Int
          /\ \A j \in SampleJobs : j.id \in Int
        BY ListsAssumption DEF StoredOK
    <2>5. CASE MoreToList
        <3>1. \/ \E a \in SampleArticles :
                   Later(A, a) /\ sample' = [sample EXCEPT !.articles = A \union {a}]
              \/ \E c \in SampleCandidates :
                   Later(C, c) /\ sample' = [sample EXCEPT !.candidates = C \union {c}]
              \/ \E j \in SampleJobs :
                   Later(J, j) /\ sample' = [sample EXCEPT !.jobs = J \union {j}]
            BY <2>5, Zenon DEF MoreToList
        <3> HIDE DEF A, C, J, Sampled
        <3>2. \E S, T, U : /\ sample' = [articles |-> S, candidates |-> T, jobs |-> U]
                           /\ Some(S, SampleArticles) /\ Some(T, SampleCandidates)
                           /\ Some(U, SampleJobs)
            <4>1. ASSUME NEW a \in SampleArticles, Later(A, a),
                         sample' = [sample EXCEPT !.articles = A \union {a}]
                  PROVE  \E S, T, U : /\ sample' = [articles |-> S, candidates |-> T, jobs |-> U]
                                      /\ Some(S, SampleArticles) /\ Some(T, SampleCandidates)
                                      /\ Some(U, SampleJobs)
                <5>1. sample' = [articles |-> A \union {a}, candidates |-> C, jobs |-> J]
                    BY <2>3, <4>1
                <5>2. Some(A \union {a}, SampleArticles)
                    BY <2>3, <2>4, <4>1, SomeMore
                <5> QED BY <5>1, <5>2, <2>3
            <4>2. ASSUME NEW c \in SampleCandidates, Later(C, c),
                         sample' = [sample EXCEPT !.candidates = C \union {c}]
                  PROVE  \E S, T, U : /\ sample' = [articles |-> S, candidates |-> T, jobs |-> U]
                                      /\ Some(S, SampleArticles) /\ Some(T, SampleCandidates)
                                      /\ Some(U, SampleJobs)
                <5>1. sample' = [articles |-> A, candidates |-> C \union {c}, jobs |-> J]
                    BY <2>3, <4>2
                <5>2. Some(C \union {c}, SampleCandidates)
                    BY <2>3, <2>4, <4>2, SomeMore
                <5> QED BY <5>1, <5>2, <2>3
            <4>3. ASSUME NEW j \in SampleJobs, Later(J, j),
                         sample' = [sample EXCEPT !.jobs = J \union {j}]
                  PROVE  \E S, T, U : /\ sample' = [articles |-> S, candidates |-> T, jobs |-> U]
                                      /\ Some(S, SampleArticles) /\ Some(T, SampleCandidates)
                                      /\ Some(U, SampleJobs)
                <5>1. sample' = [articles |-> A, candidates |-> C, jobs |-> J \union {j}]
                    BY <2>3, <4>3
                <5>2. Some(J \union {j}, SampleJobs)
                    BY <2>3, <2>4, <4>3, SomeMore
                <5> QED BY <5>1, <5>2, <2>3
            <4> QED BY <3>1, <4>1, <4>2, <4>3
        <3> QED BY <3>2 DEF Sampled
    <2> QED BY <2>1, <2>2, <2>5
<1>3. Sampled => ListsCoverTheStore
    <2> SUFFICES ASSUME Sampled, part = "lists" PROVE ListsCoverTheStore
        BY DEF ListsCoverTheStore
    <2>1. CatalogueCovers([l \in Locations |-> buildOpdsCatalog(sample.articles, l, 99)])
        BY CatalogueHoldsEach
    <2>2. \A filters \in Filters : PagesCover(filters)
        BY PagesShowEach
    <2>3. RecentAreTheLast
        <3>1. LET recent == listRecentJobs(sample.jobs, RecentLimit)
                  readableJobs == {j \in sample.jobs : j.parses}
              IN  /\ ToSet(recent) \subseteq readableJobs
                  /\ Len(recent) = recentClipLimit(RecentLimit) \/ ToSet(recent) = readableJobs
                  /\ \A j \in readableJobs \ ToSet(recent), i \in DOMAIN recent :
                        j.updated <= recent[i].updated
            BY RecentClips
        <3> QED BY <3>1 DEF RecentAreTheLast
    <2> QED BY <2>1, <2>2, <2>3 DEF ListsCoverTheStore
<1> HIDE DEF Sampled
<1> QED BY <1>1, <1>2, <1>3, PTL DEF PartsSpec
=============================================================================
