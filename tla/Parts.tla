-------------------------------- MODULE Parts --------------------------------
(***************************************************************************)
(* The parts of the system that ClipJob, DigestRun and FeedCollection      *)
(* leave out, side by side.  They share no variable here: where they meet  *)
(* those three (a job, an issue, a source) they have that object's states  *)
(* themselves.  So a behaviour is one of one part, chosen at the start,    *)
(* and the others stay where they begin.  The parts that are pure          *)
(* functions are asked about a sample that grows from step to step.        *)
(***************************************************************************)
EXTENDS CandidateProperties, DeployProperties, InterestProperties,
        TelemetryProperties, RiskProperties, RouteProperties, ReadingLists,
        DailySelect, TranslateChunks, DiffReport

CONSTANTS
    SampleArticles, SampleCandidates, SampleJobs,  \* for the lists
    Pool, UsedIds, Priors,                         \* for the selection
    SampleReplies, EarlierHash,                    \* for the judgement
    LineForms, MaxLines, OtherAnswers, SampleTexts, \* for the translation
    HunkLines, HunkStarts, MaxDiff, SampleFiles, CiInputs, \* for the coverage report
    MinTicks, PageForms, MaxForms, RawLines, MaxRawLines       \* for an article's text

ASSUME SamplesAreReplies == SampleReplies \subseteq Reply /\ EarlierHash # Null

\* What the store has of a candidate, and what is learnt about the sites.
PoolOK ==
    /\ \A c \in Pool :
          /\ {c.id, c.found, c.concrete, c.verification, c.confidence} \subseteq Int
          /\ c.grade \in {"recommended", "related", "low_priority", Ungraded}
    /\ \A prior \in Priors : \A source \in DOMAIN prior : prior[source] \in Int

ASSUME PoolAssumption == PoolOK

\* What is stored.  A job's object carries the stamp of the write that put it,
\* so stamps and updates come in one order.
StoredOK ==
    /\ \A a \in SampleArticles :
          /\ {a.id, a.clipped, a.published, a.created, a.updated, a.day} \subseteq Int
          /\ a.bucket \in {"clip", "ebook", "daily"}
    /\ \A c \in SampleCandidates : {c.id, c.published, c.found} \subseteq Int
    /\ \A j \in SampleJobs :
          /\ {j.id, j.stamp, j.updated} \subseteq Int
          /\ \A i \in SampleJobs : i.stamp >= j.stamp => i.updated >= j.updated

ASSUME ListsAssumption == StoredOK

\* A hunk of the diff, and what the tests recorded of a file.
ReportInputOK ==
    /\ HunkLines \subseteq [kind: {"add", "del", "context", "note"},
                           path: WorkerSources \union {NoPath}, at: Nat]
    /\ HunkStarts \subseteq Nat \ {0}
    /\ \A f \in DOMAIN SampleFiles :
          /\ SampleFiles[f].readable \in BOOLEAN
          /\ IsFiniteSet(SampleFiles[f].statements) /\ IsFiniteSet(SampleFiles[f].branches)
          /\ \A s \in SampleFiles[f].statements :
                s.line \in Nat /\ s.count \in Nat /\ s.readable \in BOOLEAN
          /\ \A b \in SampleFiles[f].branches :
                /\ b.line \in Nat /\ b.readable \in BOOLEAN
                /\ b.paths \in Seq([line: Nat, count: Nat])

ASSUME ReportAssumption == ReportInputOK

VARIABLES
    part,    \* the part that moves
    sample   \* what a pure part is asked about

partVars == <<candidateVars, deployVars, interestVars, telemetryVars, riskVars,
              routeVars, part, sample>>

Stateful == {"candidate", "deployment", "interest", "telemetry", "review", "routes"}
Pure     == {"lists", "selection", "judgement", "chunks", "coverage", "page", "answer"}

FirstSample(p) ==
    CASE p = "lists"     -> {[articles |-> {}, candidates |-> {}, jobs |-> {}]}
      [] p = "selection" -> [pool: {{}}, used: UsedIds, prior: Priors]
      [] OTHER           -> {<<>>}

PartsInit ==
    /\ part \in Stateful \union Pure
    /\ sample \in FirstSample(part)
    /\ CandidateInit
    /\ part # "candidate" => serial
    /\ DeployInit
    /\ part # "deployment" => settings = CHOOSE s \in Settings : TRUE
    /\ InterestInit
    /\ TelemetryInit
    /\ RiskInit
    /\ RouteInit
    /\ part # "routes" => env = CHOOSE e \in Environments : TRUE

Later(S, x) == \A y \in S : y.id < x.id

MoreToList ==
    LET Only(S, T) == S = {} /\ T = {} IN
    \/ \E a \in SampleArticles :
        /\ Only(sample.candidates, sample.jobs) /\ Later(sample.articles, a)
        /\ sample' = [sample EXCEPT !.articles = @ \union {a}]
    \/ \E c \in SampleCandidates :
        /\ Only(sample.articles, sample.jobs) /\ Later(sample.candidates, c)
        /\ sample' = [sample EXCEPT !.candidates = @ \union {c}]
    \/ \E j \in SampleJobs :
        /\ Only(sample.articles, sample.candidates) /\ Later(sample.jobs, j)
        /\ sample' = [sample EXCEPT !.jobs = @ \union {j}]

MoreToSelect ==
    \E c \in Pool :
        /\ Later(sample.pool, c)
        /\ sample' = [sample EXCEPT !.pool = @ \union {c}]

\* A judgement on record, then the request that meets it.
MoreToJudge ==
    \/ /\ sample = <<>>
       /\ \E rec \in {Unevaluated, Insufficient(Null)} \union
                {evaluateDeRecommendation(h, r) :
                    h \in Hashes \union {EarlierHash}, r \in SampleReplies} :
             sample' = <<rec>>
    \/ /\ Len(sample) = 1
       /\ \E in \in [existing: {sample[1]}, hash: Hashes \union {Null},
                     paywalled: BOOLEAN, force: BOOLEAN, budget: {0, 1},
                     deps: {"absent", "nokey", "key"}, reply: SampleReplies] :
             sample' = Append(sample, in)

\* Every line has words of its own.
MoreToTranslate ==
    /\ Len(sample) < MaxLines
    /\ \E form \in LineForms :
          sample' = Append(sample,
            [kind  |-> form.kind,
             words |-> [w \in DOMAIN form.lens |->
                           [id |-> 10 * Len(sample) + w, len |-> form.lens[w]]]])

(***************************************************************************)
(* A diff as git writes it: each file once, its header before its hunks,   *)
(* the hunks in their order.                                               *)
(***************************************************************************)
LastOf(kind, diff) == Max({0} \union {i \in DOMAIN diff : diff[i].kind = kind})

\* Where the next line of the new file would stand.
NextNumber(diff) ==
    LET h == LastOf("hunk", diff) IN
    diff[h].at + Cardinality({i \in (h + 1)..Len(diff) : diff[i].kind \in {"add", "context"}})

FileOf(diff) == diff[LastOf("header", diff)].path

InHunk(diff) == LastOf("hunk", diff) > LastOf("git", diff)

DiffLine(kind, path, at) == [kind |-> kind, path |-> path, at |-> at]

MoreToReport ==
    LET header(f) == DiffLine("header", f, 0)
        fresh     == {f \in WorkerSources \union {NoPath} : ~Contains(sample, header(f))}
    IN
    /\ Len(sample) < MaxDiff
    /\ \/ \E f \in fresh : sample' = sample \o <<DiffLine("git", NoPath, 0), header(f)>>
       \/ /\ sample # <<>>
          /\ \E n \in HunkStarts :
                /\ InHunk(sample) => n > NextNumber(sample)
                /\ sample' = Append(sample, DiffLine("hunk", NoPath, n))
       \/ /\ InHunk(sample)
          /\ \E line \in HunkLines : sample' = Append(sample, line)

(***************************************************************************)
(* A page, of forms that are not met twice, and a translation, of lines    *)
(* with words of their own.                                                *)
(***************************************************************************)
MoreToSanitize ==
    /\ Len(sample) < MaxForms
    /\ \E form \in PageForms : /\ ~Contains(sample, form)
                               /\ sample' = Append(sample, form)

MoreToRead ==
    /\ Len(sample) < MaxRawLines
    /\ \E line \in RawLines :
          sample' = Append(sample,
            [i \in DOMAIN line |->
                IF line[i].k = "w" THEN [line[i] EXCEPT !.id = 10 * Len(sample) + i] ELSE line[i]])

PartsNext ==
    \/ /\ part = "candidate" /\ CandidateNext
       /\ UNCHANGED <<deployVars, interestVars, telemetryVars, riskVars, routeVars,
                      part, sample>>
    \/ /\ part = "deployment" /\ DeployNext
       /\ UNCHANGED <<candidateVars, interestVars, telemetryVars, riskVars,
                      routeVars, part, sample>>
    \/ /\ part = "interest" /\ InterestNext
       /\ UNCHANGED <<candidateVars, deployVars, telemetryVars, riskVars, routeVars,
                      part, sample>>
    \/ /\ part = "telemetry" /\ TelemetryNext
       /\ UNCHANGED <<candidateVars, deployVars, interestVars, riskVars, routeVars,
                      part, sample>>
    \/ /\ part = "review" /\ RiskNext
       /\ UNCHANGED <<candidateVars, deployVars, interestVars, telemetryVars,
                      routeVars, part, sample>>
    \/ /\ part = "routes" /\ RouteNext
       /\ UNCHANGED <<candidateVars, deployVars, interestVars, telemetryVars,
                      riskVars, part, sample>>
    \/ /\ \/ part = "lists"     /\ MoreToList
          \/ part = "selection" /\ MoreToSelect
          \/ part = "judgement" /\ MoreToJudge
          \/ part = "chunks"    /\ MoreToTranslate
          \/ part = "coverage"  /\ MoreToReport
          \/ part = "page"      /\ MoreToSanitize
          \/ part = "answer"    /\ MoreToRead
       /\ UNCHANGED <<candidateVars, deployVars, interestVars, telemetryVars,
                      riskVars, routeVars, part>>

PartsSpec == PartsInit /\ [][PartsNext]_partVars
=============================================================================
