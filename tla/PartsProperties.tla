--------------------------- MODULE PartsProperties ---------------------------
(***************************************************************************)
(* The properties of the parts that have no module of properties of their  *)
(* own, and the type invariant of all of them.                             *)
(***************************************************************************)
EXTENDS Parts

\* Every part keeps to its types.
TypeOK ==
    /\ part = "candidate"  => CandidateTypeOK
    /\ part = "deployment" => DeployTypeOK
    /\ part = "interest"   => InterestTypeOK
    /\ part = "telemetry"  => TelemetryTypeOK
    /\ part = "review"     => RiskTypeOK
    /\ part = "routes"     => RouteTypeOK

(***************************************************************************)
(* An issue never exceeds a quota of a bucket nor MaxPerSource of a site   *)
(* over all buckets, and whoever is left out met one of the two, and the   *)
(* bucket's places went to better ones (selectDigestCandidates); and no    *)
(* site is asked about twice before every site was once                    *)
(* (orderDigestEvaluations).                                               *)
(***************************************************************************)
WithinLimits(chosen, pool) ==
    /\ \A bucket \in DOMAIN Quotas : OfBucket(chosen, bucket) <= Quotas[bucket]
    /\ \A c \in pool : OfSource(chosen, digestSourceKey(c)) <= MaxPerSource

LeftOutRightly(c, chosen, prior) ==
    LET bucket == digestBucketOfGrade(c.grade) IN
    \/ OfSource(chosen, digestSourceKey(c)) = MaxPerSource
    \/ /\ OfBucket(chosen, bucket) = Quotas[bucket]
       /\ \A d \in ToSet(chosen) :
            digestBucketOfGrade(d.grade) = bucket =>
                compareDigestCandidates(prior, d, c)

SelectionIsJustified ==
    part = "selection" =>
        LET chosen == selectDigestCandidates(sample.pool, sample.used, sample.prior)
            wanted == {c \in sample.pool : /\ isDigestEligible(c)
                                           /\ digestHasSubstance(c)
                                           /\ c.id \notin sample.used}
            order  == orderDigestEvaluations(sample.pool)
        IN  /\ ToSet(chosen) \subseteq wanted
            /\ Cardinality(ToSet(chosen)) = Len(chosen)
            /\ WithinLimits(chosen, sample.pool)
            /\ \A c \in wanted \ ToSet(chosen) : LeftOutRightly(c, chosen, sample.prior)
            /\ \A i, j \in DOMAIN order :
                  i < j => Round(sample.pool, order[i]) <= Round(sample.pool, order[j])

\* Every judgement that may be on record, under every request that meets it.
JudgementFitsTheText ==
    part = "judgement" /\ Len(sample) = 2 => JudgementFits(sample[2])

(***************************************************************************)
(* No word of an article is lost, doubled or moved by cutting it for the   *)
(* translation, only what cannot be divided exceeds a call, and a heading  *)
(* stays with what follows it when both fit (splitMarkdownForTranslation). *)
(* And a translation is all the sections in their order or none, whichever *)
(* call fails, with the tokens of the sections that came before the failed *)
(* one, and nothing is asked where there is nothing to ask                 *)
(* (translateArticle).                                                     *)
(***************************************************************************)
\* The halves of a word that was cut are one word again.
Merged(words) ==
    FoldLeft(LAMBDA s, w :
        IF s # <<>> /\ Last(s).id = w.id
        THEN Append(Front(s), [w EXCEPT !.len = @ + Last(s).len])
        ELSE Append(s, w), <<>>, words)

ChunkLines(chunk) == FlattenSeq([b \in DOMAIN chunk |-> chunk[b].lines])

Indivisible(block) ==
    \/ unsplittable(block)
    \/ block.kind = "quote" /\ Len(wordsOf(block.lines)) = 1
    \/ /\ block.kind = "item"
       /\ \E b \in ToSet(atomicBlocks(sample)) :
            b.kind = "item" /\ wordsOf(block.lines) \in ToSet(listItems(b.lines))

\* The answers to the sections: the k-th is answer, the others are good.
Translated(c) ==
    [arrives |-> "ok", usage |-> [prompt |-> c, completion |-> 1],
     messages |-> <<[form |-> "json", title |-> "t", content |-> ToString(c)]>>]

WholeOrNone(chunks) ==
    \A k \in 1..(Len(chunks) + 1), answer \in OtherAnswers :
        LET done  == translateSections(chunks,
                        [c \in DOMAIN chunks |-> IF c = k THEN answer ELSE Translated(c)])
            asked == requestTranslatedMarkdown(answer)
            good  == k > Len(chunks) \/ asked.ok
            void  == k = 1 /\ Len(chunks) = 1  \* the answer is all there is, and no text
            Counted(c) == IF c = k THEN tokenCount(answer.usage.prompt) ELSE c
        IN  /\ done.result.ok <=> good /\ ~void
            /\ done.result.ok =>
                  \A c \in DOMAIN chunks \ {k} : done.result.texts[c] = ToString(c)
            /\ done.usage.prompt =
                    FoldLeft(LAMBDA n, c : n + Counted(c), 0,
                        [c \in 1..(IF good THEN Len(chunks) ELSE k - 1) |-> c])

NothingToAsk ==
    \A article \in SampleTexts :
        LET done == translateArticle(article, sample, <<>>)
        IN  /\ done.usage = ZeroUsage
            /\ done.result.ok <=> wordsOf(sample) # <<>> /\ article.language = "ja"

WellCut(chunks) ==
    /\ WholeOrNone(chunks)
    /\ Merged(wordsOf(FlattenSeq(
            [c \in DOMAIN chunks |-> ChunkLines(chunks[c])]))) = wordsOf(sample)
    /\ \A c \in DOMAIN chunks : chunkSize(chunks[c]) > MaxChars =>
            Len(chunks[c]) = 1 /\ Indivisible(chunks[c][1])
    /\ \A c \in 1..(Len(chunks) - 1) :
            LET end == Last(chunks[c])  next == Head(chunks[c + 1]) IN
            end.kind = "heading" => \/ next.kind = "heading"
                                   \/ chunkSize(<<end, next>>) > MaxChars

ChunksKeepTheArticle ==
    part = "chunks" => NothingToAsk /\ WellCut(splitMarkdownForTranslation(sample))

(***************************************************************************)
(* Every article with a readable date is reached from the root of the      *)
(* catalogue exactly once, no link leads nowhere, and a feed's stamp is    *)
(* that of the newest below it, so that a reader who compares stamps never *)
(* misses one (buildOpdsCatalog).  The pages of the candidate list show    *)
(* every candidate that matches once, by the second of its date            *)
(* (listListed).  The recent clips are the last ones (listRecentJobs).     *)
(***************************************************************************)
Locations ==
    {RootLocation} \union
    [kind: {"shelf", "date"}, shelf: {"clip", "ebook"},
     date: {Unreadable} \union {opdsDate(a) : a \in sample.articles}]

\* What is found in a catalogue that has feedAt[l] at each location l.
CatalogueCovers(feedAt) ==
    LET root       == feedAt[RootLocation]
        LinksOf(l) == {link.to : link \in feedAt[l].links}
        shelves    == LinksOf(RootLocation)
        dates      == UNION {LinksOf(s) : s \in shelves}
        Places(a)  == UNION {{<<d, i>> : i \in {n \in DOMAIN feedAt[d].articles :
                                feedAt[d].articles[n] = a}} : d \in dates}
        NewestIn(d) == Greatest({a.updated : a \in ToSet(feedAt[d].articles)})
    IN  /\ \A l \in shelves \union dates : l \in DOMAIN feedAt /\ feedAt[l] # NoFeed
        /\ \A a \in sample.articles : a.bucket # "daily" =>
              Cardinality(Places(a)) = IF opdsDate(a) = Unreadable THEN 0 ELSE 1
        /\ Len(root.articles) <= 1
        /\ \A a \in sample.articles : a.bucket = "daily" =>
              \E b \in ToSet(root.articles) : b.day >= a.day
        /\ \A s \in shelves : \A l \in feedAt[s].links :
              /\ l.updated = NewestIn(l.to)
              /\ root.updated >= feedAt[s].updated /\ feedAt[s].updated >= l.updated
        /\ \A l \in root.links : l.updated = feedAt[l.to].updated

Filters == [outlet: {""} \union {c.outlet : c \in SampleCandidates},
            grade: {"", "pending"} \union {c.grade : c \in SampleCandidates}]

Shown(body) == FlattenSeq([g \in DOMAIN body.groups |-> body.groups[g].items])

PagesCover(filters) ==
    LET page(n)  == toCandidateListBody(sample.candidates, filters, n)
        total    == page(1).total
        all      == FlattenSeq([n \in 1..(total + 1) |-> Shown(page(n))])
        matching == {c \in sample.candidates : candidateMatchesListFilters(c, filters)}
    IN  /\ page(0) = page(1)
        /\ ToSet(all) = matching /\ Len(all) = Cardinality(matching) /\ total = Len(all)
        /\ \A i, j \in DOMAIN all :
              i < j => secondOf(all[i].published) >= secondOf(all[j].published)

RecentAreTheLast ==
    LET recent   == listRecentJobs(sample.jobs, RecentLimit)
        readableJobs == {j \in sample.jobs : j.parses}
    IN  /\ ToSet(recent) \subseteq readableJobs
        /\ Len(recent) = recentClipLimit(RecentLimit) \/ ToSet(recent) = readableJobs
        /\ \A j \in readableJobs \ ToSet(recent), i \in DOMAIN recent :
              j.updated <= recent[i].updated

ListsCoverTheStore ==
    part = "lists" =>
        /\ CatalogueCovers([l \in Locations |-> buildOpdsCatalog(sample.articles, l, 99)])
        /\ sample.articles = {} => \A filters \in Filters : PagesCover(filters)
        /\ RecentAreTheLast

(***************************************************************************)
(* The coverage report says of every line a pull request adds, at its      *)
(* number in the new file, what the tests did with it: it ran, it did not, *)
(* no statement begins there, or there are no data on its file; the ranges *)
(* hold each line once, in order.  No line of another file is reported,    *)
(* unless a file that is no source adds a line that reads like a header.   *)
(* And a report that shows nothing because something could not be compared *)
(* or read says so (parseUnifiedDiff, diffCoverage, buildCoverageSummary). *)
(***************************************************************************)
AddedLines(diff) ==
    [f \in WorkerSources |->
        {NextNumber(SubSeq(diff, 1, i - 1)) : i \in
            {k \in DOMAIN diff : /\ diff[k].kind = "add"
                                 /\ FileOf(SubSeq(diff, 1, k)) = f}}]

Misleading(diff) ==
    \E i \in DOMAIN diff : /\ diff[i].kind = "add" /\ diff[i].path # NoPath
                           /\ FileOf(SubSeq(diff, 1, i)) = NoPath

FoundChanges(read, diff) ==
    LET added == AddedLines(diff) IN
    \A f \in WorkerSources :
        added[f] \subseteq read[f] /\ (read[f] # added[f] => Misleading(diff))

LinesIn(ranges) == UNION {ranges[i].start..ranges[i].end : i \in DOMAIN ranges}

Ascending(ranges) ==
    \A i \in DOMAIN ranges :
        /\ ranges[i].start <= ranges[i].end
        /\ i > 1 => ranges[i - 1].end + 1 < ranges[i].start

Accounted(said, changed, f) ==
    LET known == f \in DOMAIN SampleFiles /\ SampleFiles[f].readable
        stated(l) == {s \in SampleFiles[f].statements : s.readable /\ s.line = l}
        unrun == {l \in changed : known /\ stated(l) # {} /\ \A s \in stated(l) : s.count = 0}
        ran  == {l \in changed : known /\ \E s \in stated(l) : s.count > 0}
    IN  /\ Ascending(said.missing) /\ Ascending(said.uncovered)
        /\ LinesIn(said.missing) = (IF known THEN {} ELSE changed)
        /\ LinesIn(said.uncovered) = unrun
        /\ said.ran = ran
        /\ said.measured = ran \union unrun

FullOnlyIfAllRan(m, missed) ==
    /\ m.pct \in -1..10000
    /\ m.pct = -1 <=> m.total = 0
    /\ m.pct = 10000 <=> m.total > 0 /\ ~missed

MissedPath(file, changed) ==
    file.readable /\ \E b \in file.branches : \E i \in DOMAIN b.paths :
        /\ b.readable /\ b.paths[i].count = 0
        /\ b.line \in changed \/ b.paths[i].line \in changed

SaidOfAll(report, read) ==
    LET files == {f \in WorkerSources : read[f] # {}} IN
    /\ DOMAIN report.files = files
    /\ \A f \in files : Accounted(report.files[f], read[f], f)
    /\ FullOnlyIfAllRan(report.line, \E f \in files : report.files[f].uncovered # <<>>)
    /\ FullOnlyIfAllRan(report.branch,
           \E f \in files \intersect DOMAIN SampleFiles : MissedPath(SampleFiles[f], read[f]))

NothingHidden(summary, report) ==
    \/ summary.diff = report /\ summary.notes = {}
    \/ summary.notes # {}

ReportCoversTheDiff ==
    part = "coverage" /\ sample # <<>> =>
        LET read == parseUnifiedDiff(sample)
            report == diffCoverage(read, parseCoverageFinal(SampleFiles))
        IN  /\ FoundChanges(read, sample)
            /\ SaidOfAll(report, read)
            /\ \A ci \in CiInputs :
                  NothingHidden(buildCoverageSummary(ci, sample, SampleFiles), report)
=============================================================================
