----------------------------- MODULE DiffReport -----------------------------
(***************************************************************************)
(* The report on the tests' coverage of a pull request (src/coverage):     *)
(* which lines it changed, read from the unified diff, and which of them   *)
(* and of their branches no test ran.  Pure functions.                     *)
(*                                                                         *)
(* A line of the diff is [kind, path, at].  A header ("+++ b/x") names the *)
(* new file; an added line whose text is "++ b/x" reads the same, and      *)
(* has that path; a hunk says at which line of the new file it begins.     *)
(***************************************************************************)
EXTENDS Integers, FiniteSets, Sequences, SequencesExt, FiniteSetsExt, Orders

CONSTANTS
    WorkerSources,  \* the TypeScript files under src/
    NoPath          \* no file, or one that is no source of the Worker

ASSUME NoPathIsNoSource == NoPath \notin WorkerSources /\ IsFiniteSet(WorkerSources)

DiffKinds == {"git", "header", "hunk", "add", "del", "context", "note"}

\* isWorkerSource
workerPath(path) == IF path \in WorkerSources THEN path ELSE NoPath

(***************************************************************************)
(* parseUnifiedDiff                                                        *)
(***************************************************************************)
ReadsAsHeader(line) == line.kind = "header" \/ (line.kind = "add" /\ line.path # NoPath)

ReadsAsAdded(line) == line.kind \in {"header", "add"}

addLine(read) ==
    [read EXCEPT !.changed[read.path] = @ \union {read.at}, !.at = @ + 1]

\* Slip: a header is taken for one inside a hunk too.
readLineAnywhere(read, line) ==
    CASE line.kind = "git" -> [read EXCEPT !.path = NoPath, !.inHunk = FALSE]
      [] ReadsAsHeader(line) -> [read EXCEPT !.path = workerPath(line.path), !.inHunk = FALSE]
      [] line.kind = "hunk" -> [read EXCEPT !.at = line.at, !.inHunk = read.path # NoPath]
      [] OTHER ->
            IF ~read.inHunk THEN read
            ELSE IF ReadsAsAdded(line) THEN addLine(read)
            ELSE IF line.kind = "context" THEN [read EXCEPT !.at = @ + 1]
            ELSE read

readLine(read, line) ==
    CASE line.kind = "git" -> [read EXCEPT !.path = NoPath, !.inHunk = FALSE]
      [] ~read.inHunk /\ ReadsAsHeader(line) -> [read EXCEPT !.path = workerPath(line.path)]
      [] line.kind = "hunk" -> [read EXCEPT !.at = line.at, !.inHunk = read.path # NoPath]
      [] read.inHunk /\ ReadsAsAdded(line) -> addLine(read)
      [] read.inHunk /\ line.kind = "context" -> [read EXCEPT !.at = @ + 1]
      [] OTHER -> read

parseUnifiedDiff(diff) ==
    FoldLeft(readLine,
             [changed |-> [f \in WorkerSources |-> {}], path |-> NoPath, at |-> 0,
              inHunk |-> FALSE], diff).changed

(***************************************************************************)
(* What the tests recorded of a file: statements [line, count, readable]   *)
(* and branches [id, line, readable, paths], a path with the line where it *)
(* begins (or 0) and its count.  An entry that cannot be read is left out, *)
(* and so is a file without its parts (parseFileCoverage).                 *)
(***************************************************************************)
parseFileCoverage(entry) ==
    [statements |-> {s \in entry.statements : s.readable},
     branches   |-> {b \in entry.branches : b.readable}]

parseCoverageFinal(files) ==
    [f \in {g \in DOMAIN files : files[g].readable} |-> parseFileCoverage(files[f])]

indexCoverage(coverage) ==
    [f \in DOMAIN coverage \intersect WorkerSources |-> coverage[f]]

\* line -> the largest count of a statement that begins there.
lineHits(file) ==
    [line \in {s.line : s \in file.statements} |->
        Max({s.count : s \in {t \in file.statements : t.line = line}})]

pathLine(branch, i) ==
    IF branch.paths[i].line > 0 THEN branch.paths[i].line ELSE branch.line

branchesInChange(file, changed) ==
    UNION {{[branch |-> b, path |-> i, covered |-> b.paths[i].count > 0] :
                i \in {k \in DOMAIN b.paths : {pathLine(b, k), b.line} \intersect changed # {}}} :
           b \in file.branches}

(***************************************************************************)
(* diffCoverage                                                            *)
(***************************************************************************)
growRanges(ranges, line) ==
    IF ranges # <<>> /\ Last(ranges).end + 1 = line
    THEN Append(Front(ranges), [Last(ranges) EXCEPT !.end = line])
    ELSE Append(ranges, [start |-> line, end |-> line])

lineRanges(lines) == FoldLeft(growRanges, <<>>, InOrder(lines, <))

\* In hundredths of a percent, rounded down.
istanbulPercent(covered, total) ==
    IF total <= 0 THEN -1 ELSE ((100000 * covered) \div total) \div 10

metric(covered, total) ==
    [covered |-> covered, total |-> total, pct |-> istanbulPercent(covered, total)]

\* What is said of one changed file; without data all its lines are missing.
fileReport(changed, byPath, f) ==
    IF f \notin DOMAIN byPath
    THEN [missing |-> lineRanges(changed), measured |-> {}, uncovered |-> <<>>, ran |-> {},
          branches |-> {}]
    ELSE LET hits     == lineHits(byPath[f])
             measured == changed \intersect DOMAIN hits
             ran      == {l \in measured : hits[l] > 0}
         IN  [missing |-> <<>>, measured |-> measured, ran |-> ran,
              uncovered |-> lineRanges(measured \ ran),
              branches |-> branchesInChange(byPath[f], changed)]

\* The files' numbers are added up: what is of one is not of another.
OfAllFiles(Part(_), report) == UNION {{f} \X Part(report[f]) : f \in DOMAIN report}

diffCoverage(changedLines, coverage) ==
    LET byPath == indexCoverage(coverage)
        files  == {f \in DOMAIN changedLines : changedLines[f] # {}}
        report == [f \in files |-> fileReport(changedLines[f], byPath, f)]
    IN  [files  |-> report,
         line   |-> metric(Cardinality(OfAllFiles(LAMBDA r : r.ran, report)),
                           Cardinality(OfAllFiles(LAMBDA r : r.measured, report))),
         branch |-> metric(Cardinality(OfAllFiles(LAMBDA r : {b \in r.branches : b.covered}, report)),
                           Cardinality(OfAllFiles(LAMBDA r : r.branches, report)))]

(***************************************************************************)
(* What is compared (git-diff.ts) and what the summary notes (cli.ts).  A  *)
(* commit is "" (not given), "bad" (no full id) or "sha"; a file is "ok",  *)
(* "bad" (no JSON, not there), and the totals also "partial".              *)
(***************************************************************************)
Resolved(mode, notes) == [mode |-> mode, notes |-> notes]

resolveDiffBase(ci) ==
    CASE ci.base = "bad" -> Resolved("none", {"bad base"})
      [] ci.base = "" /\ ~(ci.event = "push" /\ ci.before = "sha") ->
            Resolved("none", {"no base"})
      [] OTHER ->
            Resolved(IF ci.event = "pull_request" THEN "three-dot" ELSE "two-dot", {})

NoLines == [f \in WorkerSources |-> {}]

Loaded(lines, mode, notes) == [lines |-> lines, mode |-> mode, notes |-> notes]

\* A commit that is not there is fetched once (ensureCommit); git may fail
\* all the same.
changedSourceLines(ci, diff) ==
    LET resolved == resolveDiffBase(ci) IN
    IF resolved.mode = "none" THEN Loaded(NoLines, "none", resolved.notes)
    ELSE IF ci.head # "sha" THEN Loaded(NoLines, "none", {"bad head"})
    ELSE IF ~ci.commits THEN Loaded(NoLines, "none", {"no commit"})
    ELSE IF ~ci.compares THEN Loaded(NoLines, resolved.mode, {"git diff failed"})
    ELSE Loaded(parseUnifiedDiff(diff), resolved.mode, {})

loadChangedLines(ci, diff) ==
    CASE ci.diffFile = "ok"  -> Loaded(parseUnifiedDiff(diff), "two-dot", {})
      [] ci.diffFile = "bad" -> Loaded(NoLines, "none", {"bad diff"})
      [] OTHER               -> changedSourceLines(ci, diff)

buildCoverageSummary(ci, diff, files) ==
    LET loaded   == loadChangedLines(ci, diff)
        coverage == IF ci.coverage = "ok" THEN parseCoverageFinal(files) ELSE <<>>
    IN  [diff  |-> diffCoverage(loaded.lines, coverage),
         mode  |-> loaded.mode,
         notes |-> loaded.notes
                       \union (IF ci.coverage = "ok" THEN {} ELSE {"no coverage"})
                       \union (IF ci.totals = "ok" THEN {} ELSE {"no totals"})]
=============================================================================
