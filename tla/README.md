# TLA+ models of xteink-read-later

xteink-read-later is a Cloudflare Worker that turns web articles into EPUBs for
an e-reader. A URL is *clipped*: a request records a job and enqueues a
message; a queue consumer fetches, translates and packs the article and stores
it in R2, from where an OPDS catalogue serves it. Next to that, *feeds* are
collected every day into *candidates* for reading (D1), and a *daily digest* of
the best candidates is built as an EPUB of its own.

This directory holds TLA+ modules translated from that code, the TLC
configurations that check them on small instances, and TLAPS proofs of what
holds for every instance. Paths below are relative to the repository
(`src/queue/clip.ts` is the consumer of the clip queue).

## 1. The system

The code is single-threaded between two awaits and concurrent across them. All
shared state is in R2 (objects, last writer wins, except one conditional put),
in D1 (one SQL statement at a time, no transactions across statements) and in
three Cloudflare Queues (at least once, `max_retries: 3`, `attempts` counted
from 1). So the questions worth asking are all of one kind: a handler reads,
awaits, and writes what it read. What happened in between?

| Component | State it keeps | Operations | What is hard | What makes it correct |
|---|---|---|---|---|
| **Clip job protocol** `src/job`, `src/queue/clip.ts`, `src/pipeline`, `src/store/r2.ts` | job record, translation checkpoint, EPUB, metadata (R2), link in the candidate (D1), queue message | enqueue, deliver, translate, build, store, classify, finish or fail, delete | unconditional puts guarded by a runId read earlier; redelivery; crash between two of some fifteen awaits; one checkpoint for all runs of a URL; staleness after 15 minutes | ready means downloadable; no foreign translation; failures stay visible; every run that was enqueued comes to a decision |
| **Daily digest run** `src/daily/{deliver,run-store,publish,enqueue,run,budget}.ts`, `src/queue/digest.ts` | run record per day with etag (R2), daily issues, history of published articles (D1), messages for each step and a watchdog | start, plan, evaluate, summarize, publish, watch, fail | conditional puts that lose; steps repeated by redelivery; a watchdog that fails a run still at work; three writes to publish | runs only move forward; a published run has its issue; a failed or empty day has none; every run is decided |
| **Feed collection** `src/feeds/{enqueue,collect,source-input}.ts`, `src/queue/feed.ts`, `src/http/source-routes.ts`, `src/store/d1-sources.ts` | one row per source (D1), queue message | create, edit, request a collection, cron, collect, retry, fail | the row is always written whole, from copies of any age | a result belongs to the run it is shown for; a failure is final when it is shown |
| **Candidates** `src/candidates`, `src/store/d1-candidates.ts`, `src/http/candidate-routes.ts` | one row per canonical URL: fetch and listing state, recommendation, links to job and article | register, judge, re-evaluate, send to clip, list (and write completions back), repair dates | every request reads the row, waits and puts the whole row; only the repair of dates updates one column | with one request at a time nothing is forgotten; a settled link is the one of the job; what is delivered is offered |
| **Article store and catalogue** `src/store/r2.ts`, `src/opds`, `src/app.ts`, `src/classify/parse.ts` | EPUB and metadata objects | put, classify, list, page, serve, delete | two objects per article without a transaction; a catalogue of catalogues with stamps | every entry can be downloaded; every article is reached once, under a stamp that moves when it does |
| **Daily issue contents** `src/daily/{select,summarize,issue,identity}.ts`, `src/digest/interest.ts` | – | choose, rank, summarize, render | quotas per bucket and per site that share counters | caps are never exceeded, whoever is left out met one |
| **QR confirmation** `src/digest/confirm-*.ts`, `src/http/digest-confirm-routes.ts`, `src/store/d1-digest.ts` | published items and fetches (D1) | publish, confirm, record, learn | two taps; a new issue of the date between check and insert; expiry | a fetch is recorded only when it is earned, and once |
| **Recommendation, classification** `src/recommend`, `src/classify`, `src/jev` | none | ask, parse, reuse, store, read back | call budgets; partial answers; reuse by the hash of the excerpt | a judgement belongs to the text it stands beside |
| **Translation** `src/translate` | none | cut, ask, read the answer, put together, count tokens | limits of size; tables, lists and headings that must not be torn | no word lost, doubled or moved; all sections or none |
| **Routes, authentication, books, clip pages** `src/app.ts`, `src/http`, `src/books`, `src/clip` | none of their own | refuse, answer, enqueue, store, delete | the order of the refusals; the smoke credential's check and act | nobody is answered who was not entitled to it |
| **Schedule and telemetry** `src/schedule.ts`, `src/telemetry` | a cache of addresses | ping before and after a job, dial one address after the other, follow redirects | a timer and a socket; a ping stored without an answer | Cronitor hears what happened to the job or nothing |
| **Deployment smoke test and rollback** `src/smoke`, `.github/workflows/ci.yml` | a state file; step outputs; the versions of the Worker | deploy, smoke, clean up, notify, decide, roll back, verify | steps cut short; messages that fail; others who deploy; a queue that works on | only the shipped version is condemned, while it serves, and only for a failure of the code; a failure is told |
| **Pull request risk** `src/pr-risk` | the record in the pull request's comment | classify, call a paid model once per head, comment | runs cancelled between the call and the record | one call per head unless its record is lost |
| **Coverage of a pull request** `src/coverage` | none | read a diff, compare it with the tests' data, report | what a diff line means hangs on the lines before it | every added line is accounted for; silence means it was compared |
| **An article's text** `src/extract/{sanitize-html,xml-text}.ts`, `src/images/x3-token.ts` | none | clean HTML, make Markdown of it, make HTML of Markdown | two hand-written grammars that must agree on what the other wrote | no word lost, doubled or moved; code stays code; no mark left to read; every line is taken |
| **Fetching and extraction, EPUB and images, feed parsing, developer tools** | none | – | formats | not modelled, see section 5 |

How they interact. `POST /clip`, `sendCandidateClip` and the QR confirmation
all call `enqueueClipJob`. The clip consumer writes the finished article back
into the candidate. The cron calls `enqueueEnabledCollections` and
`enqueueDailyDigest`; a collection registers and judges candidates, and the
digest reads the candidates at every step. Digest issues are articles in the
same R2 bucket and catalogue as clips.

## 2. The modules

| Module | Models | Role |
|---|---|---|
| `ClipRules` | `job/clip.ts`, `types/job.ts`, the retry rules of `queue/clip.ts` | the job record and the decisions about it |
| `ClipJob` | `job/enqueue.ts`, `queue/clip.ts`, `pipeline/clip.ts`, `store/r2.ts` | one URL: requests, queue, consumer invocations, faults |
| `ClipJobProperties` | – | invariants, action properties, liveness |
| `ClipOutcome` | – | the abstract specification that `ClipJob` implements while requests do not overlap |
| `ClipJobProofs` | – | TLAPS proofs about `ClipJob`, with that refinement |
| `DayRecord` | – | the abstract specification that `DigestRun` implements: what becomes of a day |
| `DigestRun` | `daily/deliver.ts`, `daily/run-store.ts`, `daily/publish.ts`, `queue/digest.ts` | the runs of one or more days |
| `DigestRunProperties` | – | invariants, action properties, liveness |
| `FeedCollection` | `feeds/enqueue.ts`, `queue/feed.ts`, `feeds/collect.ts`, `http/source-routes.ts` | one source: requests, forms, queue, consumer invocations |
| `FeedCollectionProperties` | – | invariants, and one promise that is not kept |
| `FeedCollectionProofs` | – | TLAPS proofs about `FeedCollection` |
| `DigestRunProofs` | – | TLAPS proofs about `DigestRun` |
| `Recommendation` | `recommend/*.ts`, `classify/*.ts`, `candidates/recommend.ts`, `jev/client.ts` | judgements as pure functions |
| `CandidateRow`, `CandidateProperties` | `candidates/*.ts`, `store/d1-candidates.ts`, `queue/clip.ts` (attachment) | one row, every request that writes it, over a clip job reduced to its record |
| `CandidateProofs` | – | TLAPS proofs about `CandidateRow` and `Recommendation` |
| `DeployRules` | `smoke/rollback.ts`, `smoke/run.ts` | the rules: which failures count, when to roll back, what to clean up and tell |
| `DeploySmoke`, `DeployProperties` | `smoke/cli.ts`, `smoke/run.ts`, `smoke/rollback.ts`, the deploy jobs of `ci.yml` | one run of the workflow, step by step |
| `Deployment` | – | the abstract specification that `DeploySmoke` implements |
| `DeployProofs` | – | TLAPS proofs: the refinement and four invariants |
| `DigestInterest`, `InterestProperties` | `digest/*.ts`, `http/digest-confirm-routes.ts`, `store/d1-digest.ts` | QR links and what is learnt from them |
| `Orders` | the comparators of `daily/select.ts`, `opds/catalog.ts`, `candidates/list.ts` | a set as the list a comparator makes of it |
| `DailySelect` | `daily/select.ts` | the choice of an issue's articles, as operators |
| `TranslateChunks` | `translate/chunks.ts`, `translate/openai*.ts` | cutting, asking and putting together, as operators |
| `ArticleText` | `extract/sanitize-html.ts`, `extract/xml-text.ts`, `images/x3-token.ts` | from HTML to Markdown and back, as operators |
| `Telemetry`, `TelemetryProperties` | `telemetry/cronitor*.ts` | a traced job, its pings and their sockets |
| `PrRisk`, `RiskProperties` | `pr-risk/*.ts` | the classification and the paid review |
| `AppRoutes`, `RouteProperties` | `app.ts`, `http/*.ts`, `clip/*.ts`, `books/*.ts` | who may do what over HTTP, and what it changes |
| `PartsProofs` | – | TLAPS proofs about `DigestInterest`, `Telemetry`, `PrRisk` and `AppRoutes` |
| `DiffReport` | `coverage/*.ts` | the coverage report on a pull request, as operators |
| `ReadingLists` | `opds/catalog.ts`, `candidates/list*.ts`, `clip/recent.ts` | catalogue, list and recent clips, as operators |
| `Parts`, `PartsProperties` | – | the modules from `Recommendation` on, one at a time, and the properties of those that have no module of their own |
| `ArticleProperties` | – | the property of `ArticleText`, apart from the others because `ArticleText` is recursive |
| `PureProofs` | – | TLAPS proofs about the pure functions: the selection, the coverage report, the lists |
| `CompositionProofs` | – | TLAPS proofs about `Parts` |
| `MCClipJob`, `MCDigestRun`, `MCFeedCollection`, `MCParts` | – | symmetry and small sets for TLC |

**Granularity.** In all stateful modules one action is one await that touches
shared state, with the code around it up to the next one. Everything two
handlers can do to each other therefore happens between two actions. Local work
(fetching a page, asking a model, building a file) is an action only where its
outcome is a choice. A *request* (`post`) has a program counter and, in
`FeedCollection`, the copy of the row it works on. A *worker* is a consumer
invocation: program counter, run, attempt and the locals the code keeps across
awaits.

**Queues.** A message is `unsent`, `waiting`, `leased`, `acked` or `dropped`,
with a count of deliveries. A delivery that ends without an ack, by `retry()`,
crash or exception, comes back until the deliveries are used up. With the fault
`duplicate`, a message can be delivered while it is being worked on, which
Cloudflare Queues allow. In `DigestRun` messages of one run are several, so the
queue is a set of records.

**Data.** A run id stands for everything a run produced: a checkpoint, an EPUB
or an issue is the run that made it. Texts, titles and counters are left out.
`updatedAt` is reduced to a flag (`stale`, `old`) that is cleared by a write and
set when 15 minutes (150 seconds for a digest step) have passed.

**ClipJob in the code.** `Lookup`, `PutQueued`, `Send`, `SendFails`,
`PutQueueFailed` and `PutRecorded` are the awaits of `enqueueClipJob` in order.
`ReadJob` to `Retry` are those of `runClipQueueMessage`. `CheckRun` and
`WriteJob` are the two halves of `putJobIfCurrentRun`, `FindCheckpoint` and
`DropCheckpoint` those of `deleteCheckpointForRun`, `PutEpub` and `PutMeta`
those of `store.put`, `ReadMeta` and `WriteMeta` those of `putClassification`,
`FindCandidate` and `AttachCandidate` those of `attachCompletedCandidate`.
`Throw` is the catch block of `processMessage`.

**DigestRun in the code.** `OpenDay` and `BeginRun` are `stepStart`; `Touch` to
`Finish` are `stepPlan`, `stepEvaluate`, `stepSummarize` and `stepPublish`;
`IgnoreOtherRun`, `ObserveFinished` and `Repair` are `dispatch` and
`alignOrRepair`; `KeepWatching` and `FailStuckRun` are `stepWatchdog`; `Rescue…`
is the catch block of `processDigestDelivery`. R2's conditional put is the flag
`fresh` of an invocation: true from its read until somebody else writes.

**FeedCollection in the code.** `Lookup` to `PutQueueFailed` are
`enqueueCollection`; `OpenForm` and `SaveForm` the read and the write of
`POST /sources` and `POST /sources/:id`, with the lookup of the feed in between;
`ReadSource` to `PutFailed` the awaits of `processMessage`; `Throw` an exception
inside its try block, `ThrowUncaught` one outside it, which
`createFeedQueueHandler` acknowledges.

**CandidateRow in the code.** A request is a kind, the row it read and a step.
`RegisterRead`/`RegisterWrite` are `registerCandidate` (`persistJudged`),
`CollectWrite`, `JudgeRead`, `JudgeWrite` a collection (`judgeCollectedCandidate`),
`ReevaluateRead/Write` `reevaluateCandidate`, `SendRead`, `SendDecide`, `SendLink`
the three awaits of `sendCandidateClip`, `AttachRead/Write` the consumer's
`attachCompletedCandidate`, `ListRead`, `ListView` and `syncCandidateCompletion`
a page of the list, `writePublishedAt` the repair of dates. The row goes back
whole, from the copy. `serial` remembers that no two requests that write
overlapped, `failures` that a write failed.

**DeploySmoke in the code.** `stage` is the step of the workflow. The smoke test
is one stage with its own steps, each an HTTP request that may fail in every way
`DeployRules.FailureKinds` lists; `FailStep` ends it, `RunnerLost` cuts off the
smoke job and `RollbackLost` the rollback's, at any step of theirs. `sendSlack` sends
nothing without a webhook, and its POST may fail, which neither job acts on:
`toldSlack` is who was heard, `unheard` whose POST failed. The webhook is one of
the secrets, so a repository without it skips the smoke test
(`missingSmokeSecrets`). Versions are numbers in the order of upload;
`OtherDeployment` uploads one at any time. `ClipSettles` is the queue consumer at
work on the article of the smoke test, before, during and after its cleanup. A
workflow whose deploy job fails stops there and is left out.

**Parts.** These modules meet the three queues only through an object (a job, an
issue, a row), of which they carry the states themselves; they share no variable
with one another. `Parts` composes them as alternatives: a behaviour picks one
part and stays in it. That is the disjoint sum of the systems, not their
product, and nothing is lost by it, since no action of one reads or writes
another's variables. For a module of pure functions the "state" is an input that
grows from step to step (an article added to a catalogue, a line to a text), so
that TLC asks the property of every input up to the bound.

## 3. What the runs check

`Spec` has no fairness; it is used for safety. `FairSpec` adds fairness for the
liveness properties.

| Run | Instance | Shows |
|---|---|---|
| `clip_sequential` | 2 runs, 2 invocations, one request at a time; failing sends and crashes | `NoFreshOverwrite`, `ReadyServesItsOwnRun`, `CheckpointIsTemporary`, `OutcomeKept`: the protocol works as intended, and implements `ClipOutcome`, when requests for a URL do not overlap |
| `clip_faults` | 1 run, 2 invocations on the same message; crash, throw, duplicate, both kinds of failing send, deletion | `Downloadable`, `EpubBeforeMeta`, `ReadyWasStored`, and `Safe` (`TypeOK` and `ClipInvariant`), the invariant of the proofs |
| `clip_overtaken` | 2 runs, 1 invocation at a time, 2 retries, fair; crash, throw, time | `OwnTranslation`, `NoSecondTranslation`, `EveryMessageSettles`, and `EnqueuedIsDecided`: an enqueued run is made ready or failed, unless another takes its place or a crash takes its last delivery |
| `digest_overlap` | 1 day, 2 runs, 2 invocations, any one fault | `DayKept`, `DeadBranches`, `QuietCatalogue`, `TypeOK`: the record of a day is that of `DayRecord`, however messages repeat and invocations overlap |
| `digest_alone` | 1 day, 2 runs, 1 invocation, fair, 3 crashes or exceptions | `PublishedIsThere`, `FinishedStays`, `RunDecides` |
| `feed_faults` | 2 runs, 1 form, 2 invocations, any one fault, rows that go stale at any time | `ResultIsItsOwn`, `FetchFailureIsFinal`, and `Safe` (`TypeOK` and `FeedInvariant`), the invariant of the proofs |
| `parts` | the parts of the table below, one at a time | `TypeOK` and what that table lists |

| Part of `parts` | Instance | Property |
|---|---|---|
| candidate | 1 row; 3 requests of every kind one after the other, 2 when they overlap; a clip job with 2 runs | `SettledLinkAgrees`: after requests that did not overlap and did not fail, a completed link is the one of the job; `DeliveredIsShown`: what the job reports and the store holds is offered under its own id, whatever the row says; `NothingForgotten`: requests that do not overlap keep links, selections, exclusions and judgements |
| deployment | the workflow's upload and one by others before or after it, 4 settings, every step cut short, every message to Slack failing or not | `KeepsPromise`: it implements `Deployment`; `PassedStaysLive`, `SmokeArticleIsCleared`; `FailureIsTold`: one failed POST or one lost job hides no failure |
| interest | 2 items of one site, 2 dates, 3 instants, 2 confirmations at once | `InterestIsEarned`: a fetch is recorded once, of a printed link, before its expiry, of an article that was sent, and nothing else moves the preference for a site |
| telemetry | 2 hosts, 2 redirects, 4 answers of the name server with private and expiring addresses | `PingsMatchTheJob`: Cronitor never hears of an outcome the job did not have, at nobody else's host |
| review | 2 heads, 3 runs, 4 changes | `DangerIsReviewedOnce`: one paid call per head unless its record was lost |
| routes | 3 environments × 7 senders × every route and body | `RoutesGuardWhatTheyChange`: whoever is answered was entitled to it |
| lists | every subset of 8 articles, of 6 candidates, of 5 jobs | `ListsCoverTheStore`: each article is reached once under the newest stamp, the pages hold every match once, the recent clips are the last |
| selection | every subset of a pool of 8, with and without used ids and a prior | `SelectionIsJustified`: quotas are kept and whoever is left out met one |
| judgement | every stored judgement × every request that meets it | `JudgementFitsTheText`: a verdict is about the text it stands beside, and reads back as stored |
| chunks | every text of up to 3 lines of 12 forms, calls of 5 characters; one bad answer at every place | `ChunksKeepTheArticle`: no word lost, doubled or moved; all sections or none, and their tokens |
| coverage | every diff of up to 7 lines over 2 sources and another file; 10 ways of comparing | `ReportCoversTheDiff`: each added line is reported once, at its number, as what the tests did with it; what could not be compared is said |
| page, answer | every page of up to 3 of 17 forms; every translation of up to 3 lines of 18 forms | `ArticleKeepsItsWords`: the words come out once and in order, code as code and quotations as such, without a mark of the Markdown; a translation is read to its end |

`NothingForgotten` is an action property, and three properties are refinements.
`KeepsPromise`: the abstract specification `Deployment` has a version that serves
and a verdict, and `DeploySmoke` implements it with `verdictOf` (a function of the
stage) as the refinement mapping. What it promises is about the verdict: only the
version the workflow shipped is condemned, while it serves and with the version
before it known, and the verdict is answered once at most, by putting that version
back. It does not promise that what is replaced is what was condemned (section 5).
`OutcomeKept`: the service of `ClipOutcome` accepts one run at a time, works, puts
its article on offer and only then reports it ready, or fails; what was reported
stays, but for the request's own second put of the queued record. `ClipJob`
implements it with the record's status and run, the EPUB that stored metadata
lead to (`onOffer`) and whether the request of the record's run goes on
(`stillAsking`) in place of the abstract variables. It implies that a ready job
is not reopened (`ReadyIsNotReopened`).
`DayKept`: `DayRecord` is what becomes of a day, and `DigestRun` implements it with
the record without the length of its lists (`daySeen`) and the run ids that are
taken (`minted`).

Five runs end in a counterexample: the documentation promises something the
code does not keep.

| Run | Promise | What happens |
|---|---|---|
| `clip_overlap_blind` | README: the same URL is not enqueued twice while it is queued or running | two requests read the job before either has put it; both enqueue (`src/job/enqueue.ts:32`) |
| `clip_failure_lost` | README: a failure stays on the job record | the request puts the queued record once more after the send, over the result of a fast consumer (`src/job/enqueue.ts:89`) |
| `clip_old_run` | README: redelivery of an old run does not set the record to running | `putJobIfCurrentRun` compares and then puts; a new run gets in between (`src/queue/clip.ts:297`) |
| `digest_two_days` | docs/daily-opds.md: the catalogue holds the latest issue | a run of the day before that ends late removes the newer issue (`src/daily/publish.ts:7`) |
| `feed_hidden` | README: three retries, and failures show in the list of sources | an exception before the try block is acknowledged; the source stays queued (`src/queue/feed.ts:227`) |

**Bounds, and why they are enough.** `MaxRetries = 1` gives every message a
first and a last delivery, which are the cases the code tells apart in most
places (`attempts <= max`, and beyond). `clip_overtaken` has `MaxRetries = 2`,
because a failed EPUB is retried on the first delivery only (`attempts = 1`) and
the retry may itself be cut off: there must be a delivery after the one that
resumes from the checkpoint. With the code's own 3 the run passes too. Two invocations are what a race
between a check and a put needs; two runs are what it takes to be overtaken.
The digest has one page and at most one candidate to evaluate and one to choose:
each loop of the code is left out, done once, and (by redelivery) repeated. The
number of faults is bounded by `MaxFaults` in the digest and feed models; the
clip model bounds which faults may happen but not how often. The passing runs
take every action, and what they check was also tried with slips planted in the
model (the definitions commented "Slip"), each of which breaks its property.
For everything that keeps state (the clip job, the digest, the feed collection,
the candidates, the deployment, the QR links, the telemetry, the review and the
routes) the safety properties are proved besides, without any bound.

In `parts` the bounds are the smallest that tell the cases apart. Two requests
are what a copy of a row needs to go stale, and a third, in the behaviours
without overlap, is needed to send what a first registered and a second judged.
Three versions are the one before, the one shipped and one by somebody else.
Two redirects are one allowed and one too many after it. Five characters per
call are less than a line and more than a word, so that every way of cutting is
taken; three lines are a heading, what it heads and what comes before it. The
quotas 2, 1 and 1 with two per site let every counter be the one that stops an
article. Requests and posts are interchangeable (`SYMMETRY`): nothing orders
or names them. Where a worker
has no key for Jev one reply stands for all, because none is read (`RepliesTo`).
A part ends when its requests are used up, so the run does not look for
deadlocks.

**Assumptions the properties name.** `Downloadable` and `EpubBeforeMeta` speak
of articles that nobody has deleted. `PublishedIsThere` and `QuietCatalogue`
are about a day that was started once (`OneRun`): a day that is started again
while an invocation of the first run is still storing or sweeping may end with
the other run's issue, or without one. `QuietCatalogue` and `RunDecides` excuse
a message whose last delivery was cut short (`lost`): nothing in the code takes
up its work.

**Fairness.** A request and an invocation that have begun take their next step:
the Worker runtime runs them or ends them, and an ended one is the fault
`crash`, which nothing forces. The queue delivers what is waiting while an
invocation is free. Users, the cron, faults and the clock are never forced to act:
no liveness of the clip protocol waits for a record to grow stale.

## 4. What is proved

Eight modules hold proofs, for any number of runs, invocations, days, forms,
requests, items, deployments, hosts, heads or addresses, any `MaxRetries` and any
set of faults. The assumptions are those the modules name: `NoRun` is not a run,
`MaxRetries` (and `MaxFaults`) are natural numbers, the faults are of the kinds
listed, the calendar and the bounds are numbers, the addresses, versions, article
ids and commits that stand for "none" are no address, version, id or commit, the
first host is a host, `null` is no grade, shelf, hash or other string, Jev replies
in one of the ways `Recommendation` tells apart, and every call of `AppRoutes` is
to one of its routes and about an address or none. A theorem that needs more
(one request at a time, one invocation) has it as its `ASSUME`.

*Clip.* `Safety` (`Safe`), `TypeCorrect`, `InvariantHolds` (`ClipInvariant`), `AlwaysDownloadable`,
`EpubComesFirst`, `ReadyMeansStored`, `NoForeignTranslation`. That a ready job
is downloadable is not inductive: it depends on where the invocations are. The
strengthening says of every invocation that it holds its own run's text between
the translation and the end (`TextAtHand`), that it has stored the article once
it is past `store.put` (`StoredFirst`), that the EPUB is there between the two
halves of `store.put` (`HalfStored`), that it writes back only metadata it found
(`FoundMeta`), and of the bucket that what was stored is on offer unless it was
deleted (`StoredIsOnOffer`). No object is conditionally written, so the argument
cannot use which run comes last; it uses that EPUBs and metadata are replaced
but never removed, except by a deletion. The proof takes each step in two
halves, the invocation that moves and the object it writes.

`OneAtATimeHolds`, `ReadyIsItsOwn`, `NoCheckpointStays`, `NoRunIsOverwritten` and
`ReadyStaysReady` are about a URL whose requests do not overlap (`OneAtATime`: and
whose messages are neither delivered twice nor sent by a send that reports a
failure; crashes and failing sends remain). Then the unconditional puts are
harmless, because only one invocation has anything to write: the strengthening
`OneAtATimeInvariant` says that a leased message is in one pair of hands
(`OneInvocationEach`), that an invocation with work before it works for the run of
the record, which is active (`WorksForTheRecord`), that what it has stored is
still its own (`OwnArticle`), and that it has seen to its checkpoint before it
acknowledges (`CheckpointGone`).

`ProtocolIsTheService` (`OutcomeKept`) is the refinement of `ClipOutcome`, under
the same `OneAtATime`. Each action is a step of the service or leaves its
variables alone (`StepServes`): the request's puts are `Accept`, `Fail` and
`Answer` (`RequestServes`), the consumer's puts of the record `Work`, `Finish`
and `Fail` (`RecordServes`), its puts of the article `Offer` (`ArticleServes`).
What it takes is `OneAtATimeInvariant`: the record an invocation is about to
write is pending and of its run (`WorkIsPending`), so that none of them is a
step the service does not have. `ReadyStaysReady` is then a consequence, and
proved by itself too.

`CheckpointIsKept` and `NobodyTranslatesTwice` (`NoSecondTranslation`) allow every
fault and let a run be overtaken, but take one invocation at a time (`OneWorker`).
The heart of `RebuildInvariant` is `CheckpointKept`: while the record is that of a
run that asked to build again, its checkpoint is there and a delivery of it is let
in. It is preserved because whoever deletes a checkpoint has compared it with his
own run (`StepFits`), because a run that asked for a retry is never out for
"ready" or another retry before it has built (`GoalFits`), and because a run that
was overtaken is not let in to discard the checkpoint of its successor
(`shouldProcessClipRun`). `RequestsOwn` excludes that the request itself takes the
record back.

*Feed.* `Safety` (`Safe`), `TypeCorrect`, `InvariantHolds` (`FeedInvariant`), `NoForeignResult`,
`FinalFetchFailure`. The row is written whole from copies of any age, so the row
alone says nothing. The strengthening is that *every copy anybody holds* is
honest (`HonestCopies`), that an invocation about to write a result holds one its
run had, and a failed fetch only on the last delivery (`HonestResults`), and the
arithmetic of deliveries (`Deliveries`). Outcomes and deliveries only grow, so a
copy stays honest while it ages (lemma `RowStays`); for "failed on the last
delivery" it matters that there is no delivery after the last.

*Digest.* `DigestIsTyped`, `EtagsAreCurrent`, `BranchesAreDead`,
`RunsOnlyGoForward` (the action property `OnlyForward`), `FinishedRunsStay`
(`FinishedStays`). A conditional put replaces a record only by the holder of its
current etag; what that is worth is `FreshIsCurrent`: an invocation that is
still fresh holds the record as it is. It is preserved because whoever writes
takes the freshness of everybody else. So each write is a step from the record
itself, and it remains to say where an invocation stands when it writes
(`Placed`): at work only before the summaries are done, choosing only in the
evaluation, and, outside the catch block, only on a running record. With
`Records` (no record takes a branch the code declares impossible) and the types
of the rest this is `DigestInvariant`. The two action properties are proved of
each action from it (`DigestStep`): the record of a day stays, moves forward, or
is begun anew by a run that never had the day.

`DayIsKept` (`DayKept`) is the refinement of `DayRecord`: a run not used before
takes the day, goes through plan, evaluate, summarize and publish in this order,
and is published only with a summary, stays empty only if it skipped nothing, or
fails, which may happen even to a published run, since the catch block of
`processDigestDelivery` does not look at the status. `DigestInvariant` says
nothing of what an invocation is out for, so the proof adds `DayInvariant`: a
terminal status an invocation is about to record is one that the record it holds
may be given (`Reached`, in `Aimed`), every message but a start names a run, and a
record has a summary only once it summarizes (`Plausible`). A write that does not
lose its put is then one action of `DayRecord`; all other steps are not seen.
`DayKept` includes `OnlyForward`, which is therefore proved but no longer checked
by a run of its own.

`PublishedHasItsIssue` (`PublishedIsThere`) and `FailedRunLeavesNothing`
(`QuietCatalogue`) are about the first run of a day, for any number of invocations
and faults. `FirstRunInvariant` says of every message and invocation that it is
about that run, of one that publishes and is still fresh that issue and history
are in place as far as it has come, of one that removes issues that the run has
failed or stayed empty (nobody removes them before), and of a day that ended so
that its issue is gone, or that somebody will still look through the catalogue
(`Cleared`): a message that waits, or an invocation before the steps that do
(`Clears`). When everything has been dealt with, neither is left.

*Candidates.* `CandidateInvariantHolds`, `CandidateTypeCorrect`,
`DeliveredArticleIsShown` (`DeliveredIsShown`), `SettledLinkIsTheJobs`
(`SettledLinkAgrees`), `NothingIsForgotten` (`NothingForgotten`), for any number of
requests, overlapping or not. Every request puts a whole row back, so everything
hangs on its copy. `InSeries` says, of requests that have not overlapped, that there is one
at a time and that its copy is the row as it is (`Holding`), or the row with the
link it is about to write (`Linking`), which is the link of the job. `Agrees` has
to be given up between the moment the job is ready and the moment the consumer
has attached it, and after a write that failed. `DeliveredIsShown` needs none of
it, because the delivery asks the job before the row.

*Judgements.* `JudgementsStay` and `JudgementIsOfItsText`, for any grades, hashes,
budgets and replies. What `evaluateDeRecommendation` returns is one of four forms
(`EvaluationForms`), each with the hash it was asked of; each reads back from its
columns (`StoredReadsBack`), because 1 and 0 stand for yes and no and no value is
null; and what `resolveDeRecommendation` returns is the judgement it met, or a new
one (`ResolutionForms`). No such judgement is asked for again (`FreshIsReused`).

*Telemetry.* `TelemetryInvariantHolds`, `TelemetryTypeCorrect`, `PingsAreTrue`
(`PingsMatchTheJob`). A ping under way says what is true of the job when it sets
out, and the job stands still while one is under way; an address is dialled only
if the name server's answer is public, and the cache holds no other.

*Pull request risk.* `RiskInvariantHolds`, `RiskTypeCorrect`, `DangerIsReviewed`
(`DangerIsReviewedOnce`). A head the model was called for is on record or among
the lost; a run under way carries the record as it was when it read it, and
decides to call only for a head that is not in it (`ReviewFits`).

*Routes.* `RouteInvariantHolds`, `RoutesGuard` (`RoutesGuardWhatTheyChange`). Each
handler is a list of early returns before its answers (`Guarded`); an answer that
has an effect took none of them (lemma `GuardPasses`), which leaves who the caller
is. Only the requests for an article check in one step and act in another, so the
invariant carries what was checked (`CheckFits`). `RouteTypeCorrect`: nothing is
queued without an address (`QueuedIsNamed`).

*Deployment.* `WorkflowKeepsPromise` is the refinement: each step of the
workflow is a step of `Deployment` or leaves its variables alone. It needs no
invariant, because the mapping reads the verdict off the stage and the records,
and the guards of the step that condemns compare the versions themselves.
`DeploymentIsTyped`, `PassedRunStaysLive`, `CleanupClears` and `FailuresAreTold`
rest on `DeployInvariant`, which says for every stage what the state file and
the step outputs may hold (`StageOK`, `StateOK`, `OutputsOK`), what has been
posted (`PostedOK`), that only a failure that counts condemns (`CondemnedOK`), and
that after the notify step a failed smoke job has told Slack or tried to, has
nothing to tell, or was lost (`NotifiedOK`). The last is what `FailuresAreTold` is
made of: at the end the rollback's message is accounted for in the same way
(`SmokeSilentWell`, `ToldKept`).

*Interest.* `RecordedFetchesAreEarned`, `InterestIsTyped`,
`WhatIsLearntIsEarned` (`InterestIsEarned`), `RecordedFetchesStay`. A request
checks the expiry, sends the article and inserts the fetch in three calls, and a
new issue may replace the items in between. The strengthening is that a request
on its way carries what earned the fetch (`EarnedPosts`): a link that was
printed, looked up before its expiry, and past the send an article that was
sent. What was printed and what was sent only grow, so it stays earned while the
request waits.

*The parts together.* A behaviour of `Parts` is, for each part, a behaviour of
that part alone (`CandidateAndDeployment`, `OtherParts`): a step of one leaves the
variables of the others. So what is proved of them holds of the specification
that `parts` checks: `PartsAreTyped` (`TypeOK`), `PartsKeepTheirPromises` (the
safety properties and the refinement), and `JudgementsFitTheirText`
(`JudgementFitsTheText`), whose sample is a judgement on record and then a request
that meets it. The samples of the pure functions below grow in `Parts` too, so
what they grow to is an invariant of its specification.

*Selection.* `SelectionsAreJustified` (`SelectionIsJustified`), of every pool and
every learnt preference. The pool is put in the order of the comparator
(`RankedLists`), and `take` goes through it from the left. The invariant of that
loop (`ChosenSoFar`, kept by `TakeOneMore`) says that the counters of buckets and
sites are those of what is chosen, and that whatever has been passed over met a
limit that the better ones before it had reached. Candidates are judged in rounds
(`EvaluatedInRounds`) because a candidate's round is its place among those of its
site, and the rounds are flattened in order.

*Coverage report.* `ReportsCoverTheDiff` (`ReportCoversTheDiff`), of every diff
that git can print and whatever the tests recorded. The property compares a
reader that carries a path and a number with what the lines mean, seen from
where they stand: the header and the hunk before them. `RightlyRead` is the
inductive invariant: unless a line misleads, the reader is in step (`InStep`: its
path is the last header's, its number the next line's), and what it has found is
what was added. Hunks may overlap, so a line can be found twice; a set does not
mind, and the ranges that are printed (`RangesHoldTheLines`) hold each number
once. `ReportSaysAll` adds up the files.

*Lists.* `ListsCoverWhatIsStored` (`ListsCoverTheStore`). What is stored is
finite and has an id of its own each (`Some`, invariant of the specification).
`KeysList` makes a list of it, each element once, as the keys say. The pages are
cut from one list (`CutOfList`), so no match is lost between two of them or shown
by both (`PagesShowEach`), and grouping by day keeps the order (`GroupsKeepOrder`).
The catalogue is a shelf of days of articles (`CatalogueHoldsEach`); a stamp is the
greatest below it, because the first of a list in order is the greatest. That
the recent clips are the last needs that a job's stamp and the moment it was put
come in one order (`ListsAssumption`): they are written in one put.

*How data is proved about.* The induction theorems of the library take an
operator as a parameter, which these provers cannot instantiate. `PureProofs`
takes another way: a set of numbers that is not empty has a least one (`LeastNat`),
so a counterexample to a statement about the first k elements would have a least
k. `SetInduction` puts that as a lemma about a set. A fold over a sequence is
defined by a recursive function on sets that is chosen; that it exists is shown
by such an induction (`FoldingExists`), and what follows is that a fold over k + 1
elements is one more step after the fold over k (`FoldByPrefix`, `TakeByPrefix`,
`GrowByPrefix`, `ReadByPrefix`). `FlattenPositions` says where each element of a
list of lists comes to lie. Lemmas with functions stand where one would write
lemmas with operators. None of the modules with theorems reaches a recursive
operator.

What that took of the models: a sorted list is defined by the rank of each
element (`InOrder` in `Orders`), since `SetToSortSeq` ends in an operator the
provers cannot look into; the sums of the coverage report count pairs of file and
line (`OfAllFiles`) in place of a fold. `TLC` evaluates the same definitions.
The assumptions on the samples are what the types of the code say: numbers are
numbers and enumerations have no other members (`PoolAssumption`,
`ReportAssumption`, `ListsAssumption` in `Parts`).

Only model-checked: liveness (`RunDecides`, `EveryMessageSettles`,
`EnqueuedIsDecided`), which the provers cannot take up; `ArticleKeepsItsWords`,
because `ArticleText` descends trees by recursive operators; and
`ChunksKeepTheArticle`, a chain of seven loops, each with a size to add up.

What a proof taught about the model: `NoSecondTranslation` was first checked with
`MaxRetries = 1`, where the retry after a failed build is the last delivery. With
one delivery more it failed as it was stated: a run that gives up after its second
failed build deletes its checkpoint *before* it puts the failed record
(`src/queue/clip.ts`, `AfterTheCheckpoint`); cut off in between, it is delivered
again and translates anew. The property now speaks of a run until it is ready or
given up, which is as far as the promise goes (README.md:281, "until it completes
or the retries are broken off"), and `clip_overtaken` has the delivery more.

## 5. What the models leave out

*Clip.* Parsing of message bodies and of stored JSON (a corrupt record is read
as none), the `reuseReady` option (no caller in the Worker sets it), logs.
`NoSecondTranslation` is checked with one invocation at a time: with two, the
check-then-delete of the checkpoint can remove a checkpoint just written, and
the run translates again. A crash of the last delivery after the article is
stored leaves the checkpoint behind and the record running until it is stale
(README: the checkpoint is deleted when the run ends); `CheckpointIsTemporary`
speaks of acknowledged messages. A crash after classifying classifies again
(docs/classification.md: once). A duplicate delivery that read the record before
it became ready can write running over ready, which is why
`OutcomeKept` and `ReadyIsNotReopened` are about runs without the fault `duplicate`.

*Digest.* `ArticleStore.put` of the issue is one step. A put whose reply is lost
is not modelled. The branches that `DeadBranches` shows unreachable are left out
of the actions (promotion in `stepSummarize`, empty issue in `stepPublish`). The
catch block may fail a run that was published a moment before, which
`FinishedStays` names as its exception. History rows written before a failed
publish stay. Articles are counts here: which ones is `DailySelect`, what is learnt
from them `DigestInterest`, and the pings are in `Telemetry`.

*Feed.* What a collection finds is one of three outcomes; the candidates it
registers are in `CandidateRow`. Two things the model does but no property
speaks of: a *stop* saved while the consumer is between its read and its put of
`running` is undone (`queue/feed.ts:146`; README: a stop stops later
collections), and the catch block on the last delivery fails the row it reads,
even if a newer run has been queued in it. Liveness is not checked: the
consumer has the shape of the clip consumer, and `feed_hidden` shows where it
stops.

*Candidate.* One row at a time, which is what the code works on; the page is
what its fetch came to. The row's texts, the progress mark of the date repair
and the pages' HTML are left out. The model shows that overlapping requests do
forget (a selection made while a collection waits for Jev is gone); nothing in
the repository promises otherwise, so `NothingForgotten` is about requests that
do not overlap.

*Deployment.* Of kinds of failure that are treated alike one stands for all; a
diff is what the decision reads of it; redaction and wording are left out. What
the model does and no property excludes: the live version is read before
wrangler rolls back, so a version uploaded in between is undone too, although
docs/deploy-smoke.md:88 says that a newer release is not put back
(`Deployment` allows it: `Undo` does not look at `current`); a failure of which
both messages fail, or whose jobs are both lost, is told by nobody
(`FailureIsTold` excepts it), and a failed message changes no result
(`sendSlack`'s exit code, `smoke/cli.ts:72`, is that of a job that has failed
already, and the rollback ignores it); a cleanup cut short
after a run that passed is told by nobody; an article the queue stores after the
cleanup stays; the deadline of the verification leaves its article.

*Interest, routes.* A signature is the pair it signs, a secret is a value, a
comparison in constant time is an equality. The store under the routes is one
article per address; what a route enqueues is where the other modules start. An
article replaced between the check of the smoke credential and the read or the
delete is the exception `RoutesGuardWhatTheyChange` names (`overtaken`).

*Telemetry, review.* One job and one pull request at a time. The bytes of a
request, TLS and the text of a report are left out; an address is its four bytes. The record of a review can be overwritten by the
run of another head (docs/pr-risk.md:158 says one call per head), which is one
of the ways of losing it that `DangerIsReviewedOnce` names.

*Coverage report.* The Markdown and the quoting of paths. An added line `++ b/src/x.ts`
in a file that is no source is read as a header, and what follows is reported
under that file, although the comment at `src/coverage/diff-report.ts:80` says
only a header before the hunk names the file: there `inHunk` is never set.
`ReportCoversTheDiff` names it as its exception (`Misleading`).

*Article's text.* A text is tokens, a page a tree of elements; attributes, emphasis,
levels of headings, the languages of code, the limit of twelve images and the
character-by-character rules of what is chrome are left out, and ticks are
one token. The choice of the article comes before, the translator
between: "page" leaves the Markdown as it is, "answer" is Markdown of any kind.
What the model showed, and `ArticleKeepsItsWords` names as exceptions
(`AwkwardForms`): an image with a text of its own within a link leaves the marks
of the link to read, because the text and the placeholder come on two lines (the
comment at `sanitize-html.ts:594` has the image without a text in mind); an item
that begins with an image without a text shows the placeholder; code, a
quotation or a heading within an item shows its marks; so does a table in one
line with text. A cell more than the table has columns is dropped. And a heading
or an item with a line separator that is no newline (U+2028) begins a block
(`startsBlock`, whose patterns end at the first character) that none of the
branches takes (theirs go to the end of the line with `.`, which stops there),
so that the loop does not end; `translate/chunks.ts` has a branch for the line nobody
takes, `markdownToHtml` has not. The property says that this is the only way of
not ending. From the pages it cannot come, since `collapseText` makes a space of
the separator outside code.

*Lists, selection, judgement, chunks.* A time is a number and a second
`SecondLength` of them; D1 orders a page by second and id, the code within a
page by the full date, and `PagesCover` asks for no more than the second. Grades
are compared, never computed. A text is lines of words, each with a length and
an identity. The judging of candidates stops when a selection without the preference
for sites fills the quotas (`daily/select.ts:255`), while the selection itself
knows it; nothing in the repository says they must agree.

### Not modelled

- *Fetching and extraction* (`src/extract`, but for the text above): a page is
  fetched, its article, title, date and language are found, in one call and
  without state, by a parser (node-html-parser) and patterns on strings.
  `ClipJob` keeps whether it succeeded and whether the error is retried,
  `CandidateRow` the kinds of page a registration tells apart.
- *EPUB and images* (`src/epub`, `src/images`): file formats, likewise; `ClipJob`
  keeps that building may fail, `ReadingLists` what is read back.
- *Feed fetching and parsing* (`src/feeds/{fetch,parse}.ts`): text formats;
  `FeedCollection` keeps whether a feed was fetched and parsed.
- *Summaries and the issue's layout* (`src/daily/{summarize,issue}.ts`): the words
  of a language model and an EPUB.
- *Pages* (`src/*/html.ts`, `src/digest/confirm-page.ts`, the bookmarklet): HTML; what they submit and
  what is answered is in `AppRoutes`.
- *Developer tools* (`src/cli`, `src/translate/bakeoff-*.ts`): read-only reports
  and experiments outside the Worker.

## 6. Plan

What is left, the most important first.

1. The composition of `CandidateRow` with `ClipJob` in place of the reduced job.
2. A statement about stopped sources as a run of `FeedCollection`.
