---------------------------- MODULE ClipJobProofs ----------------------------
(***************************************************************************)
(* Proofs that the clip job protocol keeps its type invariant and the      *)
(* safety properties of the first group of ClipJobProperties, whatever the *)
(* number of runs, invocations and retries, and under every fault.         *)
(*                                                                         *)
(* Safe is inductive.  A step of an invocation is proved in two halves:    *)
(* what becomes of the invocation itself (lemma InvocationMoves), and what *)
(* becomes of the shared objects (one lemma per object that is written).   *)
(*                                                                         *)
(* The second half assumes OneAtATime, what the repository promises its    *)
(* job for: one request at a time and no fault that has a message worked   *)
(* on twice.  OneAtATimeInvariant is inductive under it.                   *)
(*                                                                         *)
(* The third part takes every fault, but one invocation at a time: a run   *)
(* whose EPUB failed to build does not pay for its translation again.      *)
(* RebuildInvariant is inductive besides Safe; Sole is the invocation.     *)
(*                                                                         *)
(* The fourth part, under OneAtATime again, is the refinement: each step   *)
(* of the protocol is one of the service of ClipOutcome or a stutter.      *)
(***************************************************************************)
EXTENDS ClipJobProperties, TLAPS

\* What ClipInvariant says of one invocation, given the shared objects.
LocalOK(l, done, gone, file) ==
    /\ l.pc # "idle" => l.run \in Runs
    /\ l.text \in {NoRun, l.run}
    /\ l.pc \in WithText => l.text = l.run
    /\ l.pc \in AfterStore \/ l.goal = "ready" => l.run \in done
    /\ ~gone /\ l.pc = "putMeta" => file # NoRun
    /\ l.pc = "writeMeta" => l.seen.of # NoRun

LocalsOK == \A w \in Workers : LocalOK(worker[w], stored, deleted, epub)

\* The rest of Safe: what it says of everything but the invocations.
ObjectTypes ==
    /\ job \in ClipJobRecord /\ ckpt \in RunOrNone
    /\ epub \in RunOrNone /\ meta \in ArticleMeta /\ cand \in CandidateRow
    /\ msg \in [Runs -> MessagePlaces] /\ tries \in [Runs -> Nat]
    /\ post \in [Runs -> RequestSteps]
    /\ stored \in SUBSET Runs /\ rebuild \in SUBSET Runs /\ deleted \in BOOLEAN

ObjectsOK == ObjectTypes /\ StoredIsOnOffer /\ EpubBeforeMeta /\ ReadyWasStored

\* The invariant is about the invocations one by one and the shared objects.
LEMMA SplitInvariant ==
    Safe <=> worker \in [Workers -> Invocation] /\ LocalsOK /\ ObjectsOK
<1>1. ClipInvariant <=>
          LocalsOK /\ StoredIsOnOffer /\ EpubBeforeMeta /\ ReadyWasStored
  BY DEF ClipInvariant, LocalsOK, LocalOK, BusyOnARun, Busy, OwnTranslation,
         TextAtHand, StoredFirst, HalfStored, FoundMeta
<1>2. TypeOK <=> worker \in [Workers -> Invocation] /\ ObjectTypes
  BY DEF TypeOK, ObjectTypes
<1>3. QED
  BY <1>1, <1>2 DEF Safe, ObjectsOK

\* The same, read in the next state.
LEMMA SplitInvariantNext ==
    (worker \in [Workers -> Invocation] /\ LocalsOK /\ ObjectsOK)' => Safe'
  BY SplitInvariant, PTL

-----------------------------------------------------------------------------
(* The locals of an invocation. *)

\* The fields of an invocation have the types of Invocation.
LEMMA InvocationFields ==
    ASSUME NEW l \in Invocation
    PROVE  /\ l.pc \in Steps /\ l.run \in RunOrNone /\ l.attempt \in Nat
           /\ l.goal \in Goals /\ l.caught \in BOOLEAN /\ l.text \in RunOrNone
           /\ l.seen \in ArticleMeta /\ l.row \in CandidateRow
  BY DEF Invocation

\* An invocation at rest, ...
LEMMA IdleOK ==
    ASSUME NEW done, NEW gone, NEW file
    PROVE  Idle \in Invocation /\ LocalOK(Idle, done, gone, file)
<1>1. Idle \in Invocation
  BY DEF Idle, Invocation, Steps, Goals, RunOrNone, NoMeta, ArticleMeta,
         NoLink, CandidateRow
<1>2. /\ Idle.pc = "idle" /\ Idle.run = NoRun /\ Idle.goal = "none"
      /\ Idle.text = NoRun
  BY DEF Idle
<1>3. QED
  BY <1>1, <1>2 DEF LocalOK, WithText, AfterStore

\* ... and one that has just been handed a message.
LEMMA BegunOK ==
    ASSUME NEW r \in Runs, NEW n \in Nat, NEW done, NEW gone, NEW file,
           NEW k, k = [Idle EXCEPT !.pc = "read", !.run = r, !.attempt = n]
    PROVE  k \in Invocation /\ LocalOK(k, done, gone, file)
<1>1. Idle \in Invocation
  BY IdleOK
<1>2. k \in Invocation
  BY <1>1 DEF Invocation, Steps, TrySteps, RunOrNone
<1>3. k.pc = "read" /\ k.run = r /\ k.goal = "none" /\ k.text = NoRun
  BY DEF Idle
<1>4. QED
  BY <1>2, <1>3 DEF LocalOK, WithText, AfterStore

-----------------------------------------------------------------------------
(* The invocation that takes a step. *)

\* What a step of w has to establish: the locals it ends with are those of
\* the same message and fit the shared objects as they are afterwards.
MovesTo(w, l) ==
    /\ Become(w, l)
    /\ l \in Invocation
    /\ LocalOK(l, stored', deleted', epub')

\* Going on to a step whose conditions the old locals already meet.
LEMMA GotoMoves ==
    ASSUME Safe, NEW w \in Workers, Busy(w), NEW step \in Steps, Goto(w, step),
           step \in WithText => worker[w].pc \in WithText,
           step \in AfterStore => worker[w].run \in stored',
           step = "putMeta" => epub' # NoRun,
           step # "writeMeta", stored \subseteq stored'
    PROVE  \E l : MovesTo(w, l)
<1>1. /\ worker[w] \in Invocation
      /\ LocalOK(worker[w], stored, deleted, epub)
  BY SplitInvariant DEF LocalsOK
<1>2. PICK k : k = [worker[w] EXCEPT !.pc = step]
  OBVIOUS
<1>3. /\ k \in Invocation /\ k.pc = step /\ k.goal = worker[w].goal
      /\ k.run = worker[w].run /\ k.text = worker[w].text /\ k.seen = worker[w].seen
  BY <1>1, <1>2 DEF Invocation
<1>4. LocalOK(k, stored', deleted', epub')
  BY <1>1, <1>3 DEF LocalOK, Busy
<1>5. QED
  BY <1>2, <1>3, <1>4 DEF MovesTo, Goto

\* A new goal that is not "ready", and a step that asks for no text.
LEMMA GoalMoves ==
    ASSUME Safe, NEW w \in Workers, Busy(w), stored' = stored,
           NEW step \in {"checkRun", "findCkpt"},
           NEW goal \in {"running", "skip", "retry", "failed"},
           Become(w, [worker[w] EXCEPT !.pc = step, !.goal = goal])
    PROVE  \E l : MovesTo(w, l)
<1>1. /\ worker[w] \in Invocation
      /\ LocalOK(worker[w], stored, deleted, epub)
  BY SplitInvariant DEF LocalsOK
<1>2. PICK k : k = [worker[w] EXCEPT !.pc = step, !.goal = goal]
  OBVIOUS
<1>3. step \in Steps /\ goal \in Goals
  BY DEF Steps, SharedSteps, Goals
<1>4. /\ k \in Invocation /\ k.pc = step /\ k.goal = goal
      /\ k.run = worker[w].run /\ k.text = worker[w].text /\ k.seen = worker[w].seen
  BY <1>1, <1>2, <1>3 DEF Invocation
<1>5. LocalOK(k, stored', deleted', epub')
  BY <1>1, <1>4 DEF LocalOK, Busy, WithText, AfterStore
<1>6. QED
  BY <1>2, <1>4, <1>5 DEF MovesTo

\* A run whose article is stored sets out for the ready record.
LEMMA ReadyMoves ==
    ASSUME Safe, NEW w \in Workers, Busy(w), stored' = stored,
           worker[w].run \in stored,
           Become(w, [worker[w] EXCEPT !.pc = "checkRun", !.goal = "ready"])
    PROVE  \E l : MovesTo(w, l)
<1>1. /\ worker[w] \in Invocation
      /\ LocalOK(worker[w], stored, deleted, epub)
  BY SplitInvariant DEF LocalsOK
<1>2. PICK k : k = [worker[w] EXCEPT !.pc = "checkRun", !.goal = "ready"]
  OBVIOUS
<1>3. "checkRun" \in Steps /\ "ready" \in Goals
  BY DEF Steps, SharedSteps, Goals
<1>4. /\ k \in Invocation /\ k.pc = "checkRun" /\ k.goal = "ready"
      /\ k.run = worker[w].run /\ k.text = worker[w].text /\ k.seen = worker[w].seen
  BY <1>1, <1>2, <1>3 DEF Invocation
<1>5. LocalOK(k, stored', deleted', epub')
  BY <1>1, <1>4 DEF LocalOK, Busy, WithText, AfterStore
<1>6. QED
  BY <1>2, <1>4, <1>5 DEF MovesTo

\* The text of the run itself comes to hand.
LEMMA TextMoves ==
    ASSUME Safe, NEW w \in Workers, Busy(w), stored' = stored,
           NEW step \in {"saveCheck", "build"},
           Become(w, [worker[w] EXCEPT !.pc = step, !.text = worker[w].run])
    PROVE  \E l : MovesTo(w, l)
<1>1. /\ worker[w] \in Invocation
      /\ LocalOK(worker[w], stored, deleted, epub)
  BY SplitInvariant DEF LocalsOK
<1>2. PICK k : k = [worker[w] EXCEPT !.pc = step, !.text = worker[w].run]
  OBVIOUS
<1>3. step \in Steps /\ worker[w].run \in RunOrNone
  BY <1>1, InvocationFields DEF Steps, TrySteps
<1>4. /\ k \in Invocation /\ k.pc = step /\ k.goal = worker[w].goal
      /\ k.run = worker[w].run /\ k.text = worker[w].run /\ k.seen = worker[w].seen
  BY <1>1, <1>2, <1>3 DEF Invocation
<1>5. LocalOK(k, stored', deleted', epub')
  BY <1>1, <1>4 DEF LocalOK, Busy, WithText, AfterStore
<1>6. QED
  BY <1>2, <1>4, <1>5 DEF MovesTo

\* Whatever an error leads to.
LEMMA GiveUpMoves ==
    ASSUME Safe, NEW w \in Workers, Busy(w), stored' = stored,
           NEW error, GiveUp(w, error)
    PROVE  \E l : MovesTo(w, l)
  BY GoalMoves DEF GiveUp

-----------------------------------------------------------------------------
\* Every step of a consumer invocation, the exception included, leaves it
\* with locals that fit the objects it has written so far.
LEMMA InvocationMoves ==
    ASSUME Safe, NEW w \in Workers, ConsumerStep(w) \/ Throw(w)
    PROVE  \E l : MovesTo(w, l)
<1> DEFINE l == worker[w]
<1>0. /\ l \in Invocation
      /\ LocalOK(l, stored, deleted, epub)
  BY SplitInvariant DEF LocalsOK
<1> USE DEF histVars
<1>1. CASE ReadJob(w)
  BY <1>1, GoalMoves DEF ReadJob, Busy
<1>2. CASE CheckRun(w)
  <2>1. PICK step \in {"writeJob", "retry", "ack"} : Goto(w, step)
    BY <1>2 DEF CheckRun, AfterLosingTheJob
  <2>2. QED
    BY <1>2, <2>1, GotoMoves
       DEF CheckRun, Busy, Steps, SharedSteps, LastSteps, WithText, AfterStore
<1>3. CASE WriteJob(w)
  <2>1. PICK step \in {"loadCkpt", "findCkpt", "retry", "ack"} : Goto(w, step)
    BY <1>3 DEF WriteJob, AfterWriting
  <2>2. QED
    BY <1>3, <2>1, GotoMoves
       DEF WriteJob, Busy, Steps, TrySteps, SharedSteps, LastSteps, WithText, AfterStore
<1>4. CASE FindCheckpoint(w) \/ DropCheckpoint(w)
  <2>1. PICK step \in {"dropCkpt", "ack", "findCand", "checkRun"} :
            /\ Goto(w, step)
            /\ step = "findCand" => l.goal = "ready"
    BY <1>4 DEF FindCheckpoint, DropCheckpoint, AfterTheCheckpoint
  <2>2. step \in AfterStore => l.run \in stored
    BY <1>0, <2>1 DEF LocalOK, AfterStore
  <2>3. QED
    BY <1>4, <2>1, <2>2, GotoMoves
       DEF FindCheckpoint, DropCheckpoint, Busy, Steps, SharedSteps, LastSteps, WithText, AfterStore
<1>5. CASE LoadCheckpoint(w)
  <2>1. CASE ckpt = l.run
    BY <1>5, <2>1, TextMoves DEF LoadCheckpoint, Busy
  <2>2. CASE ckpt # l.run
    <3>1. PICK step \in {"translate", "purgeCkpt"} : Goto(w, step)
      BY <1>5, <2>2 DEF LoadCheckpoint
    <3>2. QED
      BY <1>5, <3>1, GotoMoves
         DEF LoadCheckpoint, Busy, Steps, TrySteps, WithText, AfterStore
  <2>3. QED
    BY <2>1, <2>2
<1>6. CASE PurgeCheckpoint(w)
  BY <1>6, GotoMoves DEF PurgeCheckpoint, Busy, Steps, TrySteps, WithText, AfterStore
<1>7. CASE Translate(w)
  BY <1>7, TextMoves, GiveUpMoves DEF Translate, Busy
<1>8. CASE SaveCheck(w) \/ SaveCheckpoint(w) \/ BuildEpub(w)
  <2>1. PICK step \in {"saveCkpt", "build", "confirmPut"} : Goto(w, step)
    BY <1>8 DEF SaveCheck, SaveCheckpoint, BuildEpub
  <2>2. QED
    BY <1>8, <2>1, GotoMoves
       DEF SaveCheck, SaveCheckpoint, BuildEpub, Busy, Steps, TrySteps, WithText, AfterStore
<1>9. CASE BuildFails(w)
  BY <1>9, GiveUpMoves DEF BuildFails, Busy
<1>10. CASE ConfirmRun(w)
  <2>1. CASE Become(w, [l EXCEPT !.pc = "checkRun", !.goal = "ready"])
             /\ l.pc = "confirmLabel"
    <3>1. l.run \in stored
      BY <1>0, <2>1 DEF LocalOK, AfterStore
    <3>2. QED
      BY <1>10, <2>1, <3>1, ReadyMoves DEF ConfirmRun, Busy
  <2>2. CASE \/ l.pc = "confirmPut" /\ Goto(w, "putEpub")
             \/ Goto(w, "ack")
    BY <1>10, <2>2, GotoMoves
       DEF ConfirmRun, Busy, Steps, TrySteps, LastSteps, WithText, AfterStore
  <2>3. CASE \/ l.pc = "confirmClassify" /\ Goto(w, "classify")
             \/ l.pc = "confirmLabel" /\ Goto(w, "readMeta")
    <3>1. l.run \in stored
      BY <1>0, <2>3 DEF LocalOK, AfterStore
    <3>2. QED
      BY <1>10, <2>3, <3>1, GotoMoves
         DEF ConfirmRun, Busy, Steps, TrySteps, WithText, AfterStore
  <2>4. QED
    BY <1>10, <2>1, <2>2, <2>3 DEF ConfirmRun
<1>11. CASE PutEpub(w)
  <2>1. epub' # NoRun
    BY <1>0, <1>11, NoRunAssumption DEF PutEpub, LocalOK, WithText
  <2>2. QED
    BY <1>11, <2>1, GotoMoves
       DEF PutEpub, consumerOnly, Busy, Steps, TrySteps, WithText, AfterStore
<1>12. CASE PutMeta(w)
  BY <1>12, GotoMoves
     DEF PutMeta, Busy, Steps, TrySteps, WithText, AfterStore
<1>13. CASE Classify(w)
  <2>1. l.run \in stored
    BY <1>0, <1>13 DEF Classify, LocalOK, AfterStore
  <2>2. QED
    BY <1>13, <2>1, GotoMoves
       DEF Classify, Busy, Steps, TrySteps, WithText, AfterStore
<1>14. CASE ReadMeta(w)
  <2>1. PICK step \in {"checkRun", "writeMeta"} :
            /\ Become(w, [l EXCEPT !.pc = step, !.seen = meta, !.goal = "ready"])
            /\ step = "writeMeta" => meta.of # NoRun
    BY <1>14 DEF ReadMeta
  <2>2. PICK k : k = [l EXCEPT !.pc = step, !.seen = meta, !.goal = "ready"]
    OBVIOUS
  <2>3. step \in Steps /\ "ready" \in Goals /\ meta \in ArticleMeta
    BY DEF Steps, TrySteps, SharedSteps, Goals, Safe, TypeOK
  <2>4. /\ k \in Invocation /\ k.pc = step /\ k.goal = "ready"
        /\ k.run = l.run /\ k.text = l.text /\ k.seen = meta
    BY <1>0, <2>2, <2>3 DEF Invocation
  <2>5. stored' = stored /\ l.pc = "readMeta"
    BY <1>14 DEF ReadMeta
  <2>6. LocalOK(k, stored', deleted', epub')
    BY <1>0, <2>1, <2>4, <2>5 DEF LocalOK, WithText, AfterStore
  <2>7. QED
    BY <2>1, <2>2, <2>4, <2>6 DEF MovesTo
<1>15. CASE WriteMeta(w)
  BY <1>15, GotoMoves DEF WriteMeta, Busy, Steps, SharedSteps, WithText, AfterStore
<1>16. CASE FindCandidate(w)
  <2>1. CASE Goto(w, "ack")
    BY <1>16, <2>1, GotoMoves
       DEF FindCandidate, Busy, Steps, LastSteps, WithText, AfterStore
  <2>2. CASE Become(w, [l EXCEPT !.pc = "attach", !.row = cand])
    <3>1. PICK k : k = [l EXCEPT !.pc = "attach", !.row = cand]
      OBVIOUS
    <3>2. "attach" \in Steps /\ cand \in CandidateRow
      BY DEF Steps, LastSteps, Safe, TypeOK
    <3>3. /\ k \in Invocation /\ k.pc = "attach" /\ k.goal = l.goal
          /\ k.run = l.run /\ k.text = l.text
      BY <1>0, <3>1, <3>2 DEF Invocation
    <3>4. stored' = stored /\ l.pc = "findCand"
      BY <1>16 DEF FindCandidate
    <3>5. LocalOK(k, stored', deleted', epub')
      BY <1>0, <3>3, <3>4 DEF LocalOK, WithText, AfterStore
    <3>6. QED
      BY <2>2, <3>1, <3>3, <3>5 DEF MovesTo
  <2>3. QED
    BY <1>16, <2>1, <2>2 DEF FindCandidate
<1>17. CASE AttachCandidate(w)
  BY <1>17, GotoMoves
     DEF AttachCandidate, Busy, Steps, LastSteps, WithText, AfterStore
<1>18. CASE Ack(w) \/ Retry(w)
  BY <1>18, IdleOK DEF Ack, Retry, MovesTo
<1>19. CASE Throw(w)
  <2>1. PICK step \in {"checkRun", "findCkpt"}, goal \in {"retry", "failed"} :
            Become(w, [l EXCEPT !.pc = step, !.goal = goal, !.caught = TRUE])
    BY <1>19 DEF Throw
  <2>2. PICK k : k = [l EXCEPT !.pc = step, !.goal = goal, !.caught = TRUE]
    OBVIOUS
  <2>3. step \in Steps /\ goal \in Goals
    BY DEF Steps, SharedSteps, Goals
  <2>4. stored' = stored /\ l.pc # "idle"
    BY <1>19 DEF Throw, TrySteps, SharedSteps
  <2>5. /\ k \in Invocation /\ k.pc = step /\ k.goal = goal
        /\ k.run = l.run /\ k.text = l.text
    BY <1>0, <2>2, <2>3 DEF Invocation
  <2>6. LocalOK(k, stored', deleted', epub')
    BY <1>0, <2>4, <2>5 DEF LocalOK, WithText, AfterStore
  <2>7. QED
    BY <2>1, <2>2, <2>5, <2>6 DEF MovesTo
<1>20. QED
  BY <1>1, <1>2, <1>3, <1>4, <1>5, <1>6, <1>7, <1>8, <1>9, <1>10, <1>11, <1>12,
     <1>13, <1>14, <1>15, <1>16, <1>17, <1>18, <1>19 DEF ConsumerStep
-----------------------------------------------------------------------------
(* Everybody else, and the objects. *)

\* What a step may do to the history the invocations rely on.
Keeps == /\ stored \subseteq stored'
         /\ deleted => deleted'
         /\ deleted' \/ (epub # NoRun => epub' # NoRun)

\* The objects a step leaves or improves do not disturb an invocation.
LEMMA OthersStay ==
    ASSUME NEW l, LocalOK(l, stored, deleted, epub), Keeps
    PROVE  LocalOK(l, stored', deleted', epub')
  BY DEF LocalOK, Keeps

\* Nobody moves.
LEMMA NobodyMoves ==
    ASSUME Safe, Keeps, UNCHANGED worker
    PROVE  worker' \in [Workers -> Invocation] /\ LocalsOK'
  BY SplitInvariant, OthersStay DEF LocalsOK

\* One invocation moves.
LEMMA OneMoves ==
    ASSUME Safe, Keeps, NEW w \in Workers, NEW l, MovesTo(w, l)
    PROVE  worker' \in [Workers -> Invocation] /\ LocalsOK'
<1>1. worker \in [Workers -> Invocation] /\ LocalsOK
  BY SplitInvariant
<1>2. /\ worker' \in [Workers -> Invocation]
      /\ worker'[w] = l
      /\ \A v \in Workers : v # w => worker'[v] = worker[v]
  BY <1>1 DEF MovesTo, Become
<1>3. ASSUME NEW v \in Workers PROVE LocalOK(worker'[v], stored', deleted', epub')
  <2>1. CASE v = w
    BY <1>2, <2>1 DEF MovesTo
  <2>2. CASE v # w
    BY <1>1, <1>2, <2>2, OthersStay DEF LocalsOK
  <2>3. QED
    BY <2>1, <2>2
<1>4. QED
  BY <1>2, <1>3 DEF LocalsOK

\* A step of an invocation: the objects it writes.
LEMMA ConsumerObjects ==
    ASSUME Safe, NEW w \in Workers, ConsumerStep(w) \/ Throw(w)
    PROVE  ObjectsOK' /\ Keeps
<1> DEFINE l == worker[w]
<1>0. /\ l \in Invocation
      /\ LocalOK(l, stored, deleted, epub)
      /\ ObjectsOK
  BY SplitInvariant DEF LocalsOK
<1> USE <1>0 DEF ObjectsOK, ObjectTypes, Keeps, articleVars, consumerOnly,
                 queueVars, histVars
<1>1. CASE /\ UNCHANGED <<job, ckpt, epub, meta, cand>>
           /\ UNCHANGED <<msg, tries, post>>
           /\ UNCHANGED <<stored, rebuild, deleted>>
  BY <1>1 DEF StoredIsOnOffer, EpubBeforeMeta, ReadyWasStored
<1>2. CASE WriteJob(w)
  <2>1. job' \in ClipJobRecord /\ (job'.status = "ready" => job'.run = l.run /\ l.goal = "ready")
    BY <1>2, InvocationFields
       DEF WriteJob, RecordFor, JobOf, ClipJobRecord, RunOrNone, Statuses, Codes
  <2>2. QED
    BY <1>2, <2>1 DEF WriteJob, LocalOK, StoredIsOnOffer, EpubBeforeMeta, ReadyWasStored
<1>3. CASE DropCheckpoint(w) \/ PurgeCheckpoint(w) \/ SaveCheckpoint(w)
  <2>1. ckpt' \in RunOrNone
    BY <1>3, InvocationFields DEF DropCheckpoint, PurgeCheckpoint, SaveCheckpoint, RunOrNone
  <2>2. QED
    BY <1>3, <2>1 DEF DropCheckpoint, PurgeCheckpoint, SaveCheckpoint,
                      StoredIsOnOffer, EpubBeforeMeta, ReadyWasStored
<1>4. CASE Translate(w)
  BY <1>4, <1>1 DEF Translate
<1>5. CASE BuildFails(w)
  <2>1. rebuild' \in SUBSET Runs
    BY <1>5 DEF BuildFails, LocalOK
  <2>2. QED
    BY <1>5, <2>1 DEF BuildFails, StoredIsOnOffer, EpubBeforeMeta, ReadyWasStored
<1>6. CASE PutEpub(w)
  <2>1. epub' \in RunOrNone /\ epub' # NoRun
    BY <1>6, InvocationFields, NoRunAssumption DEF PutEpub, LocalOK, WithText
  <2>2. QED
    BY <1>6, <2>1 DEF PutEpub, StoredIsOnOffer, EpubBeforeMeta, ReadyWasStored
<1>7. CASE PutMeta(w)
  <2>1. l.run \in Runs /\ l.text = l.run /\ (~deleted => epub # NoRun)
    BY <1>7 DEF PutMeta, LocalOK, WithText
  <2>2. meta' \in ArticleMeta /\ meta'.of # NoRun /\ stored' \in SUBSET Runs
    BY <1>7, <2>1, NoRunAssumption DEF PutMeta, ArticleMeta, RunOrNone
  <2>3. QED
    BY <1>7, <2>1, <2>2 DEF PutMeta, StoredIsOnOffer, EpubBeforeMeta, ReadyWasStored
<1>8. CASE Classify(w)
  BY <1>8, <1>1 DEF Classify
<1>9. CASE WriteMeta(w)
  <2>1. l.seen \in ArticleMeta /\ l.seen.of # NoRun /\ l.run \in stored
    BY <1>9, InvocationFields DEF WriteMeta, LocalOK, AfterStore
  <2>2. meta' \in ArticleMeta /\ meta'.of # NoRun
    BY <1>9, <2>1 DEF WriteMeta, ArticleMeta
  <2>3. QED
    BY <1>9, <2>1, <2>2 DEF WriteMeta, StoredIsOnOffer, EpubBeforeMeta, ReadyWasStored
<1>10. CASE AttachCandidate(w)
  <2>1. l.row \in CandidateRow /\ l.run \in stored
    BY <1>10, InvocationFields DEF AttachCandidate, LocalOK, AfterStore
  <2>2. cand' \in CandidateRow /\ cand'.run = l.run
    BY <1>10, <2>1 DEF AttachCandidate, CandidateRow, RunOrNone
  <2>3. QED
    BY <1>10, <2>1, <2>2 DEF AttachCandidate, StoredIsOnOffer, EpubBeforeMeta, ReadyWasStored
<1>11. CASE Ack(w) \/ Retry(w)
  <2>1. l.run \in Runs
    BY <1>11 DEF Ack, Retry, LocalOK
  <2>2. msg' \in [Runs -> MessagePlaces]
    BY <1>11, <2>1 DEF Ack, Retry, Returned, MessagePlaces
  <2>3. QED
    BY <1>11, <2>2 DEF Ack, Retry, StoredIsOnOffer, EpubBeforeMeta, ReadyWasStored
<1>12. QED
  BY <1>1, <1>2, <1>3, <1>4, <1>5, <1>6, <1>7, <1>8, <1>9, <1>10, <1>11
     DEF ConsumerStep, ReadJob, CheckRun, FindCheckpoint, LoadCheckpoint,
         SaveCheck, BuildEpub, ConfirmRun, ReadMeta, FindCandidate, Throw

\* A step of a consumer invocation (runClipQueueMessage, processMessage).
LEMMA ConsumerSafe ==
    ASSUME Safe, NEW w \in Workers, ConsumerStep(w) \/ Throw(w)
    PROVE  Safe'
  BY InvocationMoves, ConsumerObjects, OneMoves, SplitInvariantNext

-----------------------------------------------------------------------------
(* The requests, the queue and the rest. *)

\* A step of a request (enqueueClipJob), which never writes "ready".
LEMMA RequestSafe ==
    ASSUME Safe, NEW p \in Runs, Lookup(p) \/ RequestStep(p) \/ RequestDies(p)
    PROVE  Safe'
<1>0. ObjectsOK
  BY SplitInvariant
<1> USE <1>0 DEF ObjectsOK, ObjectTypes, articleVars, queueVars, histVars,
                 StoredIsOnOffer, EpubBeforeMeta, ReadyWasStored
<1>1. Keeps /\ UNCHANGED worker
  BY DEF Keeps, Lookup, RequestStep, RequestDies, PutQueued, Send, SendFails,
         PutQueueFailed, PutRecorded
<1>2. ObjectsOK'
  <2>1. CASE Lookup(p) \/ RequestDies(p)
    BY <2>1 DEF Lookup, RequestDies, RequestSteps
  <2>2. CASE PutQueued(p) \/ PutQueueFailed(p) \/ PutRecorded(p)
    <3>1. PICK status \in {"queued", "failed"}, code \in {"none", "queue_failed"} :
              job' = [run |-> p, status |-> status, code |-> code, stale |-> FALSE]
      BY <2>2 DEF PutQueued, PutQueueFailed, PutRecorded, JobOf
    <3>2. job' \in ClipJobRecord /\ job'.status # "ready"
      BY <3>1 DEF ClipJobRecord, RunOrNone, Statuses, Codes
    <3>3. QED
      BY <2>2, <3>2 DEF PutQueued, PutQueueFailed, PutRecorded, RequestSteps
  <2>3. CASE Send(p) \/ SendFails(p)
    BY <2>3 DEF Send, SendFails, RequestSteps, MessagePlaces
  <2>4. QED
    BY <2>1, <2>2, <2>3 DEF RequestStep
<1>3. QED
  BY <1>1, <1>2, NobodyMoves, SplitInvariantNext

\* A delivery starts an invocation afresh; a crash forgets it.
LEMMA QueueSafe ==
    ASSUME Safe, NEW w \in Workers, NEW r \in Runs,
           Deliver(w, r) \/ DeliverTwice(w, r) \/ Crash(w)
    PROVE  Safe'
<1>0. ObjectsOK /\ LocalOK(worker[w], stored, deleted, epub)
  BY SplitInvariant DEF LocalsOK
<1> USE <1>0 DEF ObjectsOK, ObjectTypes, articleVars, queueVars, histVars,
                 StoredIsOnOffer, EpubBeforeMeta, ReadyWasStored
<1>1. Keeps
  BY DEF Keeps, Deliver, DeliverTwice, Crash
<1>2. \E l : MovesTo(w, l)
  <2>1. CASE Crash(w)
    BY <2>1, IdleOK DEF Crash, MovesTo
  <2>2. CASE Deliver(w, r) \/ DeliverTwice(w, r)
    <3>1. PICK n \in Nat : Begin(w, r, n)
      BY <2>2 DEF Deliver, DeliverTwice
    <3>2. PICK k : k = [Idle EXCEPT !.pc = "read", !.run = r, !.attempt = n]
      OBVIOUS
    <3>3. k \in Invocation /\ LocalOK(k, stored', deleted', epub')
      BY <3>2, BegunOK
    <3>4. QED
      BY <3>1, <3>2, <3>3 DEF Begin, MovesTo
  <2>3. QED
    BY <2>1, <2>2
<1>3. ObjectsOK'
  <2>1. CASE Deliver(w, r) \/ DeliverTwice(w, r)
    BY <2>1 DEF Deliver, DeliverTwice, MessagePlaces
  <2>2. CASE Crash(w)
    <3>1. worker[w].run \in Runs
      BY <2>2 DEF Crash, Busy, LocalOK
    <3>2. msg' \in [Runs -> MessagePlaces]
      BY <2>2, <3>1 DEF Crash, Returned, MessagePlaces
    <3>3. QED
      BY <2>2, <3>2 DEF Crash
  <2>3. QED
    BY <2>1, <2>2
<1>4. QED
  BY <1>1, <1>2, <1>3, OneMoves, SplitInvariantNext

\* Time passes, or the article is deleted.
LEMMA EnvironmentSafe ==
    ASSUME Safe, GoStale \/ DeleteArticle
    PROVE  Safe'
<1>0. ObjectsOK
  BY SplitInvariant
<1> USE <1>0 DEF ObjectsOK, ObjectTypes, articleVars, consumerOnly, queueVars,
                 histVars, StoredIsOnOffer, EpubBeforeMeta, ReadyWasStored
<1>1. Keeps /\ UNCHANGED worker
  BY DEF Keeps, GoStale, DeleteArticle
<1>2. ObjectsOK'
  <2>1. CASE GoStale
    BY <2>1 DEF GoStale, ClipJobRecord
  <2>2. CASE DeleteArticle
    BY <2>2 DEF DeleteArticle, NoMeta, ArticleMeta, RunOrNone
  <2>3. QED
    BY <2>1, <2>2
<1>3. QED
  BY <1>1, <1>2, NobodyMoves, SplitInvariantNext

-----------------------------------------------------------------------------
(* The theorems. *)

\* Nothing has been clipped yet.
LEMMA InitSafe == Init => Safe
<1> SUFFICES ASSUME Init PROVE Safe
  OBVIOUS
<1>1. LocalsOK /\ worker \in [Workers -> Invocation]
  BY IdleOK DEF Init, LocalsOK
<1>2. ObjectsOK
  BY DEF Init, ObjectsOK, ObjectTypes, NoJob, ClipJobRecord, RunOrNone,
         Statuses, Codes, NoMeta, ArticleMeta, NoLink, CandidateRow,
         MessagePlaces, RequestSteps, StoredIsOnOffer, EpubBeforeMeta,
         ReadyWasStored
<1>3. QED
  BY <1>1, <1>2, SplitInvariant

\* Every step keeps Safe.
LEMMA NextSafe == Safe /\ [Next]_vars => Safe'
<1> SUFFICES ASSUME Safe, [Next]_vars PROVE Safe'
  OBVIOUS
<1>1. ASSUME NEW p \in Runs, Lookup(p) \/ RequestStep(p) \/ RequestDies(p)
      PROVE  Safe'
  BY <1>1, RequestSafe
<1>2. ASSUME NEW w \in Workers, NEW r \in Runs, Deliver(w, r) \/ DeliverTwice(w, r)
      PROVE  Safe'
  BY <1>2, QueueSafe
<1>3. ASSUME NEW w \in Workers, ConsumerStep(w) \/ Throw(w)
      PROVE  Safe'
  BY <1>3, ConsumerSafe
<1>4. ASSUME NEW w \in Workers, Crash(w)
      PROVE  Safe'
  <2>1. worker[w].run \in Runs
    BY <1>4, SplitInvariant DEF Crash, Busy, LocalsOK, LocalOK
  <2>2. QED
    BY <1>4, <2>1, QueueSafe
<1>5. CASE GoStale \/ DeleteArticle
  BY <1>5, EnvironmentSafe
<1>6. CASE UNCHANGED vars
  BY <1>6 DEF vars, Safe, TypeOK, ClipInvariant, BusyOnARun, Busy,
              OwnTranslation, TextAtHand, StoredFirst, HalfStored, FoundMeta,
              StoredIsOnOffer, EpubBeforeMeta, ReadyWasStored
<1>7. QED
  BY <1>1, <1>2, <1>3, <1>4, <1>5, <1>6 DEF Next, SystemStep, Environment

\* Safe is an invariant: the shapes and the strengthening hold in every state
\* that requests, deliveries, exceptions, crashes and deletions can lead to.
THEOREM Safety == Spec => []Safe
  BY InitSafe, NextSafe, PTL DEF Spec

\* Every record, object and invocation keeps the shape of its type in
\* types/job.ts, for any number of runs and invocations.
THEOREM TypeCorrect == Spec => []TypeOK
  BY Safety, PTL DEF Safe

\* Every part of ClipInvariant holds: among them that an invocation only ever
\* handles its own run's translation (checkpointForRun), that ready and
\* completed are only ever said of a run that finished store.put, and that
\* putClassification never brings back metadata that it did not find.
THEOREM InvariantHolds == Spec => []ClipInvariant
  BY Safety, PTL DEF Safe

\* What is ready or completed can be downloaded until the article is deleted,
\* whatever is retried, duplicated, overtaken or cut short on the way
\* (runClipQueueMessage stores, then records, then attaches).
THEOREM AlwaysDownloadable == Spec => []Downloadable
<1>1. Safe => Downloadable
  BY DEF Safe, ClipInvariant, ReadyWasStored, StoredIsOnOffer, Downloadable
<1>2. QED
  BY <1>1, Safety, PTL

\* The catalog has no entry without its EPUB: store.put writes the EPUB first.
THEOREM EpubComesFirst == Spec => []EpubBeforeMeta
<1>1. Safe => EpubBeforeMeta
  BY DEF Safe, ClipInvariant
<1>2. QED
  BY <1>1, Safety, PTL

\* A ready record and a completed candidate name a run whose store.put ended.
THEOREM ReadyMeansStored == Spec => []ReadyWasStored
<1>1. Safe => ReadyWasStored
  BY DEF Safe, ClipInvariant
<1>2. QED
  BY <1>1, Safety, PTL

\* No invocation ever builds or stores the translation of another run, even
\* though all runs of a URL share one checkpoint object.
THEOREM NoForeignTranslation == Spec => []OwnTranslation
<1>1. Safe => OwnTranslation
  BY DEF Safe, ClipInvariant
<1>2. QED
  BY <1>1, Safety, PTL

-----------------------------------------------------------------------------
(***************************************************************************)
(* One request at a time (OneAtATime): the properties of the second group, *)
(* from OneAtATimeInvariant.  Again a step is what becomes of the one that *)
(* takes it, of the shared objects, and of the others.                     *)
(***************************************************************************)
\* What OneAtATimeInvariant says of one invocation, given the shared objects.
Fits(l, m, j, c, e, mt) ==
    /\ l.pc # "idle" => m[l.run] = "leased"
    /\ Working(l) => j.run = l.run /\ isActiveClipJob(j)
    /\ l.pc = "putMeta" => e = l.run
    /\ l.pc = "writeMeta" => l.seen.of = l.run /\ l.goal = "ready"
    /\ Working(l) /\ (l.pc \in AfterStore \/ l.goal = "ready") =>
          e = l.run /\ mt.of = l.run
    /\ \/ l.pc \in {"ack", "findCand", "attach"}
       \/ l.pc \in {"checkRun", "writeJob"} /\ l.goal \notin {"running", "retry", "ready"}
       => c # l.run

AllFit == \A w \in Workers : Fits(worker[w], msg, job, ckpt, epub, meta)

NoTwoOnARun ==
    \A v, w \in Workers :
        Busy(v) /\ Busy(w) /\ worker[v].run = worker[w].run => v = w

AckedIsGone == \A r \in Runs : msg[r] = "acked" => ckpt # r

SharedFit == RequestsFit /\ RecordFits /\ AckedIsGone /\ ReadyServesItsOwnRun

\* The invariant is about the invocations one by one, about no two of them
\* having the same run, and about the shared objects.
LEMMA SplitOneAtATime == OneAtATimeInvariant <=> AllFit /\ NoTwoOnARun /\ SharedFit
<1>1. OneInvocationEach <=>
        /\ \A w \in Workers : worker[w].pc # "idle" => msg[worker[w].run] = "leased"
        /\ NoTwoOnARun
  BY DEF OneInvocationEach, NoTwoOnARun, Busy
<1>2. CheckpointGone <=>
        /\ AckedIsGone
        /\ \A w \in Workers :
              \/ worker[w].pc \in {"ack", "findCand", "attach"}
              \/ worker[w].pc \in {"checkRun", "writeJob"}
                    /\ worker[w].goal \notin {"running", "retry", "ready"}
              => ckpt # worker[w].run
  BY DEF CheckpointGone, AckedIsGone
<1>3. QED
  BY <1>1, <1>2 DEF OneAtATimeInvariant, AllFit, Fits, SharedFit, WorksForTheRecord,
                    OwnArticle

\* What holds by AllFit and SharedFit, where the steps are proved.
LEMMA SplitOneAtATimeNext ==
    (AllFit /\ NoTwoOnARun /\ SharedFit)' => OneAtATimeInvariant'
  BY SplitOneAtATime, PTL

\* The fields that a step leaves as they are.
LEMMA GotoFields ==
    ASSUME worker \in [Workers -> Invocation], NEW w \in Workers, NEW step,
           Goto(w, step)
    PROVE  LET l == worker'[w] IN
           /\ l.pc = step /\ l.run = worker[w].run /\ l.goal = worker[w].goal
           /\ l.text = worker[w].text /\ l.seen = worker[w].seen
<1>1. worker[w] \in Invocation
  OBVIOUS
<1>2. worker'[w] = [worker[w] EXCEPT !.pc = step]
  BY DEF Goto, Become
<1>3. QED
  BY <1>1, <1>2 DEF Invocation

\* A new goal, with another step.
LEMMA GoalFields ==
    ASSUME worker \in [Workers -> Invocation], NEW w \in Workers, NEW step, NEW goal,
           Become(w, [worker[w] EXCEPT !.pc = step, !.goal = goal])
    PROVE  LET l == worker'[w] IN
           l.pc = step /\ l.goal = goal /\ l.run = worker[w].run
<1>1. worker[w] \in Invocation
  OBVIOUS
<1>2. worker'[w] = [worker[w] EXCEPT !.pc = step, !.goal = goal]
  BY DEF Become
<1>3. QED
  BY <1>1, <1>2 DEF Invocation

\* An error of the pipeline sends a working invocation to where it gives up.
LEMMA GiveUpFields ==
    ASSUME worker \in [Workers -> Invocation], NEW w \in Workers, NEW error,
           GiveUp(w, error)
    PROVE  LET l == worker'[w] IN
           /\ l.run = worker[w].run
           /\ \/ l.pc \in {"checkRun", "findCkpt"} /\ l.goal = "retry"
              \/ l.pc = "findCkpt" /\ l.goal = "failed"
<1>1. CASE shouldRetryClipError(error, worker[w].attempt)
  BY <1>1, GoalFields DEF GiveUp
<1>2. CASE ~shouldRetryClipError(error, worker[w].attempt)
  BY <1>2, GoalFields DEF GiveUp
<1>3. QED
  BY <1>1, <1>2

\* What a step of w does to the objects that the others look at.
Touches(w) ==
    /\ post' = post
    /\ \A r \in Runs : r # worker[w].run => msg'[r] = msg[r]
    /\ ckpt' \in {ckpt, NoRun, worker[w].run}
    /\ Working(worker[w]) \/ UNCHANGED <<job, epub, meta>>
    /\ \/ job' = job
       \/ /\ job'.run = worker[w].run /\ ~job'.stale
          /\ job'.status # "absent" /\ job'.code # "queue_failed"

\* A step of an invocation keeps to its own run.
LEMMA ConsumerTouches ==
    ASSUME Safe, NEW w \in Workers, ConsumerStep(w)
    PROVE  Touches(w)
<1> DEFINE l == worker[w]
<1>0. l \in Invocation /\ LocalOK(l, stored, deleted, epub)
  BY SplitInvariant DEF LocalsOK
<1> USE DEF Touches, articleVars, consumerOnly, queueVars, histVars
<1>1. CASE WriteJob(w)
  <2>1. job' = JobOf(l.run, job'.status, job'.code) /\ job'.status # "absent"
        /\ job'.code # "queue_failed"
    BY <1>1 DEF WriteJob, RecordFor, JobOf
  <2>2. job'.run = l.run /\ ~job'.stale
    BY <2>1 DEF JobOf
  <2>3. QED
    BY <1>1, <2>1, <2>2 DEF WriteJob, Working
<1>2. CASE SaveCheckpoint(w)
  BY <1>2, <1>0 DEF SaveCheckpoint, LocalOK, WithText
<1>3. CASE PutEpub(w) \/ PutMeta(w) \/ WriteMeta(w)
  BY <1>3 DEF PutEpub, PutMeta, WriteMeta, Working
<1>4. CASE Ack(w) \/ Retry(w)
  <2>1. msg \in [Runs -> MessagePlaces]
    BY DEF Safe, TypeOK
  <2>2. QED
    BY <1>4, <2>1 DEF Ack, Retry, Returned
<1>5. CASE \/ ReadJob(w) \/ CheckRun(w) \/ FindCheckpoint(w) \/ DropCheckpoint(w)
           \/ LoadCheckpoint(w) \/ PurgeCheckpoint(w) \/ Translate(w) \/ SaveCheck(w)
           \/ BuildEpub(w) \/ BuildFails(w) \/ ConfirmRun(w) \/ Classify(w)
           \/ ReadMeta(w) \/ FindCandidate(w) \/ AttachCandidate(w)
  BY <1>5 DEF ReadJob, CheckRun, FindCheckpoint, DropCheckpoint, LoadCheckpoint,
       PurgeCheckpoint, Translate, SaveCheck, BuildEpub, BuildFails, ConfirmRun,
       Classify, ReadMeta, FindCandidate, AttachCandidate
<1>6. QED
  BY <1>1, <1>2, <1>3, <1>4, <1>5 DEF ConsumerStep

\* Whoever has another run is not disturbed: only one of the two is working.
LEMMA OthersFit ==
    ASSUME Safe, OneAtATimeInvariant, NEW w \in Workers, Busy(w), Touches(w),
           NEW v \in Workers, v # w, worker'[v] = worker[v]
    PROVE  Fits(worker'[v], msg', job', ckpt', epub', meta')
<1> DEFINE k == worker[v]
<1>1. /\ Fits(k, msg, job, ckpt, epub, meta)
      /\ Working(worker[w]) => job.run = worker[w].run
      /\ Busy(v) => worker[v].run # worker[w].run
  BY SplitOneAtATime DEF AllFit, Fits, NoTwoOnARun
<1>2. k.pc # "idle" => k.run \in Runs /\ k.run # worker[w].run /\ k.run # NoRun
  BY <1>1, SplitInvariant, NoRunAssumption DEF Busy, LocalsOK, LocalOK
<1>3. CASE k.pc = "idle"
  BY <1>3 DEF Fits, Working, AfterStore
<1>4. CASE k.pc # "idle" /\ Working(k)
  <2>1. UNCHANGED <<job, epub, meta>>
    BY <1>1, <1>2, <1>4 DEF Touches, Fits
  <2>2. QED
    BY <1>1, <1>2, <1>4, <2>1 DEF Touches, Fits
<1>5. CASE k.pc # "idle" /\ ~Working(k)
  <2>1. k.pc \notin {"putMeta", "writeMeta"}
    BY <1>5 DEF Working
  <2>2. QED
    BY <1>1, <1>2, <1>5, <2>1 DEF Touches, Fits
<1>6. QED
  BY <1>3, <1>4, <1>5

\* The requests and the record fit after a step of an invocation.
LEMMA RequestsStayFit ==
    ASSUME Safe, OneAtATimeInvariant, NEW w \in Workers, Busy(w), Touches(w)
    PROVE  RequestsFit' /\ RecordFits'
<1> DEFINE l == worker[w]
<1>1. /\ Working(l) => job.run = l.run /\ isActiveClipJob(job)
      /\ msg[l.run] = "leased" /\ RequestsFit /\ RecordFits
  BY SplitOneAtATime DEF AllFit, Fits, Busy, SharedFit
<1>2. job' = job \/ (Working(l) /\ job'.run = job.run)
  BY <1>1 DEF Touches
<1>3. \A r \in Runs : msg[r] = "unsent" => r # l.run /\ msg'[r] = "unsent"
  BY <1>1 DEF Touches
<1>4. RequestsFit'
  BY <1>1, <1>2, <1>3 DEF Touches, RequestsFit, RequestOpen
<1>5. RecordFits'
  BY <1>1, <1>3 DEF Touches, RecordFits
<1>6. QED
  BY <1>4, <1>5

\* No request at a time when the consumer works: its first look at the record
\* finds its own run, queued or running, or sends it away.
LEMMA ReadFindsItsRun ==
    ASSUME OneAtATimeInvariant, NEW w \in Workers, worker[w].pc = "read",
           worker[w].run \in Runs, shouldProcessClipRun(job, worker[w].run)
    PROVE  job.run = worker[w].run /\ isActiveClipJob(job)
<1>1. msg[worker[w].run] = "leased" /\ RecordFits
  BY SplitOneAtATime DEF AllFit, Fits, SharedFit
<1>2. QED
  BY <1>1 DEF RecordFits, shouldProcessClipRun, isActiveClipJob, isClipJobStale,
              isClipJobInFlight

\* An invocation that takes a step ends it idle, or on the same run and fit.
LEMMA MoverFits ==
    ASSUME Safe, OneAtATimeInvariant, NEW w \in Workers, ConsumerStep(w)
    PROVE  \/ worker'[w] = Idle
           \/ /\ worker'[w].run = worker[w].run
              /\ Fits(worker'[w], msg', job', ckpt', epub', meta')
<1> DEFINE l == worker[w]
           k == worker'[w]
<1>0. /\ worker \in [Workers -> Invocation] /\ l \in Invocation
      /\ LocalOK(l, stored, deleted, epub)
      /\ Fits(l, msg, job, ckpt, epub, meta)
      /\ ReadyServesItsOwnRun
  BY SplitInvariant, SplitOneAtATime DEF LocalsOK, AllFit, SharedFit
<1> HIDE DEF k
<1> USE DEF articleVars, consumerOnly, queueVars, histVars
<1>1. CASE ReadJob(w)
  <2>1. /\ UNCHANGED <<msg, job, ckpt, epub, meta>> /\ l.pc = "read"
        /\ k.run = l.run
        /\ \/ /\ shouldProcessClipRun(job, l.run)
              /\ k.pc = "checkRun" /\ k.goal = "running"
           \/ k.pc = "findCkpt" /\ k.goal = "skip"
    BY <1>0, <1>1, GoalFields DEF ReadJob, k
  <2>2. l.run \in Runs
    BY <1>0, <2>1 DEF LocalOK
  <2>3. k.goal = "running" => job.run = l.run /\ isActiveClipJob(job)
    BY <2>1, <2>2, ReadFindsItsRun
  <2>4. QED
    BY <1>0, <2>1, <2>3 DEF Fits, Working, AfterStore, k
<1>2. CASE CheckRun(w)
  <2>1. UNCHANGED <<msg, job, ckpt, epub, meta>> /\ l.pc = "checkRun"
    BY <1>2 DEF CheckRun
  <2>2. job.run = l.run
    BY <1>0, <2>1 DEF Fits, Working
  <2>3. k.pc = "writeJob" /\ k.run = l.run /\ k.goal = l.goal
    BY <1>0, <1>2, <2>2, GotoFields DEF CheckRun, k
  <2>4. QED
    BY <1>0, <2>1, <2>3 DEF Fits, Working, AfterStore, k
<1>3. CASE WriteJob(w)
  <2>1. /\ UNCHANGED <<msg, ckpt, epub, meta>> /\ l.pc = "writeJob"
        /\ k.run = l.run /\ k.goal = l.goal /\ k.pc = AfterWriting(l.goal)
        /\ job' = RecordFor(l)
    BY <1>0, <1>3, GotoFields DEF WriteJob, k
  <2>2. l.goal \in {"running", "retry"} =>
            job'.run = l.run /\ isActiveClipJob(job')
    BY <2>1 DEF RecordFor, JobOf, isActiveClipJob, isClipJobStale, isClipJobInFlight
  <2>3. CASE l.goal \in {"running", "retry"}
    <3>1. k.pc \in {"loadCkpt", "retry"}
      BY <2>1, <2>3 DEF AfterWriting
    <3>2. QED
      BY <1>0, <2>1, <2>2, <2>3, <3>1 DEF Fits, Working, AfterStore, k
  <2>4. CASE l.goal = "ready"
    BY <1>0, <2>1, <2>4 DEF Fits, Working, AfterStore, AfterWriting, k
  <2>5. CASE l.goal \notin {"running", "retry", "ready"}
    <3>1. k.pc = "ack"
      BY <2>1, <2>5 DEF AfterWriting
    <3>2. QED
      BY <1>0, <2>1, <2>5, <3>1 DEF Fits, Working, AfterStore, k
  <2>6. QED
    BY <2>3, <2>4, <2>5
<1>4. CASE FindCheckpoint(w)
  <2>1. /\ UNCHANGED <<msg, job, ckpt, epub, meta>> /\ l.pc = "findCkpt"
        /\ k.run = l.run /\ k.goal = l.goal
        /\ k.pc = IF ckpt = l.run THEN "dropCkpt" ELSE AfterTheCheckpoint(l.goal)
    BY <1>0, <1>4, GotoFields DEF FindCheckpoint, k
  <2>2. QED
    BY <1>0, <2>1 DEF Fits, Working, AfterStore, AfterTheCheckpoint, k
<1>5. CASE DropCheckpoint(w)
  <2>1. /\ UNCHANGED <<msg, job, epub, meta>> /\ ckpt' = NoRun /\ l.pc = "dropCkpt"
        /\ k.run = l.run /\ k.goal = l.goal /\ k.pc = AfterTheCheckpoint(l.goal)
    BY <1>0, <1>5, GotoFields DEF DropCheckpoint, k
  <2>2. l.run # NoRun
    BY <1>0, <2>1, NoRunAssumption DEF LocalOK
  <2>3. QED
    BY <1>0, <2>1, <2>2 DEF Fits, Working, AfterStore, AfterTheCheckpoint, k
<1>6. CASE LoadCheckpoint(w)
  <2>1. UNCHANGED <<msg, job, ckpt, epub, meta>> /\ l.pc = "loadCkpt"
    BY <1>6 DEF LoadCheckpoint
  <2>2. k.run = l.run /\ k.goal = l.goal /\ k.pc \in {"build", "translate", "purgeCkpt"}
    <3>1. CASE Become(w, [l EXCEPT !.pc = "build", !.text = ckpt])
      <4>1. k = [l EXCEPT !.pc = "build", !.text = ckpt]
        BY <1>0, <3>1 DEF Become, k
      <4>2. QED
        BY <1>0, <4>1 DEF Invocation
    <3>2. CASE ~Become(w, [l EXCEPT !.pc = "build", !.text = ckpt])
      BY <1>0, <1>6, <3>2, GotoFields DEF LoadCheckpoint, k
    <3>3. QED
      BY <3>1, <3>2
  <2>3. QED
    BY <1>0, <2>1, <2>2 DEF Fits, Working, AfterStore, k
<1>7. CASE Translate(w)
  <2>1. UNCHANGED <<msg, job, ckpt, epub, meta>> /\ l.pc = "translate"
    BY <1>7 DEF Translate
  <2>2. CASE Become(w, [l EXCEPT !.pc = "saveCheck", !.text = l.run])
    <3>1. k = [l EXCEPT !.pc = "saveCheck", !.text = l.run]
      BY <1>0, <2>2 DEF Become, k
    <3>2. k.pc = "saveCheck" /\ k.run = l.run /\ k.goal = l.goal
      BY <1>0, <3>1 DEF Invocation
    <3>3. QED
      BY <1>0, <2>1, <3>2 DEF Fits, Working, AfterStore, k
  <2>3. CASE \E error \in FetchErrors : GiveUp(w, error)
    <3>1. /\ k.run = l.run
          /\ \/ k.pc \in {"checkRun", "findCkpt"} /\ k.goal = "retry"
             \/ k.pc = "findCkpt" /\ k.goal = "failed"
      BY <1>0, <2>3, GiveUpFields DEF k
    <3>2. QED
      BY <1>0, <2>1, <3>1 DEF Fits, Working, AfterStore, k
  <2>4. QED
    BY <1>7, <2>2, <2>3 DEF Translate
<1>8. CASE BuildFails(w)
  <2>1. UNCHANGED <<msg, job, ckpt, epub, meta>> /\ l.pc = "build"
    BY <1>8 DEF BuildFails
  <2>2. /\ k.run = l.run
        /\ \/ k.pc \in {"checkRun", "findCkpt"} /\ k.goal = "retry"
           \/ k.pc = "findCkpt" /\ k.goal = "failed"
    BY <1>0, <1>8, GiveUpFields DEF BuildFails, k
  <2>3. QED
    BY <1>0, <2>1, <2>2 DEF Fits, Working, AfterStore, k
<1>9. CASE PurgeCheckpoint(w) \/ SaveCheck(w) \/ SaveCheckpoint(w) \/ BuildEpub(w)
  <2>1. /\ UNCHANGED <<msg, job, epub, meta>>
        /\ l.pc \in {"purgeCkpt", "saveCheck", "saveCkpt", "build"}
        /\ k.run = l.run /\ k.goal = l.goal
        /\ k.pc \in {"translate", "saveCkpt", "build", "confirmPut"}
    BY <1>0, <1>9, GotoFields
       DEF PurgeCheckpoint, SaveCheck, SaveCheckpoint, BuildEpub, k
  <2>2. QED
    BY <1>0, <2>1 DEF Fits, Working, AfterStore, k
<1>10. CASE ConfirmRun(w)
  <2>1. /\ UNCHANGED <<msg, job, ckpt, epub, meta>>
        /\ l.pc \in {"confirmPut", "confirmClassify", "confirmLabel"}
    BY <1>10 DEF ConfirmRun
  <2>2. job.run = l.run
    BY <1>0, <2>1 DEF Fits, Working
  <2>3. /\ k.run = l.run
        /\ \/ l.pc = "confirmPut" /\ k.pc = "putEpub" /\ k.goal = l.goal
           \/ l.pc = "confirmClassify" /\ k.pc = "classify" /\ k.goal = l.goal
           \/ l.pc = "confirmLabel" /\ k.pc = "readMeta" /\ k.goal = l.goal
           \/ l.pc = "confirmLabel" /\ k.pc = "checkRun" /\ k.goal = "ready"
    <3>1. CASE l.pc = "confirmPut" /\ Goto(w, "putEpub")
      BY <1>0, <3>1, GotoFields DEF k
    <3>2. CASE l.pc = "confirmClassify" /\ Goto(w, "classify")
      BY <1>0, <3>2, GotoFields DEF k
    <3>3. CASE l.pc = "confirmLabel" /\ Goto(w, "readMeta")
      BY <1>0, <3>3, GotoFields DEF k
    <3>4. CASE /\ l.pc = "confirmLabel"
               /\ Become(w, [l EXCEPT !.pc = "checkRun", !.goal = "ready"])
      BY <1>0, <3>4, GoalFields DEF k
    <3>5. QED
      BY <1>10, <2>2, <3>1, <3>2, <3>3, <3>4 DEF ConfirmRun
  <2>4. QED
    BY <1>0, <2>1, <2>3 DEF Fits, Working, AfterStore, k
<1>11. CASE PutEpub(w)
  <2>1. /\ UNCHANGED <<msg, job, ckpt, meta>> /\ l.pc = "putEpub"
        /\ k.run = l.run /\ k.goal = l.goal /\ k.pc = "putMeta"
        /\ epub' = l.text
    BY <1>0, <1>11, GotoFields DEF PutEpub, k
  <2>2. l.text = l.run
    BY <1>0, <2>1 DEF LocalOK, WithText
  <2>3. QED
    BY <1>0, <2>1, <2>2 DEF Fits, Working, AfterStore, k
<1>12. CASE PutMeta(w)
  <2>1. /\ UNCHANGED <<msg, job, ckpt, epub>> /\ l.pc = "putMeta"
        /\ k.run = l.run /\ k.goal = l.goal /\ k.pc = "confirmClassify"
        /\ meta'.of = l.text
    BY <1>0, <1>12, GotoFields DEF PutMeta, k
  <2>2. l.text = l.run
    BY <1>0, <2>1 DEF LocalOK, WithText
  <2>3. QED
    BY <1>0, <2>1, <2>2 DEF Fits, Working, AfterStore, k
<1>13. CASE Classify(w)
  <2>1. /\ UNCHANGED <<msg, job, ckpt, epub, meta>> /\ l.pc = "classify"
        /\ k.run = l.run /\ k.goal = l.goal /\ k.pc = "confirmLabel"
    BY <1>0, <1>13, GotoFields DEF Classify, k
  <2>2. QED
    BY <1>0, <2>1 DEF Fits, Working, AfterStore, k
<1>14. CASE ReadMeta(w)
  <2>1. /\ UNCHANGED <<msg, job, ckpt, epub, meta>> /\ l.pc = "readMeta"
        /\ k = [l EXCEPT !.pc = IF meta.of = NoRun THEN "checkRun" ELSE "writeMeta",
                         !.seen = meta, !.goal = "ready"]
    BY <1>0, <1>14 DEF ReadMeta, Become, k
  <2>2. /\ k.run = l.run /\ k.goal = "ready" /\ k.seen = meta
        /\ k.pc \in {"checkRun", "writeMeta"}
    BY <1>0, <2>1 DEF Invocation
  <2>3. QED
    BY <1>0, <2>1, <2>2 DEF Fits, Working, AfterStore, k
<1>15. CASE WriteMeta(w)
  <2>1. /\ UNCHANGED <<msg, job, ckpt, epub>> /\ l.pc = "writeMeta"
        /\ k.run = l.run /\ k.goal = l.goal /\ k.pc = "checkRun"
        /\ meta' = [l.seen EXCEPT !.label = TRUE]
    BY <1>0, <1>15, GotoFields DEF WriteMeta, k
  <2>2. l.seen \in ArticleMeta /\ l.seen.of = l.run
    BY <1>0, <2>1, InvocationFields DEF Fits
  <2>3. meta'.of = l.run
    BY <2>1, <2>2 DEF ArticleMeta
  <2>4. epub = l.run
    BY <1>0, <2>1 DEF Fits, Working, AfterStore
  <2>5. QED
    BY <1>0, <2>1, <2>3, <2>4 DEF Fits, Working, AfterStore, k
<1>16. CASE FindCandidate(w)
  <2>1. UNCHANGED <<msg, job, ckpt, epub, meta>> /\ l.pc = "findCand"
    BY <1>16 DEF FindCandidate
  <2>2. k.run = l.run /\ k.pc \in {"ack", "attach"}
    <3>1. CASE Goto(w, "ack")
      BY <1>0, <3>1, GotoFields DEF k
    <3>2. CASE Become(w, [l EXCEPT !.pc = "attach", !.row = cand])
      <4>1. k = [l EXCEPT !.pc = "attach", !.row = cand]
        BY <1>0, <3>2 DEF Become, k
      <4>2. QED
        BY <1>0, <4>1 DEF Invocation
    <3>3. QED
      BY <1>16, <3>1, <3>2 DEF FindCandidate
  <2>3. QED
    BY <1>0, <2>1, <2>2 DEF Fits, Working, AfterStore, k
<1>17. CASE AttachCandidate(w)
  <2>1. /\ UNCHANGED <<msg, job, ckpt, epub, meta>> /\ l.pc = "attach"
        /\ k.run = l.run /\ k.pc = "ack"
    BY <1>0, <1>17, GotoFields DEF AttachCandidate, k
  <2>2. QED
    BY <1>0, <2>1 DEF Fits, Working, AfterStore, k
<1>18. CASE Ack(w) \/ Retry(w)
  BY <1>0, <1>18 DEF Ack, Retry, Become
<1>19. QED
  BY <1>1, <1>2, <1>3, <1>4, <1>5, <1>6, <1>7, <1>8, <1>9, <1>10, <1>11, <1>12,
     <1>13, <1>14, <1>15, <1>16, <1>17, <1>18 DEF ConsumerStep

\* The two promises about the objects survive a step of an invocation.
LEMMA PromisesStay ==
    ASSUME Safe, OneAtATimeInvariant, NEW w \in Workers, ConsumerStep(w)
    PROVE  AckedIsGone' /\ ReadyServesItsOwnRun'
<1> DEFINE l == worker[w]
<1>0. /\ Fits(l, msg, job, ckpt, epub, meta) /\ Touches(w)
      /\ AckedIsGone /\ ReadyServesItsOwnRun
  BY SplitOneAtATime, ConsumerTouches DEF AllFit, SharedFit
<1> USE DEF articleVars, consumerOnly, queueVars, histVars
<1>1. Busy(w) /\ l.run \in Runs /\ msg[l.run] = "leased"
  <2>1. Busy(w)
    BY DEF Busy, ConsumerStep, ReadJob, CheckRun, WriteJob, FindCheckpoint,
       DropCheckpoint, LoadCheckpoint, PurgeCheckpoint, Translate, SaveCheck,
       SaveCheckpoint, BuildEpub, BuildFails, ConfirmRun, PutEpub, PutMeta, Classify,
       ReadMeta, WriteMeta, FindCandidate, AttachCandidate, Ack, Retry
  <2>2. QED
    BY <1>0, <2>1, SplitInvariant DEF Busy, Fits, LocalsOK, LocalOK
<1>2. msg \in [Runs -> MessagePlaces]
  BY DEF Safe, TypeOK
<1>3. AckedIsGone'
  <2>1. CASE Ack(w)
    BY <1>0, <1>1, <1>2, <2>1 DEF Ack, AckedIsGone, Fits
  <2>2. CASE ~Ack(w)
    <3>1. msg'[l.run] # "acked"
      BY <1>1, <1>2, <2>2 DEF ConsumerStep, ReadJob, CheckRun, WriteJob, FindCheckpoint,
         DropCheckpoint, LoadCheckpoint, PurgeCheckpoint, Translate, SaveCheck,
         SaveCheckpoint, BuildEpub, BuildFails, ConfirmRun, PutEpub, PutMeta, Classify,
         ReadMeta, WriteMeta, FindCandidate, AttachCandidate, Retry, Returned
    <3>2. QED
      BY <1>0, <3>1, NoRunAssumption DEF Touches, AckedIsGone
  <2>3. QED
    BY <2>1, <2>2
<1>4. ReadyServesItsOwnRun'
  <2>1. CASE WriteJob(w)
    <3>1. /\ job' = RecordFor(l) /\ l.pc = "writeJob" /\ UNCHANGED <<epub, meta>>
      BY <2>1 DEF WriteJob
    <3>2. job'.status = "ready" => l.goal = "ready" /\ job'.run = l.run
      BY <3>1 DEF RecordFor, JobOf
    <3>3. QED
      BY <1>0, <3>1, <3>2 DEF Fits, Working, ReadyServesItsOwnRun
  <2>2. CASE ~WriteJob(w)
    <3>1. job' = job
      BY <2>2 DEF ConsumerStep, ReadJob, CheckRun, FindCheckpoint,
         DropCheckpoint, LoadCheckpoint, PurgeCheckpoint, Translate, SaveCheck,
         SaveCheckpoint, BuildEpub, BuildFails, ConfirmRun, PutEpub, PutMeta, Classify,
         ReadMeta, WriteMeta, FindCandidate, AttachCandidate, Ack, Retry
    <3>2. job.status = "ready" => ~Working(l)
      BY <1>0 DEF Fits, isActiveClipJob, isClipJobInFlight
    <3>3. QED
      BY <1>0, <3>1, <3>2 DEF Touches, ReadyServesItsOwnRun
  <2>3. QED
    BY <2>1, <2>2
<1>5. QED
  BY <1>3, <1>4

\* An invocation that ends, or goes on with its run, shares it with nobody.
LEMMA StillNoTwo ==
    ASSUME OneAtATimeInvariant, NEW w \in Workers, Busy(w),
           \A v \in Workers : v # w => worker'[v] = worker[v],
           worker'[w].pc = "idle" \/ worker'[w].run = worker[w].run
    PROVE  NoTwoOnARun'
  BY SplitOneAtATime DEF NoTwoOnARun, Busy

\* Only w moves.
LEMMA TheOthersRest ==
    ASSUME Safe, NEW w \in Workers, NEW l, Become(w, l)
    PROVE  worker'[w] = l /\ \A v \in Workers : v # w => worker'[v] = worker[v]
  BY DEF Safe, TypeOK, Become

\* At rest there is nothing to fit.
LEMMA IdleFits ==
    ASSUME NEW m, NEW j, NEW c, NEW e, NEW mt
    PROVE  Fits(Idle, m, j, c, e, mt)
  BY DEF Fits, Idle, Working, AfterStore

\* A step of a consumer invocation keeps the invariant.
LEMMA ConsumerOneAtATime ==
    ASSUME Safe, OneAtATimeInvariant, NEW w \in Workers, ConsumerStep(w)
    PROVE  OneAtATimeInvariant'
<1>1. Busy(w) /\ Touches(w)
  BY ConsumerTouches DEF Busy, ConsumerStep, ReadJob, CheckRun, WriteJob,
     FindCheckpoint, DropCheckpoint, LoadCheckpoint, PurgeCheckpoint, Translate,
     SaveCheck, SaveCheckpoint, BuildEpub, BuildFails, ConfirmRun, PutEpub, PutMeta,
     Classify, ReadMeta, WriteMeta, FindCandidate, AttachCandidate, Ack, Retry
<1>2. \/ worker'[w] = Idle
      \/ /\ worker'[w].run = worker[w].run
         /\ Fits(worker'[w], msg', job', ckpt', epub', meta')
  BY MoverFits
<1>3. \A v \in Workers : v # w => worker'[v] = worker[v]
  <2>1. PICK l : Become(w, l)
    BY InvocationMoves DEF MovesTo
  <2>2. QED
    BY <2>1, TheOthersRest
<1>4. AllFit'
  BY <1>1, <1>2, <1>3, OthersFit, IdleFits DEF AllFit
<1>5. NoTwoOnARun'
  BY <1>1, <1>2, <1>3, StillNoTwo DEF Idle
<1>6. SharedFit'
  BY <1>1, RequestsStayFit, PromisesStay DEF SharedFit
<1>7. QED
  BY <1>4, <1>5, <1>6, SplitOneAtATimeNext

\* A step of a request: nobody works while a record is replaced, and a message
\* that is not sent yet is in nobody's hands.
LEMMA RequestOneAtATime ==
    ASSUME Safe, OneAtATime, OneAtATimeInvariant, NEW p \in Runs,
           Lookup(p) \/ RequestStep(p) \/ RequestDies(p)
    PROVE  OneAtATimeInvariant'
<1>0. /\ AllFit /\ NoTwoOnARun /\ RequestsFit /\ RecordFits /\ AckedIsGone
      /\ ReadyServesItsOwnRun
  BY SplitOneAtATime DEF SharedFit
<1>1. UNCHANGED <<worker, ckpt, epub, meta>> /\ NoTwoOnARun'
  BY <1>0 DEF Lookup, RequestStep, RequestDies, PutQueued, Send, SendFails,
     PutQueueFailed, PutRecorded, NoTwoOnARun, Busy, articleVars
<1>2. \A v \in Workers : Busy(v) => worker[v].run \in Runs
  BY SplitInvariant DEF LocalsOK, LocalOK, Busy
<1>3. /\ post \in [Runs -> RequestSteps] /\ msg \in [Runs -> MessagePlaces]
      /\ job \in ClipJobRecord
  BY DEF Safe, TypeOK
<1> USE DEF articleVars, queueVars, histVars
<1>4. CASE Lookup(p)
  <2>1. /\ UNCHANGED <<job, msg>> /\ post[p] = "idle"
        /\ \A q \in Runs : ~RequestOpen(q)
        /\ \A q \in Runs : q # p => post'[q] = post[q]
        /\ post'[p] = "done" \/ (post'[p] = "put" /\ ~isActiveClipJob(job))
    BY <1>3, <1>4 DEF Lookup, OneAtATime
  <2>2. RequestsFit'
    BY <1>0, <2>1 DEF RequestsFit, RequestOpen
  <2>3. AllFit' /\ RecordFits' /\ AckedIsGone' /\ ReadyServesItsOwnRun'
    BY <1>0, <1>1, <2>1 DEF AllFit, RecordFits, AckedIsGone, ReadyServesItsOwnRun
  <2>4. QED
    BY <1>1, <2>2, <2>3, SplitOneAtATimeNext DEF SharedFit
<1>5. CASE RequestDies(p)
  <2>1. /\ UNCHANGED <<job, msg>> /\ post'[p] = "done"
        /\ \A q \in Runs : q # p => post'[q] = post[q]
    BY <1>3, <1>5 DEF RequestDies
  <2>2. RequestsFit'
    BY <1>0, <2>1 DEF RequestsFit, RequestOpen
  <2>3. AllFit' /\ RecordFits' /\ AckedIsGone' /\ ReadyServesItsOwnRun'
    BY <1>0, <1>1, <2>1 DEF AllFit, RecordFits, AckedIsGone, ReadyServesItsOwnRun
  <2>4. QED
    BY <1>1, <2>2, <2>3, SplitOneAtATimeNext DEF SharedFit
<1>6. CASE Send(p) \/ SendFails(p)
  <2>1. /\ job' = job /\ post[p] = "send" /\ post'[p] \in {"record", "fail"}
        /\ \A q \in Runs : q # p => post'[q] = post[q] /\ msg'[q] = msg[q]
        /\ post'[p] = "fail" => msg'[p] = msg[p]
        /\ msg'[p] \in {msg[p], "waiting"}
    BY <1>3, <1>6 DEF Send, SendFails, OneAtATime
  <2>2. job.run = p /\ job.status = "queued" /\ msg[p] = "unsent"
    BY <1>0, <2>1 DEF RequestsFit
  <2>3. RequestsFit'
    BY <1>0, <2>1, <2>2 DEF RequestsFit, RequestOpen
  <2>4. RecordFits'
    BY <1>0, <2>1, <2>2 DEF RecordFits
  <2>5. AllFit'
    <3>1. SUFFICES ASSUME NEW v \in Workers
                   PROVE  Fits(worker[v], msg', job, ckpt, epub, meta)
      BY <1>1, <2>1 DEF AllFit
    <3>2. Fits(worker[v], msg, job, ckpt, epub, meta)
      BY <1>0 DEF AllFit
    <3>3. QED
      BY <1>2, <2>1, <2>2, <3>2 DEF Fits, Busy
  <2>6. AckedIsGone' /\ ReadyServesItsOwnRun'
    BY <1>0, <1>1, <2>1, <2>2 DEF AckedIsGone, ReadyServesItsOwnRun
  <2>7. QED
    BY <1>1, <2>3, <2>4, <2>5, <2>6, SplitOneAtATimeNext DEF SharedFit
<1>7. CASE PutQueued(p) \/ PutQueueFailed(p) \/ PutRecorded(p)
  <2>1. /\ UNCHANGED msg
        /\ \A q \in Runs : q # p => post'[q] = post[q]
        /\ \/ /\ post[p] = "put" /\ post'[p] = "send"
              /\ job' = JobOf(p, "queued", "none")
           \/ /\ post[p] = "fail" /\ post'[p] = "done"
              /\ job' = JobOf(p, "failed", "queue_failed")
           \/ /\ post[p] = "record" /\ post'[p] = "done"
              /\ job' = JobOf(p, "queued", "none")
    BY <1>3, <1>7 DEF PutQueued, PutQueueFailed, PutRecorded
  <2>2. /\ job'.run = p /\ ~job'.stale /\ job'.status \in {"queued", "failed"}
        /\ job'.code = "queue_failed" => post[p] = "fail" /\ job'.status = "failed"
        /\ post[p] # "fail" => job'.status = "queued"
    BY <2>1 DEF JobOf
  <2>3. \A q \in Runs : q # p => ~RequestOpen(q)
    BY <1>0, <2>1 DEF RequestsFit, RequestOpen
  <2>4. RequestsFit'
    BY <1>0, <2>1, <2>2, <2>3 DEF RequestsFit, RequestOpen
  <2>5. RecordFits'
    BY <1>0, <2>1, <2>2 DEF RecordFits, RequestsFit
  <2>6. AllFit'
    <3>1. SUFFICES ASSUME NEW v \in Workers
                   PROVE  Fits(worker[v], msg, job', ckpt, epub, meta)
      BY <1>1, <2>1 DEF AllFit
    <3>2. Fits(worker[v], msg, job, ckpt, epub, meta)
      BY <1>0 DEF AllFit
    <3>3. Working(worker[v]) => job'.run = worker[v].run /\ isActiveClipJob(job')
      <4>1. CASE post[p] = "put"
        BY <1>0, <3>2, <4>1 DEF Fits, RequestsFit
      <4>2. CASE post[p] = "fail"
        BY <1>0, <3>2, <4>2 DEF Fits, RequestsFit, Working
      <4>3. CASE post[p] = "record"
        BY <1>0, <2>2, <3>2, <4>3 DEF Fits, RequestsFit, isActiveClipJob,
           isClipJobStale, isClipJobInFlight
      <4>4. QED
        BY <2>1, <4>1, <4>2, <4>3
    <3>4. QED
      BY <3>2, <3>3 DEF Fits
  <2>7. AckedIsGone' /\ ReadyServesItsOwnRun'
    BY <1>0, <1>1, <2>1, <2>2 DEF AckedIsGone, ReadyServesItsOwnRun
  <2>8. QED
    BY <1>1, <2>4, <2>5, <2>6, <2>7, SplitOneAtATimeNext DEF SharedFit
<1>8. QED
  BY <1>4, <1>5, <1>6, <1>7 DEF RequestStep

\* The queue hands a message to one invocation, and has it back after a crash.
LEMMA QueueOneAtATime ==
    ASSUME Safe, OneAtATimeInvariant, NEW w \in Workers, NEW r \in Runs,
           Deliver(w, r) \/ Crash(w)
    PROVE  OneAtATimeInvariant'
<1>0. /\ AllFit /\ NoTwoOnARun /\ RequestsFit /\ RecordFits /\ AckedIsGone
      /\ ReadyServesItsOwnRun
  BY SplitOneAtATime DEF SharedFit
<1>1. /\ UNCHANGED <<job, ckpt, epub, meta, post>>
      /\ \E l : Become(w, l)
  BY DEF Deliver, Crash, Begin, articleVars, queueVars, histVars
<1>2. \A v \in Workers : v # w => worker'[v] = worker[v]
  BY <1>1, TheOthersRest
<1>3. \A v \in Workers : Busy(v) => worker[v].run \in Runs /\ msg[worker[v].run] = "leased"
  BY <1>0, SplitInvariant DEF LocalsOK, LocalOK, Busy, AllFit, Fits
<1>4. PICK run \in Runs :
        /\ \A q \in Runs : q # run => msg'[q] = msg[q]
        /\ \/ /\ msg[run] = "waiting" /\ msg'[run] = "leased" /\ ~Busy(w)
              /\ worker'[w].pc = "read" /\ worker'[w].run = run
              /\ worker'[w].goal = "none"
           \/ /\ msg[run] = "leased" /\ msg'[run] \in {"waiting", "dropped"}
              /\ worker'[w] = Idle /\ Busy(w) /\ worker[w].run = run
  <2>1. msg \in [Runs -> MessagePlaces]
    BY DEF Safe, TypeOK
  <2>2. CASE Deliver(w, r)
    <3>1. worker'[w] = [Idle EXCEPT !.pc = "read", !.run = r, !.attempt = tries[r] + 1]
      BY <2>2, TheOthersRest DEF Deliver, Begin
    <3>2. worker'[w].pc = "read" /\ worker'[w].run = r /\ worker'[w].goal = "none"
      BY <3>1 DEF Idle
    <3>3. QED
      BY <2>1, <2>2, <3>2 DEF Deliver
  <2>3. CASE Crash(w)
    <3>1. worker'[w] = Idle
      BY <2>3, TheOthersRest DEF Crash
    <3>2. QED
      BY <1>3, <2>1, <2>3, <3>1 DEF Crash, Returned
  <2>4. QED
    BY <2>2, <2>3
<1>5. AllFit'
  <2>1. ASSUME NEW v \in Workers
        PROVE  Fits(worker'[v], msg', job, ckpt, epub, meta)
    <3>1. CASE v = w
      BY <1>4, <3>1, IdleFits DEF Fits, Working, AfterStore
    <3>2. CASE v # w
      <4>1. Fits(worker[v], msg, job, ckpt, epub, meta) /\ worker'[v] = worker[v]
        BY <1>0, <1>2, <3>2 DEF AllFit
      <4>2. Busy(v) => worker[v].run # run
        BY <1>0, <1>3, <1>4, <3>2 DEF NoTwoOnARun
      <4>3. QED
        BY <1>3, <1>4, <4>1, <4>2 DEF Fits, Busy
    <3>3. QED
      BY <3>1, <3>2
  <2>2. QED
    BY <1>1, <2>1 DEF AllFit
<1>6. NoTwoOnARun'
  <2>1. CASE worker'[w] = Idle /\ Busy(w)
    BY <1>2, <2>1, StillNoTwo DEF Idle
  <2>2. CASE worker'[w].run = run /\ msg[run] = "waiting"
    BY <1>0, <1>2, <1>3, <2>2 DEF NoTwoOnARun, Busy
  <2>3. QED
    BY <1>4, <2>1, <2>2
<1>7. RequestsFit'
  BY <1>0, <1>1, <1>4 DEF RequestsFit, RequestOpen
<1>8. RecordFits' /\ AckedIsGone' /\ ReadyServesItsOwnRun'
  BY <1>0, <1>1, <1>4 DEF RecordFits, AckedIsGone, ReadyServesItsOwnRun
<1>9. QED
  BY <1>5, <1>6, <1>7, <1>8, SplitOneAtATimeNext DEF SharedFit

\* Nothing has been requested yet.
LEMMA InitOneAtATime == Init => OneAtATimeInvariant
<1> SUFFICES ASSUME Init PROVE OneAtATimeInvariant
  OBVIOUS
<1>1. AllFit
  BY IdleFits DEF Init, AllFit
<1>2. NoTwoOnARun
  BY DEF Init, NoTwoOnARun, Busy, Idle
<1>3. SharedFit
  BY NoRunAssumption DEF Init, SharedFit, RequestsFit, RequestOpen, RecordFits,
     AckedIsGone, ReadyServesItsOwnRun, NoJob
<1>4. QED
  BY <1>1, <1>2, <1>3, SplitOneAtATime

\* Every step keeps the invariant: what is left is excluded or does nothing.
LEMMA NextOneAtATime ==
    OneAtATime /\ Safe /\ OneAtATimeInvariant /\ [Next]_vars => OneAtATimeInvariant'
<1> SUFFICES ASSUME OneAtATime, Safe, OneAtATimeInvariant, [Next]_vars
             PROVE  OneAtATimeInvariant'
  OBVIOUS
<1>1. ASSUME NEW p \in Runs, Lookup(p) \/ RequestStep(p) \/ RequestDies(p)
      PROVE  OneAtATimeInvariant'
  BY <1>1, RequestOneAtATime
<1>2. ASSUME NEW w \in Workers, NEW r \in Runs, Deliver(w, r)
      PROVE  OneAtATimeInvariant'
  BY <1>2, QueueOneAtATime
<1>3. ASSUME NEW w \in Workers, Crash(w)
      PROVE  OneAtATimeInvariant'
  <2>1. worker[w].run \in Runs
    BY <1>3, SplitInvariant DEF Crash, Busy, LocalsOK, LocalOK
  <2>2. QED
    BY <1>3, <2>1, QueueOneAtATime
<1>4. ASSUME NEW w \in Workers, ConsumerStep(w)
      PROVE  OneAtATimeInvariant'
  BY <1>4, ConsumerOneAtATime
<1>5. CASE UNCHANGED vars
  BY <1>5, SplitOneAtATime, SplitOneAtATimeNext
     DEF vars, AllFit, NoTwoOnARun, Busy, SharedFit, RequestsFit, RequestOpen,
         RecordFits, AckedIsGone, ReadyServesItsOwnRun
<1>6. /\ ~GoStale /\ ~DeleteArticle
      /\ \A w \in Workers : ~Throw(w) /\ \A r \in Runs : ~DeliverTwice(w, r)
  BY DEF OneAtATime, GoStale, DeleteArticle, Throw, DeliverTwice
<1>7. QED
  BY <1>1, <1>2, <1>3, <1>4, <1>5, <1>6 DEF Next, SystemStep, Environment

\* The invariant of the second group, for any number of runs, invocations and
\* retries, wherever an invocation or a request is cut off.
THEOREM OneAtATimeHolds ==
    ASSUME OneAtATime
    PROVE  Spec => []OneAtATimeInvariant
<1>1. Init => OneAtATimeInvariant
  BY InitOneAtATime
<1>2. Safe /\ OneAtATimeInvariant /\ [Next]_vars => OneAtATimeInvariant'
  BY NextOneAtATime
<1>3. QED
  BY <1>1, <1>2, Safety, PTL DEF Spec

\* While requests come one at a time, a job that is ready serves the EPUB and
\* the metadata of its own run, never those of an earlier one, however often
\* the consumer was cut off on the way (runClipQueueMessage).
THEOREM ReadyIsItsOwn ==
    ASSUME OneAtATime
    PROVE  Spec => []ReadyServesItsOwnRun
<1>1. OneAtATimeInvariant => ReadyServesItsOwnRun
  BY DEF OneAtATimeInvariant
<1>2. QED
  BY <1>1, OneAtATimeHolds, PTL

\* While requests come one at a time, no run that was acknowledged leaves its
\* checkpoint behind, whichever way it ended (deleteCheckpointForRun).
THEOREM NoCheckpointStays ==
    ASSUME OneAtATime
    PROVE  Spec => []CheckpointIsTemporary
<1>1. OneAtATimeInvariant => CheckpointIsTemporary
  BY DEF OneAtATimeInvariant, CheckpointGone, CheckpointIsTemporary
<1>2. QED
  BY <1>1, OneAtATimeHolds, PTL

\* The two ways in which the record is written, seen from OneAtATimeInvariant.
LEMMA RecordWrites ==
    ASSUME OneAtATime, Safe, OneAtATimeInvariant, [Next]_vars
    PROVE  \/ job' = job
           \/ /\ job'.status # "running"
              /\ job'.run = job.run \/ ~isActiveClipJob(job)
           \/ job'.run = job.run /\ isActiveClipJob(job)
<1>1. AllFit /\ RequestsFit
  BY SplitOneAtATime DEF SharedFit
<1>2. ASSUME NEW p \in Runs, Lookup(p) \/ RequestStep(p) \/ RequestDies(p), job' # job
      PROVE  /\ post[p] \in {"put", "fail", "record"}
             /\ job'.run = p /\ job'.status # "running"
  BY <1>2 DEF Lookup, RequestStep, RequestDies, PutQueued, Send, SendFails,
     PutQueueFailed, PutRecorded, JobOf
<1>3. ASSUME NEW p \in Runs, post[p] \in {"put", "fail", "record"}
      PROVE  job.run = p \/ ~isActiveClipJob(job)
  BY <1>1, <1>3 DEF RequestsFit
<1>4. ASSUME NEW w \in Workers, ConsumerStep(w), job' # job
      PROVE  job'.run = job.run /\ isActiveClipJob(job)
  <2>1. Touches(w) /\ Fits(worker[w], msg, job, ckpt, epub, meta)
    BY <1>1, <1>4, ConsumerTouches DEF AllFit
  <2>2. QED
    BY <1>4, <2>1 DEF Touches, Fits
<1>5. ASSUME NEW w \in Workers, Crash(w) \/ (\E r \in Runs : Deliver(w, r))
      PROVE  job' = job
  BY <1>5 DEF Crash, Deliver
<1>6. /\ ~GoStale /\ ~DeleteArticle
      /\ \A w \in Workers : ~Throw(w) /\ \A r \in Runs : ~DeliverTwice(w, r)
  BY DEF OneAtATime, GoStale, DeleteArticle, Throw, DeliverTwice
<1>7. CASE UNCHANGED vars
  BY <1>7 DEF vars
<1>8. QED
  BY <1>2, <1>3, <1>4, <1>5, <1>6, <1>7 DEF Next, SystemStep, Environment

\* A request that comes while the record is queued or running leaves it to the
\* run it has (enqueueClipJob): the record changes hands only when it is free.
THEOREM NoRunIsOverwritten ==
    ASSUME OneAtATime
    PROVE  Spec => NoFreshOverwrite
<1>1. Safe /\ OneAtATimeInvariant /\ [Next]_vars =>
          [job'.run # job.run => ~isActiveClipJob(job)]_job
  BY RecordWrites
<1>2. QED
  BY <1>1, Safety, OneAtATimeHolds, PTL DEF Spec, NoFreshOverwrite

\* No late invocation takes a run that is ready back to running: README, an old
\* message does not put the state back (shouldProcessClipRun).
THEOREM ReadyStaysReady ==
    ASSUME OneAtATime
    PROVE  Spec => ReadyIsNotReopened
<1>1. Safe /\ OneAtATimeInvariant /\ [Next]_vars =>
          [job.status = "ready" /\ job'.run = job.run => job'.status # "running"]_job
  <2>1. job.status = "ready" => ~isActiveClipJob(job)
    BY DEF isActiveClipJob, isClipJobInFlight
  <2>2. QED
    BY <2>1, RecordWrites
<1>2. QED
  BY <1>1, Safety, OneAtATimeHolds, PTL DEF Spec, ReadyIsNotReopened

-----------------------------------------------------------------------------
(***************************************************************************)
(* One invocation and one request at a time, under every fault: a run that *)
(* retries after a failed EPUB build does not translate again, because its *)
(* checkpoint is there for as long as the record is its own.               *)
(***************************************************************************)

\* With one invocation at most, each invocation is Sole.
LEMMA SoleIs ==
    ASSUME OneWorker, NEW w \in Workers
    PROVE  Sole = worker[w] /\ Sole' = worker'[w]
<1>1. (CHOOSE v \in Workers : TRUE) \in Workers
  OBVIOUS
<1>2. (CHOOSE v \in Workers : TRUE) = w
  BY <1>1 DEF OneWorker
<1>3. Workers # {}
  OBVIOUS
<1>4. QED
  BY <1>2, <1>3 DEF Sole

\* Nobody moves, or there is nobody.
LEMMA SoleStays ==
    ASSUME worker' = worker
    PROVE  Sole' = Sole
  BY DEF Sole

\* The types of what RebuildInvariant speaks of.
LEMMA SoleTyped ==
    ASSUME Safe
    PROVE  /\ Sole \in Invocation
           /\ LocalOK(Sole, stored, deleted, epub)
           /\ msg \in [Runs -> MessagePlaces] /\ tries \in [Runs -> Nat]
           /\ post \in [Runs -> RequestSteps] /\ job \in ClipJobRecord
           /\ rebuild \subseteq Runs
<1>1. CASE Workers = {}
  BY <1>1, IdleOK DEF Sole, Safe, TypeOK
<1>2. CASE Workers # {}
  <2>1. (CHOOSE v \in Workers : TRUE) \in Workers
    BY <1>2
  <2>2. /\ worker[CHOOSE v \in Workers : TRUE] \in Invocation
        /\ LocalOK(worker[CHOOSE v \in Workers : TRUE], stored, deleted, epub)
    BY <2>1, SplitInvariant DEF LocalsOK
  <2>3. QED
    BY <1>2, <2>2 DEF Sole, Safe, TypeOK
<1>3. QED
  BY <1>1, <1>2

\* The fields of Sole after a step that changes its program counter, ...
LEMMA SoleGoes ==
    ASSUME Safe, OneWorker, NEW w \in Workers, NEW step, Goto(w, step)
    PROVE  /\ Sole'.pc = step /\ Sole'.run = Sole.run
           /\ Sole'.goal = Sole.goal /\ Sole'.attempt = Sole.attempt
<1>1. worker[w] \in Invocation /\ worker'[w] = [worker[w] EXCEPT !.pc = step]
  BY DEF Safe, TypeOK, Goto, Become
<1>2. QED
  BY <1>1, SoleIs DEF Invocation

\* ... one that changes its goal as well, ...
LEMMA SoleTurns ==
    ASSUME Safe, OneWorker, NEW w \in Workers, NEW step, NEW goal,
           Become(w, [worker[w] EXCEPT !.pc = step, !.goal = goal])
    PROVE  /\ Sole'.pc = step /\ Sole'.run = Sole.run
           /\ Sole'.goal = goal /\ Sole'.attempt = Sole.attempt
<1>1. /\ worker[w] \in Invocation
      /\ worker'[w] = [worker[w] EXCEPT !.pc = step, !.goal = goal]
  BY DEF Safe, TypeOK, Become
<1>2. QED
  BY <1>1, SoleIs DEF Invocation

\* ... and one that gives up.
LEMMA SoleGivesUp ==
    ASSUME Safe, OneWorker, NEW w \in Workers, NEW error, GiveUp(w, error)
    PROVE  /\ Sole'.run = Sole.run /\ Sole'.attempt = Sole.attempt
           /\ \/ /\ shouldRetryClipError(error, Sole.attempt) /\ Sole'.goal = "retry"
                 /\ Sole'.pc = IF error = "epub_failed" THEN "checkRun" ELSE "findCkpt"
              \/ /\ ~shouldRetryClipError(error, Sole.attempt)
                 /\ Sole'.pc = "findCkpt" /\ Sole'.goal = "failed"
<1>1. Sole = worker[w]
  BY SoleIs
<1>2. CASE shouldRetryClipError(error, worker[w].attempt)
  BY <1>1, <1>2, SoleTurns DEF GiveUp
<1>3. CASE ~shouldRetryClipError(error, worker[w].attempt)
  BY <1>1, <1>3, SoleTurns DEF GiveUp
<1>4. QED
  BY <1>2, <1>3

\* A step of the invocation that leaves the objects alone.
AloneMoves ==
    /\ UNCHANGED <<job, ckpt, msg, tries, post, rebuild>>
    /\ Sole.pc # "idle" /\ Sole'.pc # "idle"
    /\ Sole'.run = Sole.run /\ Sole'.attempt = Sole.attempt

\* It leaves the queue as it is, and a run that gives up does not come back.
LEMMA AloneKeeps ==
    ASSUME RebuildInvariant, AloneMoves,
           Sole.run \in rebuild /\ Sole.goal = "failed" => Sole'.goal = "failed"
    PROVE  QueueFits' /\ CheckpointKept'
<1>1. QueueFits'
  BY DEF RebuildInvariant, AloneMoves, QueueFits, RequestOpen
<1>2. CheckpointKept'
  BY DEF RebuildInvariant, AloneMoves, CheckpointKept, GivingUp
<1>3. QED
  BY <1>1, <1>2

\* The first look at the record.
LEMMA RebuildReads ==
    ASSUME Safe, OneWorker, RebuildInvariant, NEW w \in Workers, ReadJob(w)
    PROVE  RebuildInvariant'
<1>1. /\ AloneMoves /\ Sole.pc = "read" /\ Sole.goal = "none"
      /\ \/ Sole'.pc = "checkRun" /\ Sole'.goal = "running"
         \/ /\ Sole'.pc = "findCkpt" /\ Sole'.goal = "skip"
            /\ ~shouldProcessClipRun(job, Sole.run)
  <2>1. /\ Sole = worker[w] /\ Sole.pc = "read" /\ Sole.goal = "none"
        /\ UNCHANGED <<job, ckpt, msg, tries, post, rebuild>>
    BY SoleIs DEF ReadJob, RebuildInvariant, GoalFits, consumerOnly, queueVars, histVars
  <2>2. CASE shouldProcessClipRun(job, Sole.run)
    <3>1. Become(w, [worker[w] EXCEPT !.pc = "checkRun", !.goal = "running"])
      BY <2>1, <2>2 DEF ReadJob
    <3>2. /\ Sole'.pc = "checkRun" /\ Sole'.run = Sole.run
          /\ Sole'.goal = "running" /\ Sole'.attempt = Sole.attempt
      BY <3>1, SoleTurns
    <3>3. QED
      BY <2>1, <3>2 DEF AloneMoves
  <2>3. CASE ~shouldProcessClipRun(job, Sole.run)
    <3>1. Become(w, [worker[w] EXCEPT !.pc = "findCkpt", !.goal = "skip"])
      BY <2>1, <2>3 DEF ReadJob
    <3>2. /\ Sole'.pc = "findCkpt" /\ Sole'.run = Sole.run
          /\ Sole'.goal = "skip" /\ Sole'.attempt = Sole.attempt
      BY <3>1, SoleTurns
    <3>3. QED
      BY <2>1, <2>3, <3>2 DEF AloneMoves
  <2>4. QED
    BY <2>2, <2>3
<1>2. QueueFits' /\ CheckpointKept'
  BY <1>1, AloneKeeps
<1>3. RequestsOwn' /\ GoalFits'
  BY <1>1 DEF RebuildInvariant, AloneMoves, RequestsOwn, GoalFits, LetIn, Translating,
     RequestOpen, TrySteps
<1>4. Sole.run \in rebuild /\ Sole'.goal = "skip" => job.run # Sole.run
  BY <1>1, SoleTyped DEF RebuildInvariant, CheckpointKept, GivingUp, QueueFits
<1>5. StepFits'
  BY <1>1, <1>4 DEF RebuildInvariant, AloneMoves, StepFits, Translating
<1>6. QED
  BY <1>2, <1>3, <1>5 DEF RebuildInvariant

\* The read of putJobIfCurrentRun finds the run's own record, or ends it.
LEMMA RebuildChecks ==
    ASSUME Safe, OneWorker, RebuildInvariant, NEW w \in Workers, CheckRun(w)
    PROVE  RebuildInvariant'
<1>0. Sole.pc = "checkRun" /\ msg[Sole.run] = "leased" /\ Sole.run \in Runs
  BY SoleIs, SoleTyped DEF CheckRun, RebuildInvariant, QueueFits, LocalOK
<1>1. /\ AloneMoves /\ Sole'.goal = Sole.goal
      /\ \/ Sole'.pc = "writeJob" /\ job.run = Sole.run
         \/ Sole'.pc = "retry" /\ Sole.goal = "retry"
         \/ Sole'.pc = "ack" /\ Sole.goal # "retry"
  <2>1. job.run # NoRun
    BY <1>0 DEF RebuildInvariant, QueueFits
  <2>2. QED
    BY <1>0, <2>1, SoleIs, SoleGoes
       DEF CheckRun, AfterLosingTheJob, AloneMoves, consumerOnly, queueVars, histVars, articleVars
<1>2. QueueFits' /\ CheckpointKept'
  BY <1>1, AloneKeeps
<1>3. RequestsOwn' /\ GoalFits'
  BY <1>0, <1>1 DEF RebuildInvariant, AloneMoves, RequestsOwn, GoalFits, LetIn, Translating,
     RequestOpen, TrySteps
<1>4. Sole.run \in rebuild /\ Sole'.pc = "writeJob" /\ Sole.goal \in {"running", "retry"} =>
          ckpt = Sole.run
  BY <1>0, <1>1 DEF RebuildInvariant, CheckpointKept, GivingUp
<1>5. StepFits'
  BY <1>0, <1>1, <1>4 DEF RebuildInvariant, AloneMoves, StepFits, Translating
<1>6. QED
  BY <1>2, <1>3, <1>5 DEF RebuildInvariant

\* The put of putJobIfCurrentRun.
LEMMA RebuildWrites ==
    ASSUME Safe, OneWorker, RebuildInvariant, NEW w \in Workers, WriteJob(w)
    PROVE  RebuildInvariant'
<1>0. Sole.pc = "writeJob" /\ msg[Sole.run] = "leased" /\ Sole.run \in Runs
      /\ Sole.goal \in {"running", "ready", "retry", "failed"}
      /\ Sole = worker[w]
  BY SoleIs, SoleTyped DEF WriteJob, RebuildInvariant, QueueFits, LocalOK, GoalFits
<1>1. /\ UNCHANGED <<ckpt, msg, tries, post>>
      /\ Sole'.run = Sole.run /\ Sole'.goal = Sole.goal /\ Sole'.attempt = Sole.attempt
      /\ Sole'.pc = AfterWriting(Sole.goal)
      /\ job' = RecordFor(Sole)
      /\ rebuild' = IF Sole.goal = "ready" THEN rebuild \ {Sole.run} ELSE rebuild
  BY <1>0, SoleGoes DEF WriteJob, consumerOnly, queueVars
<1>2. /\ job'.run = Sole.run /\ job'.status # "absent"
      /\ Sole.goal \in {"running", "retry"} => job'.status = "running"
  BY <1>0, <1>1 DEF RecordFor, JobOf
<1>3. QueueFits'
  BY <1>0, <1>1, <1>2, NoRunAssumption
     DEF RebuildInvariant, QueueFits, RequestOpen
<1>4. RequestsOwn' /\ GoalFits'
  BY <1>0, <1>1, <1>2 DEF RebuildInvariant, RequestsOwn, GoalFits, LetIn, Translating,
     RequestOpen, TrySteps, AfterWriting
<1>5. CheckpointKept'
  <2>1. SUFFICES ASSUME Sole.run \in rebuild, Sole.goal # "ready"
                 PROVE  \/ Sole.goal = "failed" /\ Sole.attempt > MaxRetries
                        \/ ckpt = Sole.run /\ shouldProcessClipRun(job', Sole.run)
    BY <1>1, <1>2 DEF CheckpointKept, GivingUp
  <2>2. QED
    BY <1>0, <1>2, <2>1
       DEF RebuildInvariant, StepFits, shouldProcessClipRun, isClipJobInFlight
<1>6. StepFits'
  BY <1>0, <1>1, <1>2
     DEF RebuildInvariant, StepFits, Translating, AfterWriting, shouldProcessClipRun,
         isClipJobInFlight
<1>7. QED
  BY <1>3, <1>4, <1>5, <1>6 DEF RebuildInvariant

\* deleteCheckpointForRun: who deletes a checkpoint has done with it.
LEMMA RebuildTidies ==
    ASSUME Safe, OneWorker, RebuildInvariant, NEW w \in Workers,
           FindCheckpoint(w) \/ DropCheckpoint(w)
    PROVE  RebuildInvariant'
<1>0. /\ Sole.pc \in {"findCkpt", "dropCkpt"} /\ msg[Sole.run] = "leased"
      /\ Sole.run \in Runs /\ Sole = worker[w]
      /\ Sole.goal \in {"skip", "ready", "retry", "failed"}
  BY SoleIs, SoleTyped
     DEF FindCheckpoint, DropCheckpoint, RebuildInvariant, QueueFits, LocalOK, GoalFits
<1>1. /\ UNCHANGED <<job, msg, tries, post, rebuild>>
      /\ Sole'.run = Sole.run /\ Sole'.goal = Sole.goal /\ Sole'.attempt = Sole.attempt
      /\ \/ Sole'.pc = "dropCkpt" /\ ckpt = Sole.run /\ ckpt' = ckpt
         \/ /\ Sole'.pc = AfterTheCheckpoint(Sole.goal)
            /\ ckpt' = ckpt \/ (Sole.pc = "dropCkpt" /\ ckpt' = NoRun)
  BY <1>0, SoleGoes
     DEF FindCheckpoint, DropCheckpoint, consumerOnly, queueVars, histVars
<1>2. /\ Sole'.pc \in {"dropCkpt", "ack", "findCand", "checkRun"}
      /\ Sole'.pc = "checkRun" => Sole.goal \in {"retry", "failed"}
      /\ Sole'.pc = "dropCkpt" => ckpt' = Sole.run
  BY <1>0, <1>1 DEF AfterTheCheckpoint
<1>3. QueueFits'
  BY <1>0, <1>1, <1>2 DEF RebuildInvariant, QueueFits, RequestOpen
<1>4. RequestsOwn' /\ GoalFits'
  BY <1>0, <1>1, <1>2 DEF RebuildInvariant, RequestsOwn, GoalFits, LetIn, Translating,
     RequestOpen, TrySteps
<1>5. CheckpointKept'
  <2>1. SUFFICES ASSUME NEW r \in rebuild, job.run = r, ~GivingUp(r), ckpt' # ckpt
                 PROVE  FALSE
    BY <1>1 DEF RebuildInvariant, CheckpointKept, GivingUp
  <2>2. ckpt = r /\ ckpt = Sole.run /\ Sole.pc = "dropCkpt"
    BY <1>1, <2>1 DEF RebuildInvariant, CheckpointKept, StepFits
  <2>3. QED
    BY <2>1, <2>2 DEF RebuildInvariant, StepFits, GivingUp
<1>6. StepFits'
  BY <1>0, <1>1, <1>2 DEF RebuildInvariant, StepFits, Translating
<1>7. QED
  BY <1>3, <1>4, <1>5, <1>6 DEF RebuildInvariant

\* checkpointForRun: a run that asked for its checkpoint finds it, and one that
\* discards another's does so while the record is its own.
LEMMA RebuildLoads ==
    ASSUME Safe, OneWorker, RebuildInvariant, NEW w \in Workers,
           LoadCheckpoint(w) \/ PurgeCheckpoint(w)
    PROVE  RebuildInvariant'
<1>0. /\ Sole.pc \in {"loadCkpt", "purgeCkpt"} /\ msg[Sole.run] = "leased"
      /\ Sole.run \in Runs /\ Sole = worker[w] /\ Sole \in Invocation
      /\ Sole.goal \in {"none", "running", "ready"}
  BY SoleIs, SoleTyped
     DEF LoadCheckpoint, PurgeCheckpoint, RebuildInvariant, QueueFits, LocalOK, GoalFits,
         TrySteps
<1>1. /\ UNCHANGED <<job, msg, tries, post, rebuild>>
      /\ Sole'.run = Sole.run /\ Sole'.goal = Sole.goal /\ Sole'.attempt = Sole.attempt
      /\ \/ Sole'.pc = "build" /\ ckpt = Sole.run /\ ckpt' = ckpt
         \/ Sole'.pc = "translate" /\ ckpt # Sole.run /\ Sole.pc = "loadCkpt" /\ ckpt' = ckpt
         \/ Sole'.pc = "purgeCkpt" /\ ckpt # Sole.run /\ Sole.pc = "loadCkpt" /\ ckpt' = ckpt
         \/ Sole'.pc = "translate" /\ Sole.pc = "purgeCkpt" /\ ckpt' = NoRun
  <2>1. CASE LoadCheckpoint(w) /\ ckpt = Sole.run
    <3>1. worker'[w] = [worker[w] EXCEPT !.pc = "build", !.text = ckpt]
      BY <1>0, <2>1 DEF LoadCheckpoint, Become, Safe, TypeOK
    <3>2. Sole' = [Sole EXCEPT !.pc = "build", !.text = ckpt]
      BY <1>0, <3>1, SoleIs
    <3>3. QED
      BY <1>0, <2>1, <3>2
         DEF LoadCheckpoint, consumerOnly, queueVars, histVars, Invocation
  <2>2. CASE LoadCheckpoint(w) /\ ckpt # Sole.run
    BY <1>0, <2>2, SoleGoes DEF LoadCheckpoint, consumerOnly, queueVars, histVars
  <2>3. CASE PurgeCheckpoint(w)
    BY <1>0, <2>3, SoleGoes DEF PurgeCheckpoint, consumerOnly, queueVars, histVars
  <2>4. QED
    BY <2>1, <2>2, <2>3
<1>2. Sole'.pc \in {"build", "translate", "purgeCkpt"}
  BY <1>1
<1>3. QueueFits'
  BY <1>0, <1>1, <1>2 DEF RebuildInvariant, QueueFits, RequestOpen
<1>4. RequestsOwn' /\ GoalFits'
  BY <1>0, <1>1, <1>2 DEF RebuildInvariant, RequestsOwn, GoalFits, LetIn, Translating,
     RequestOpen, TrySteps
<1>5. CheckpointKept'
  <2>1. SUFFICES ASSUME NEW r \in rebuild, job.run = r, Sole.pc = "purgeCkpt"
                 PROVE  FALSE
    BY <1>0, <1>1 DEF RebuildInvariant, CheckpointKept, GivingUp
  <2>2. QED
    BY <2>1 DEF RebuildInvariant, StepFits, Translating
<1>6. StepFits'
  <2>1. Sole.run \in rebuild => Sole'.pc = "build"
    BY <1>0, <1>1 DEF RebuildInvariant, StepFits
  <2>2. QED
    BY <1>0, <1>1, <1>2, <2>1 DEF RebuildInvariant, StepFits, Translating
<1>7. QED
  BY <1>3, <1>4, <1>5, <1>6 DEF RebuildInvariant

\* The translation and the check of its hook: nobody translates who asked.
LEMMA RebuildTranslates ==
    ASSUME Safe, OneWorker, RebuildInvariant, NEW w \in Workers,
           Translate(w) \/ SaveCheck(w)
    PROVE  RebuildInvariant'
<1>0. /\ Sole.pc \in {"translate", "saveCheck"} /\ msg[Sole.run] = "leased"
      /\ Sole.run \in Runs /\ Sole = worker[w] /\ Sole \in Invocation
      /\ Sole.goal \in {"none", "running", "ready"}
      /\ Sole.pc = "translate" => Sole.run \notin rebuild
  BY SoleIs, SoleTyped
     DEF Translate, SaveCheck, RebuildInvariant, QueueFits, LocalOK, GoalFits, TrySteps,
         StepFits
<1>1. /\ AloneMoves
      /\ \/ Sole.pc = "translate" /\ Sole'.pc = "saveCheck" /\ Sole'.goal = Sole.goal
         \/ /\ Sole.pc = "translate" /\ Sole'.pc = "findCkpt"
            /\ Sole'.goal \in {"retry", "failed"}
         \/ Sole.pc = "saveCheck" /\ Sole'.pc = "saveCkpt" /\ Sole'.goal = Sole.goal
         \/ /\ Sole.pc = "saveCheck" /\ Sole'.pc = "build" /\ Sole'.goal = Sole.goal
            /\ job.run # Sole.run
  <2> USE DEF AloneMoves, consumerOnly, queueVars, histVars
  <2>1. CASE SaveCheck(w)
    BY <1>0, <2>1, SoleGoes DEF SaveCheck
  <2>2. CASE Translate(w) /\ Become(w, [worker[w] EXCEPT !.pc = "saveCheck",
                                                         !.text = worker[w].run])
    <3>1. worker'[w] = [worker[w] EXCEPT !.pc = "saveCheck", !.text = worker[w].run]
      BY <2>2 DEF Become, Safe, TypeOK
    <3>2. Sole' = [Sole EXCEPT !.pc = "saveCheck", !.text = Sole.run]
      BY <1>0, <3>1, SoleIs
    <3>3. QED
      BY <1>0, <2>2, <3>2 DEF Translate, Invocation
  <2>3. CASE Translate(w) /\ \E error \in FetchErrors : GiveUp(w, error)
    <3>1. PICK error \in FetchErrors : GiveUp(w, error)
      BY <2>3
    <3>2. error # "epub_failed"
      BY DEF FetchErrors
    <3>3. QED
      BY <1>0, <2>3, <3>1, <3>2, SoleGivesUp DEF Translate
  <2>4. QED
    BY <2>1, <2>2, <2>3 DEF Translate
<1>2. QueueFits' /\ CheckpointKept'
  BY <1>0, <1>1, AloneKeeps
<1>3. RequestsOwn' /\ GoalFits'
  BY <1>0, <1>1 DEF RebuildInvariant, AloneMoves, RequestsOwn, GoalFits, LetIn, Translating,
     RequestOpen, TrySteps
<1>4. StepFits'
  BY <1>0, <1>1 DEF RebuildInvariant, AloneMoves, StepFits, Translating
<1>5. QED
  BY <1>2, <1>3, <1>4 DEF RebuildInvariant

\* The hook's put: the record is not that of another run that needs the object.
LEMMA RebuildSaves ==
    ASSUME Safe, OneWorker, RebuildInvariant, NEW w \in Workers, SaveCheckpoint(w)
    PROVE  RebuildInvariant'
<1>0. /\ Sole.pc = "saveCkpt" /\ msg[Sole.run] = "leased"
      /\ Sole.run \in Runs /\ Sole = worker[w] /\ Sole.text = Sole.run
      /\ Sole.goal \in {"none", "running", "ready"}
  BY SoleIs, SoleTyped
     DEF SaveCheckpoint, RebuildInvariant, QueueFits, LocalOK, GoalFits, TrySteps, WithText
<1>1. /\ UNCHANGED <<job, msg, tries, post, rebuild>>
      /\ Sole'.run = Sole.run /\ Sole'.goal = Sole.goal /\ Sole'.attempt = Sole.attempt
      /\ Sole'.pc = "build" /\ ckpt' = Sole.run
  BY <1>0, SoleGoes DEF SaveCheckpoint, consumerOnly, queueVars, histVars
<1>2. QueueFits'
  BY <1>0, <1>1 DEF RebuildInvariant, QueueFits, RequestOpen
<1>3. RequestsOwn' /\ GoalFits'
  BY <1>0, <1>1 DEF RebuildInvariant, RequestsOwn, GoalFits, LetIn, Translating,
     RequestOpen, TrySteps
<1>4. CheckpointKept'
  <2>1. SUFFICES ASSUME NEW r \in rebuild, job.run = r, r # Sole.run
                 PROVE  FALSE
    BY <1>0, <1>1 DEF RebuildInvariant, CheckpointKept, GivingUp
  <2>2. QED
    BY <1>0, <2>1 DEF RebuildInvariant, StepFits, Translating
<1>5. StepFits'
  BY <1>0, <1>1 DEF RebuildInvariant, StepFits, Translating
<1>6. QED
  BY <1>2, <1>3, <1>4, <1>5 DEF RebuildInvariant

\* A build that fails asks for the checkpoint, which is there, or gives up.
LEMMA RebuildAsks ==
    ASSUME Safe, OneWorker, RebuildInvariant, NEW w \in Workers, BuildFails(w)
    PROVE  RebuildInvariant'
<1>0. /\ Sole.pc = "build" /\ msg[Sole.run] = "leased"
      /\ Sole.run \in Runs /\ Sole = worker[w] /\ rebuild \subseteq Runs
      /\ Sole.goal \in {"none", "running", "ready"}
  BY SoleIs, SoleTyped
     DEF BuildFails, RebuildInvariant, QueueFits, LocalOK, GoalFits, TrySteps
<1>1. /\ UNCHANGED <<job, ckpt, msg, tries, post>>
      /\ Sole'.run = Sole.run /\ Sole'.attempt = Sole.attempt
      /\ \/ /\ Sole'.pc = "checkRun" /\ Sole'.goal = "retry"
            /\ rebuild' = rebuild \union {Sole.run}
         \/ /\ Sole'.pc = "findCkpt" /\ Sole'.goal = "failed"
            /\ rebuild' = rebuild \ {Sole.run}
  BY <1>0, SoleGivesUp DEF BuildFails, consumerOnly, queueVars
<1>2. QueueFits'
  BY <1>0, <1>1 DEF RebuildInvariant, QueueFits, RequestOpen
<1>3. RequestsOwn' /\ GoalFits'
  BY <1>0, <1>1 DEF RebuildInvariant, RequestsOwn, GoalFits, LetIn, Translating,
     RequestOpen, TrySteps
<1>4. CheckpointKept'
  <2>1. job.run = Sole.run => ckpt = Sole.run /\ shouldProcessClipRun(job, Sole.run)
    BY <1>0 DEF RebuildInvariant, StepFits
  <2>2. QED
    BY <1>0, <1>1, <2>1 DEF RebuildInvariant, CheckpointKept, GivingUp
<1>5. StepFits'
  BY <1>0, <1>1 DEF RebuildInvariant, StepFits, Translating
<1>6. QED
  BY <1>2, <1>3, <1>4, <1>5 DEF RebuildInvariant

\* What comes after the build: the checkpoint is not touched any more.
LateSteps == { "confirmPut", "putEpub", "putMeta", "confirmClassify", "classify",
               "confirmLabel", "readMeta", "writeMeta", "attach", "ack" }

\* From the build to the candidate.
LEMMA RebuildStores ==
    ASSUME Safe, OneWorker, RebuildInvariant, NEW w \in Workers,
           \/ BuildEpub(w) \/ ConfirmRun(w) \/ PutEpub(w) \/ PutMeta(w) \/ Classify(w)
           \/ ReadMeta(w) \/ WriteMeta(w) \/ FindCandidate(w) \/ AttachCandidate(w)
    PROVE  RebuildInvariant'
<1> DEFINE from == {"build", "findCand"} \union LateSteps
<1>0. /\ Sole.pc \in from \ {"ack"} /\ msg[Sole.run] = "leased"
      /\ Sole.run \in Runs /\ Sole = worker[w] /\ Sole \in Invocation
      /\ Sole.pc \notin {"findCand", "attach"} => Sole.goal \in {"none", "running", "ready"}
  BY SoleIs, SoleTyped
     DEF BuildEpub, ConfirmRun, PutEpub, PutMeta, Classify, ReadMeta, WriteMeta,
         FindCandidate, AttachCandidate, RebuildInvariant, QueueFits, LocalOK, GoalFits,
         TrySteps, LateSteps
<1>1. /\ AloneMoves
      /\ \/ /\ Sole'.pc \in LateSteps \ {"writeMeta", "attach"} /\ Sole'.goal = Sole.goal
            /\ Sole.pc \in {"findCand", "attach"} => Sole'.pc = "ack"
         \/ Sole'.pc = "attach" /\ Sole'.goal = Sole.goal
         \/ /\ Sole'.pc \in {"checkRun", "writeMeta"} /\ Sole'.goal = "ready"
            /\ Sole.pc \in {"confirmLabel", "readMeta", "writeMeta"}
  <2> USE DEF AloneMoves, consumerOnly, queueVars, histVars, LateSteps
  <2>1. CASE BuildEpub(w)
    BY <1>0, <2>1, SoleGoes DEF BuildEpub
  <2>2. CASE ConfirmRun(w)
    <3>1. /\ UNCHANGED <<job, ckpt, msg, tries, post, rebuild>>
          /\ Sole.pc \in {"confirmPut", "confirmClassify", "confirmLabel"}
          /\ \/ \E step \in {"putEpub", "classify", "readMeta", "ack"} : Goto(w, step)
             \/ /\ Sole.pc = "confirmLabel"
                /\ Become(w, [worker[w] EXCEPT !.pc = "checkRun", !.goal = "ready"])
      BY <1>0, <2>2 DEF ConfirmRun
    <3>2. CASE \E step \in {"putEpub", "classify", "readMeta", "ack"} : Goto(w, step)
      BY <1>0, <3>1, <3>2, SoleGoes
    <3>3. CASE /\ Sole.pc = "confirmLabel"
               /\ Become(w, [worker[w] EXCEPT !.pc = "checkRun", !.goal = "ready"])
      <4>1. /\ Sole'.pc = "checkRun" /\ Sole'.run = Sole.run
            /\ Sole'.goal = "ready" /\ Sole'.attempt = Sole.attempt
        BY <3>3, SoleTurns
      <4>2. QED
        BY <1>0, <3>1, <3>3, <4>1
    <3>4. QED
      BY <3>1, <3>2, <3>3
  <2>3. CASE PutEpub(w) \/ PutMeta(w) \/ Classify(w)
    BY <1>0, <2>3, SoleGoes DEF PutEpub, PutMeta, Classify
  <2>4. CASE ReadMeta(w)
    <3>1. worker'[w] = [worker[w] EXCEPT
                           !.pc = IF meta.of = NoRun THEN "checkRun" ELSE "writeMeta",
                           !.seen = meta, !.goal = "ready"]
      BY <2>4 DEF ReadMeta, Become, Safe, TypeOK
    <3>2. PICK step \in {"checkRun", "writeMeta"} :
             Sole' = [Sole EXCEPT !.pc = step, !.seen = meta, !.goal = "ready"]
      BY <1>0, <3>1, SoleIs
    <3>3. QED
      BY <1>0, <2>4, <3>2 DEF ReadMeta, Invocation
  <2>5. CASE WriteMeta(w)
    <3>1. Sole.goal = "ready"
      BY <1>0, <2>5 DEF WriteMeta, RebuildInvariant, GoalFits
    <3>2. QED
      BY <1>0, <2>5, <3>1, SoleGoes DEF WriteMeta
  <2>6. CASE FindCandidate(w) /\ Goto(w, "ack")
    BY <1>0, <2>6, SoleGoes DEF FindCandidate
  <2>7. CASE FindCandidate(w) /\ Become(w, [worker[w] EXCEPT !.pc = "attach", !.row = cand])
    <3>1. worker'[w] = [worker[w] EXCEPT !.pc = "attach", !.row = cand]
      BY <2>7 DEF Become, Safe, TypeOK
    <3>2. Sole' = [Sole EXCEPT !.pc = "attach", !.row = cand]
      BY <1>0, <3>1, SoleIs
    <3>3. QED
      BY <1>0, <2>7, <3>2 DEF FindCandidate, Invocation
  <2>8. CASE AttachCandidate(w)
    BY <1>0, <2>8, SoleGoes DEF AttachCandidate
  <2>9. QED
    BY <2>1, <2>2, <2>3, <2>4, <2>5, <2>6, <2>7, <2>8 DEF FindCandidate
<1>2. QueueFits' /\ CheckpointKept'
  BY <1>0, <1>1, AloneKeeps
<1>3. RequestsOwn' /\ GoalFits'
  BY <1>0, <1>1 DEF RebuildInvariant, AloneMoves, RequestsOwn, GoalFits, LetIn, Translating,
     RequestOpen, TrySteps, LateSteps
<1>4. StepFits'
  BY <1>0, <1>1 DEF RebuildInvariant, AloneMoves, StepFits, Translating, LateSteps
<1>5. QED
  BY <1>2, <1>3, <1>4 DEF RebuildInvariant

\* The catch block: the last delivery gives up, the others go on.
LEMMA RebuildThrows ==
    ASSUME Safe, OneWorker, RebuildInvariant, NEW w \in Workers, Throw(w)
    PROVE  RebuildInvariant'
<1>0. /\ Sole.pc # "idle" /\ Sole.run \in Runs /\ Sole = worker[w]
      /\ Sole \in Invocation /\ Sole.attempt \in Nat /\ msg[Sole.run] = "leased"
  BY SoleIs, SoleTyped, InvocationFields
     DEF Throw, TrySteps, SharedSteps, LocalOK, RebuildInvariant, QueueFits
<1>1. /\ AloneMoves
      /\ \/ Sole.attempt <= MaxRetries /\ Sole'.pc = "checkRun" /\ Sole'.goal = "retry"
         \/ ~(Sole.attempt <= MaxRetries) /\ Sole'.pc = "findCkpt" /\ Sole'.goal = "failed"
  <2>1. PICK step \in {"checkRun", "findCkpt"}, goal \in {"retry", "failed"} :
          /\ worker'[w] = [worker[w] EXCEPT !.pc = step, !.goal = goal, !.caught = TRUE]
          /\ IF shouldRetryClipAttempt(Sole.attempt)
             THEN step = "checkRun" /\ goal = "retry"
             ELSE step = "findCkpt" /\ goal = "failed"
    BY <1>0 DEF Throw, Become, Safe, TypeOK
  <2>2. Sole' = [Sole EXCEPT !.pc = step, !.goal = goal, !.caught = TRUE]
    BY <1>0, <2>1, SoleIs
  <2>3. Sole'.pc = step /\ Sole'.goal = goal /\ Sole'.run = Sole.run
        /\ Sole'.attempt = Sole.attempt
    BY <1>0, <2>2 DEF Invocation
  <2>4. UNCHANGED <<job, ckpt, msg, tries, post, rebuild>>
    BY DEF Throw, consumerOnly, queueVars, histVars
  <2>5. QED
    BY <1>0, <2>1, <2>3, <2>4 DEF AloneMoves, shouldRetryClipAttempt
<1>2. Sole.run \in rebuild /\ Sole.goal = "failed" => Sole'.goal = "failed"
  <2>1. Sole.run \in rebuild /\ Sole.goal = "failed" => Sole.attempt > MaxRetries
    BY DEF RebuildInvariant, StepFits
  <2>2. QED
    BY <1>0, <1>1, <2>1, RetriesAssumption
<1>3. QueueFits' /\ CheckpointKept'
  BY <1>1, <1>2, AloneKeeps
<1>4. RequestsOwn' /\ GoalFits'
  BY <1>1 DEF RebuildInvariant, AloneMoves, RequestsOwn, GoalFits, LetIn, Translating,
     RequestOpen, TrySteps
<1>5. Sole'.goal = "failed" => Sole.attempt > MaxRetries
  BY <1>0, <1>1, RetriesAssumption
<1>6. StepFits'
  BY <1>1, <1>5 DEF RebuildInvariant, AloneMoves, StepFits, Translating
<1>7. QED
  BY <1>3, <1>4, <1>6 DEF RebuildInvariant

\* The end of an invocation: a run that gave up is acknowledged or dropped.
LEMMA RebuildEnds ==
    ASSUME Safe, OneWorker, RebuildInvariant, NEW w \in Workers,
           Ack(w) \/ Retry(w) \/ Crash(w)
    PROVE  RebuildInvariant'
<1>0. /\ Sole.pc # "idle" /\ Sole.run \in Runs /\ Sole = worker[w]
      /\ msg[Sole.run] = "leased" /\ Sole.attempt = tries[Sole.run]
      /\ msg \in [Runs -> MessagePlaces] /\ tries[Sole.run] \in Nat
      /\ rebuild \subseteq Runs
  BY SoleIs, SoleTyped DEF Ack, Retry, Crash, Busy, LocalOK, RebuildInvariant, QueueFits
<1>1. /\ UNCHANGED <<job, ckpt, tries, post, rebuild>>
      /\ \A r \in Runs : r # Sole.run => msg'[r] = msg[r]
      /\ Sole' = Idle
      /\ \/ msg'[Sole.run] = "acked"
         \/ msg'[Sole.run] = "waiting" /\ Sole.goal = "retry"
         \/ msg'[Sole.run] = "dropped"
         \/ msg'[Sole.run] = "waiting" /\ tries[Sole.run] <= MaxRetries
  <2> USE DEF articleVars, histVars
  <2>1. Sole' = Idle
    BY SoleIs, TheOthersRest DEF Ack, Retry, Crash
  <2>2. CASE Ack(w)
    BY <1>0, <2>1, <2>2 DEF Ack
  <2>3. CASE Retry(w) \/ Crash(w)
    <3>1. msg' = [msg EXCEPT ![Sole.run] =
                     IF tries[Sole.run] <= MaxRetries THEN "waiting" ELSE "dropped"]
      BY <1>0, <2>3 DEF Retry, Crash, Returned
    <3>2. QED
      BY <1>0, <2>1, <2>3, <3>1 DEF Retry, Crash
  <2>4. QED
    BY <2>2, <2>3
<1>2. /\ Sole'.pc = "idle" /\ Sole'.run = NoRun /\ Sole'.goal = "none"
      /\ msg'[Sole.run] # "unsent"
  BY <1>1 DEF Idle
<1>3. QueueFits'
  BY <1>0, <1>1, <1>2 DEF RebuildInvariant, QueueFits, RequestOpen
<1>4. RequestsOwn' /\ GoalFits'
  BY <1>1, <1>2 DEF RebuildInvariant, RequestsOwn, GoalFits, LetIn, Translating,
     RequestOpen, TrySteps
<1>5. CheckpointKept'
  <2>1. GivingUp(Sole.run) => msg'[Sole.run] \in {"acked", "dropped"}
    BY <1>0, <1>1, RetriesAssumption DEF GivingUp
  <2>2. ASSUME NEW r \in rebuild, GivingUp(r)
        PROVE  msg'[r] \in {"acked", "dropped"}
    BY <1>0, <1>1, <2>1, <2>2 DEF GivingUp
  <2>3. QED
    BY <1>1, <2>2 DEF RebuildInvariant, CheckpointKept, GivingUp
<1>6. StepFits'
  BY <1>0, <1>1, <1>2, NoRunAssumption DEF RebuildInvariant, StepFits, Translating
<1>7. QED
  BY <1>3, <1>4, <1>5, <1>6 DEF RebuildInvariant

\* A delivery, be it the first or one more.
LEMMA RebuildBegins ==
    ASSUME Safe, OneWorker, RebuildInvariant, NEW w \in Workers, NEW r \in Runs,
           Deliver(w, r) \/ DeliverTwice(w, r)
    PROVE  RebuildInvariant'
<1>0. /\ Sole.pc = "idle" /\ Sole.run = NoRun /\ rebuild \subseteq Runs
      /\ msg[r] \in {"waiting", "leased"}
      /\ msg \in [Runs -> MessagePlaces] /\ tries \in [Runs -> Nat]
  BY SoleIs, SoleTyped DEF Deliver, DeliverTwice, Busy, RebuildInvariant, GoalFits
<1>1. /\ UNCHANGED <<job, ckpt, post, rebuild>>
      /\ \A q \in Runs : q # r => msg'[q] = msg[q]
      /\ msg'[r] = "leased"
      /\ worker'[w] = [Idle EXCEPT !.pc = "read", !.run = r, !.attempt = tries'[r]]
  BY <1>0, TheOthersRest
     DEF Deliver, DeliverTwice, Begin, articleVars, queueVars, histVars
<1>2. /\ Sole'.pc = "read" /\ Sole'.run = r /\ Sole'.goal = "none"
      /\ Sole'.attempt = tries'[r]
  <2>1. Sole' = [Idle EXCEPT !.pc = "read", !.run = r, !.attempt = tries'[r]]
    BY <1>1, SoleIs
  <2>2. \A n : LET l == [Idle EXCEPT !.pc = "read", !.run = r, !.attempt = n]
               IN  l.pc = "read" /\ l.run = r /\ l.goal = "none" /\ l.attempt = n
    BY DEF Idle
  <2>3. QED
    BY <2>1, <2>2
<1>3. QueueFits'
  BY <1>0, <1>1, <1>2 DEF RebuildInvariant, QueueFits, RequestOpen
<1>4. RequestsOwn' /\ GoalFits'
  BY <1>1, <1>2 DEF RebuildInvariant, RequestsOwn, GoalFits, LetIn, Translating,
     RequestOpen, TrySteps
<1>5. CheckpointKept'
  BY <1>0, <1>1, <1>2, NoRunAssumption DEF RebuildInvariant, CheckpointKept, GivingUp
<1>6. StepFits'
  BY <1>1, <1>2 DEF RebuildInvariant, StepFits, Translating
<1>7. QED
  BY <1>3, <1>4, <1>5, <1>6 DEF RebuildInvariant

\* A request begins, goes on without the record, or ends where it is.
LEMMA RebuildRequests ==
    ASSUME Safe, OneWorker, RebuildInvariant, NEW p \in Runs,
           Lookup(p) \/ Send(p) \/ SendFails(p) \/ RequestDies(p)
    PROVE  RebuildInvariant'
<1>0. /\ msg \in [Runs -> MessagePlaces] /\ post \in [Runs -> RequestSteps]
      /\ rebuild \subseteq Runs /\ (Sole.pc # "idle" => Sole.run \in Runs)
  BY SoleTyped DEF LocalOK
<1>1. UNCHANGED <<job, ckpt, tries, rebuild>> /\ Sole' = Sole
      /\ \A q \in Runs : q # p => msg'[q] = msg[q] /\ post'[q] = post[q]
  BY <1>0, SoleStays
     DEF Lookup, Send, SendFails, RequestDies, articleVars, queueVars, histVars
<1>2. \/ /\ post[p] = "idle" /\ msg'[p] = msg[p] /\ post'[p] \in {"put", "done"}
         /\ \A q \in Runs : ~RequestOpen(q)
      \/ /\ post[p] = "send" /\ msg'[p] \in {msg[p], "waiting"}
         /\ post'[p] \in {"record", "fail"}
      \/ RequestOpen(p) /\ msg'[p] = msg[p] /\ post'[p] = "done"
  BY <1>0 DEF Lookup, Send, SendFails, RequestDies, OneWorker, queueVars
<1>3. /\ post[p] \in {"idle", "send"} =>
            /\ msg[p] = "unsent" /\ p \notin rebuild
            /\ Sole.pc # "idle" => Sole.run # p
      /\ \A q \in Runs : RequestOpen(q)' => RequestOpen(q) \/ post[q] = "idle"
  BY <1>0, <1>1, <1>2 DEF RebuildInvariant, QueueFits, RequestOpen
<1>4. QueueFits'
  BY <1>0, <1>1, <1>2, <1>3 DEF RebuildInvariant, QueueFits, RequestOpen
<1>5. RequestsOwn'
  BY <1>0, <1>1, <1>2, <1>3
     DEF RebuildInvariant, RequestsOwn, LetIn, Translating, RequestOpen
<1>6. CheckpointKept'
  BY <1>0, <1>1, <1>2, <1>3 DEF RebuildInvariant, CheckpointKept, GivingUp
<1>7. GoalFits' /\ StepFits'
  BY <1>1 DEF RebuildInvariant, GoalFits, StepFits
<1>8. QED
  BY <1>4, <1>5, <1>6, <1>7 DEF RebuildInvariant

\* A request writes the record: for a run that was not sent yet, or for the
\* run whose record it is.
LEMMA RebuildRecords ==
    ASSUME Safe, OneWorker, RebuildInvariant, NEW p \in Runs,
           PutQueued(p) \/ PutQueueFailed(p) \/ PutRecorded(p)
    PROVE  RebuildInvariant'
<1>0. /\ msg \in [Runs -> MessagePlaces] /\ post \in [Runs -> RequestSteps]
      /\ rebuild \subseteq Runs /\ (Sole.pc # "idle" => Sole.run \in Runs)
  BY SoleTyped DEF LocalOK
<1>1. UNCHANGED <<ckpt, msg, tries, rebuild>> /\ Sole' = Sole
      /\ \A q \in Runs : q # p => post'[q] = post[q]
  BY <1>0, SoleStays
     DEF PutQueued, PutQueueFailed, PutRecorded, articleVars, queueVars, histVars
<1>2. /\ RequestOpen(p)
      /\ \/ post[p] = "put" /\ post'[p] = "send"
         \/ post[p] \in {"fail", "record"} /\ post'[p] = "done"
      /\ job'.run = p /\ job'.status # "absent" /\ shouldProcessClipRun(job', p)
  BY <1>0 DEF PutQueued, PutQueueFailed, PutRecorded, JobOf, RequestOpen,
     shouldProcessClipRun, isClipJobInFlight
<1>3. \A q \in Runs : RequestOpen(q)' => q = p /\ post'[p] = "send"
  BY <1>1, <1>2 DEF RebuildInvariant, QueueFits, RequestOpen
<1>4. post[p] = "put" =>
          msg[p] = "unsent" /\ p \notin rebuild /\ (Sole.pc # "idle" => Sole.run # p)
  BY <1>0 DEF RebuildInvariant, QueueFits
<1>5. p \in rebuild => job.run = p
  BY <1>2 DEF RebuildInvariant, RequestsOwn
<1>6. QueueFits'
  BY <1>0, <1>1, <1>2, <1>3, <1>4, NoRunAssumption
     DEF RebuildInvariant, QueueFits, RequestOpen
<1>7. RequestsOwn'
  BY <1>0, <1>1, <1>2, <1>3, <1>4
     DEF RebuildInvariant, RequestsOwn, LetIn, Translating
<1>8. CheckpointKept'
  BY <1>0, <1>1, <1>2, <1>5 DEF RebuildInvariant, CheckpointKept, GivingUp
<1>9. GoalFits'
  BY <1>1 DEF RebuildInvariant, GoalFits
<1>10. StepFits'
  <2>1. LetIn(Sole) /\ Sole.run = p => job.run = p
    BY <1>2 DEF RebuildInvariant, RequestsOwn
  <2>2. QED
    BY <1>0, <1>1, <1>2, <1>5, <2>1
       DEF RebuildInvariant, StepFits, LetIn, Translating
<1>11. QED
  BY <1>6, <1>7, <1>8, <1>9, <1>10 DEF RebuildInvariant

\* Nobody has asked for anything yet.
LEMMA InitRebuild == Init => RebuildInvariant
<1> SUFFICES ASSUME Init PROVE RebuildInvariant
  OBVIOUS
<1>1. Sole = Idle
  <2>1. CASE Workers = {}
    BY <2>1 DEF Sole
  <2>2. CASE Workers # {}
    <3>1. (CHOOSE v \in Workers : TRUE) \in Workers
      BY <2>2
    <3>2. QED
      BY <2>2, <3>1 DEF Init, Sole
  <2>3. QED
    BY <2>1, <2>2
<1>2. Sole.pc = "idle" /\ Sole.run = NoRun /\ Sole.goal = "none"
  BY <1>1 DEF Idle
<1>3. QED
  BY <1>2 DEF Init, RebuildInvariant, QueueFits, RequestOpen, RequestsOwn, LetIn,
     Translating, CheckpointKept, GoalFits, StepFits, TrySteps, NoJob

\* Every step keeps the invariant.
LEMMA NextRebuild ==
    OneWorker /\ Safe /\ RebuildInvariant /\ [Next]_vars => RebuildInvariant'
<1> SUFFICES ASSUME OneWorker, Safe, RebuildInvariant, [Next]_vars
             PROVE  RebuildInvariant'
  OBVIOUS
<1>1. ASSUME NEW p \in Runs, Lookup(p) \/ RequestStep(p) \/ RequestDies(p)
      PROVE  RebuildInvariant'
  BY <1>1, RebuildRequests, RebuildRecords DEF RequestStep
<1>2. ASSUME NEW w \in Workers, NEW r \in Runs, Deliver(w, r) \/ DeliverTwice(w, r)
      PROVE  RebuildInvariant'
  BY <1>2, RebuildBegins
<1>3. ASSUME NEW w \in Workers, ConsumerStep(w)
      PROVE  RebuildInvariant'
  BY <1>3, RebuildReads, RebuildChecks, RebuildWrites, RebuildTidies, RebuildLoads,
     RebuildTranslates, RebuildSaves, RebuildAsks, RebuildStores, RebuildEnds
     DEF ConsumerStep
<1>4. ASSUME NEW w \in Workers, Crash(w) \/ Throw(w)
      PROVE  RebuildInvariant'
  BY <1>4, RebuildEnds, RebuildThrows
<1>5. CASE GoStale \/ DeleteArticle \/ UNCHANGED vars
  <2>1. /\ UNCHANGED <<ckpt, msg, tries, post, rebuild>> /\ Sole' = Sole
        /\ job'.run = job.run /\ job'.status = job.status /\ job'.code = job.code
    BY <1>5, SoleStays, SoleTyped
       DEF GoStale, DeleteArticle, vars, consumerOnly, queueVars, histVars, articleVars,
           ClipJobRecord
  <2>2. \A r : shouldProcessClipRun(job', r) <=> shouldProcessClipRun(job, r)
    BY <2>1 DEF shouldProcessClipRun, isClipJobInFlight
  <2>3. QueueFits' /\ RequestsOwn'
    BY <2>1 DEF RebuildInvariant, QueueFits, RequestsOwn, RequestOpen
  <2>4. CheckpointKept' /\ GoalFits' /\ StepFits'
    BY <2>1, <2>2 DEF RebuildInvariant, CheckpointKept, GivingUp, GoalFits, StepFits
  <2>5. QED
    BY <2>3, <2>4 DEF RebuildInvariant
<1>6. QED
  BY <1>1, <1>2, <1>3, <1>4, <1>5 DEF Next, SystemStep, Environment

\* While the record is that of a run that asked to build again from its
\* checkpoint, the checkpoint is there, whatever is thrown, cut off, delivered
\* twice, overtaken or deleted meanwhile, for any number of runs and retries.
THEOREM CheckpointIsKept ==
    ASSUME OneWorker
    PROVE  Spec => []RebuildInvariant
<1>1. Init => RebuildInvariant
  BY InitRebuild
<1>2. Safe /\ RebuildInvariant /\ [Next]_vars => RebuildInvariant'
  BY NextRebuild
<1>3. QED
  BY <1>1, <1>2, Safety, PTL DEF Spec

\* README: an EPUB failure after a successful translation is retried without
\* calling OpenAI again (runClipQueueMessage, checkpointForRun), until the run
\* is ready or given up.
THEOREM NobodyTranslatesTwice ==
    ASSUME OneWorker
    PROVE  Spec => NoSecondTranslation
<1>1. RebuildInvariant =>
          \A w \in Workers : worker[w].pc = "translate" => worker[w].run \notin rebuild
  BY SoleIs DEF RebuildInvariant, StepFits
<1>2. RebuildInvariant /\ [Next]_vars =>
          [\A w \in Workers :
              worker[w].pc = "translate" /\ worker'[w].pc = "saveCheck"
                  => worker[w].run \notin rebuild]_worker
  BY <1>1
<1>3. QED
  BY <1>2, CheckpointIsKept, PTL DEF Spec, NoSecondTranslation

-----------------------------------------------------------------------------
(***************************************************************************)
(* The refinement: while requests come one at a time, the protocol is the  *)
(* service of ClipOutcome.  Only a request and an invocation that works    *)
(* change what it shows, and OneAtATimeInvariant says for which run.       *)
(***************************************************************************)

\* What the service sees, and all it sees.
ServiceView == <<job.status, job.run, onOffer, stillAsking>>

\* An invocation whose record is active works while the service is pending.
LEMMA WorkIsPending ==
    ASSUME OneAtATimeInvariant, NEW w \in Workers, Working(worker[w])
    PROVE  job.run = worker[w].run /\ job.status \in {"queued", "running"}
  BY SplitOneAtATime DEF AllFit, Fits, isActiveClipJob, isClipJobInFlight

\* The request that minted the record's run is open or it is not, and the
\* steps of consumers change nothing about it.
LEMMA AskingIs ==
    ASSUME NEW p \in Runs, job.run = p
    PROVE  stillAsking <=> post[p] \in {"send", "fail", "record"}
  BY DEF stillAsking

\* The same of the next state.
LEMMA AskingIsNext ==
    ASSUME NEW p \in Runs, job'.run = p
    PROVE  stillAsking' <=> post'[p] \in {"send", "fail", "record"}
  BY DEF stillAsking

\* A request leaves the articles alone.  Its early return is not seen; its
\* first put is the acceptance, its last step the answer.
LEMMA RequestServes ==
    ASSUME OneAtATime, Safe, OneAtATimeInvariant, NEW p \in Runs,
           Lookup(p) \/ RequestStep(p) \/ RequestDies(p)
    PROVE  Service!Next \/ UNCHANGED ServiceView
<1>0. /\ RequestsFit /\ post \in [Runs -> RequestSteps] /\ job \in ClipJobRecord
      /\ RecordFits
  BY SplitOneAtATime DEF SharedFit, Safe, TypeOK
<1>1. /\ onOffer' = onOffer
      /\ \A q \in Runs : q # p => post'[q] = post[q]
  BY <1>0 DEF onOffer, Lookup, RequestStep, RequestDies, PutQueued, Send, SendFails,
     PutQueueFailed, PutRecorded, articleVars
<1>2. CASE Lookup(p)
  <2>1. /\ job' = job /\ post[p] = "idle" /\ post'[p] \in {"done", "put"}
    BY <1>0, <1>2 DEF Lookup
  <2>2. stillAsking' = stillAsking
    BY <1>1, <2>1 DEF stillAsking
  <2>3. QED
    BY <1>1, <2>1, <2>2 DEF ServiceView
<1>3. CASE PutQueued(p)
  <2>1. /\ post[p] = "put" /\ post'[p] = "send"
        /\ job'.run = p /\ job'.status = "queued"
    BY <1>0, <1>3 DEF PutQueued, JobOf
  <2>2. job.run # p /\ ~isActiveClipJob(job)
    BY <1>0, <2>1 DEF RequestsFit
  <2>3. job.status \notin {"queued", "running"}
    BY <1>0, <2>2 DEF RecordFits, isActiveClipJob, isClipJobStale, isClipJobInFlight
  <2>4. ~stillAsking
    BY <1>0, <2>1, <2>2 DEF stillAsking, RequestsFit, RequestOpen
  <2>5. stillAsking'
    BY <2>1, AskingIsNext
  <2>6. Service!Accept(p)
    BY <1>1, <2>1, <2>2, <2>3, <2>4, <2>5 DEF Service!Accept, Service!Pending
  <2>7. QED
    BY <2>6 DEF Service!Next
<1>4. CASE Send(p) \/ SendFails(p)
  <2>1. /\ job' = job /\ post[p] = "send" /\ post'[p] \in {"record", "fail"}
    BY <1>0, <1>4 DEF Send, SendFails
  <2>2. stillAsking' = stillAsking
    BY <1>1, <2>1 DEF stillAsking
  <2>3. QED
    BY <1>1, <2>1, <2>2 DEF ServiceView
<1>5. CASE PutQueueFailed(p)
  <2>1. /\ post[p] = "fail" /\ post'[p] = "done"
        /\ job'.run = p /\ job'.status = "failed"
    BY <1>0, <1>5 DEF PutQueueFailed, JobOf
  <2>2. job.run = p /\ job.status = "queued"
    BY <1>0, <2>1 DEF RequestsFit
  <2>3. stillAsking' = FALSE
    BY <2>1, AskingIsNext DEF stillAsking
  <2>4. Service!Fail
    BY <1>1, <2>1, <2>2, <2>3 DEF Service!Fail, Service!Pending
  <2>5. QED
    BY <2>4 DEF Service!Next
<1>6. CASE PutRecorded(p)
  <2>1. /\ post[p] = "record" /\ post'[p] = "done"
        /\ job'.run = p /\ job'.status = "queued"
    BY <1>0, <1>6 DEF PutRecorded, JobOf
  <2>2. job.run = p
    BY <1>0, <2>1 DEF RequestsFit
  <2>3. stillAsking /\ stillAsking' = FALSE
    BY <2>1, <2>2, AskingIs, AskingIsNext DEF stillAsking
  <2>4. Service!Answer
    BY <1>1, <2>1, <2>2, <2>3 DEF Service!Answer
  <2>5. QED
    BY <2>4 DEF Service!Next
<1>7. CASE RequestDies(p)
  <2>1. job' = job /\ post'[p] = "done" /\ RequestOpen(p)
    BY <1>0, <1>7 DEF RequestDies
  <2>2. CASE job.run = p /\ post[p] # "put"
    <3>1. post[p] \in {"send", "fail", "record"}
      BY <1>0, <2>1, <2>2 DEF RequestOpen, RequestSteps
    <3>2. stillAsking /\ stillAsking' = FALSE
      BY <2>1, <2>2, <3>1, AskingIs, AskingIsNext DEF stillAsking
    <3>3. Service!Answer
      BY <1>1, <2>1, <3>2 DEF Service!Answer
    <3>4. QED
      BY <3>3 DEF Service!Next
  <2>3. CASE job.run # p \/ post[p] = "put"
    <3>1. stillAsking' = stillAsking
      BY <1>1, <2>1, <2>3 DEF stillAsking
    <3>2. QED
      BY <1>1, <2>1, <3>1 DEF ServiceView
  <2>4. QED
    BY <2>2, <2>3
<1>8. QED
  BY <1>2, <1>3, <1>4, <1>5, <1>6, <1>7 DEF RequestStep

\* A record that an invocation writes is of its run, which is pending.
LEMMA RecordServes ==
    ASSUME Safe, OneAtATimeInvariant, NEW w \in Workers, WriteJob(w)
    PROVE  Service!Next
<1> DEFINE l == worker[w]
<1>0. /\ l.pc = "writeJob" /\ l.run \in Runs /\ job' = RecordFor(l)
      /\ Fits(l, msg, job, ckpt, epub, meta)
  BY SplitInvariant, SplitOneAtATime DEF WriteJob, LocalsOK, LocalOK, AllFit
<1>1. Working(l) /\ job.run = l.run /\ job.status \in {"queued", "running"}
  BY <1>0, WorkIsPending DEF Working
<1>2. /\ job'.run = l.run
      /\ \/ job'.status = "running"
         \/ job'.status = "ready" /\ l.goal = "ready"
         \/ job'.status = "failed"
  BY <1>0 DEF RecordFor, JobOf
<1>3. onOffer' = onOffer /\ stillAsking' = stillAsking
  BY <1>1, <1>2 DEF WriteJob, onOffer, stillAsking, articleVars, consumerOnly
<1>4. CASE job'.status = "running"
  BY <1>1, <1>2, <1>3, <1>4 DEF Service!Next, Service!Work, Service!Pending
<1>5. CASE job'.status = "ready" /\ l.goal = "ready"
  <2>1. epub = l.run /\ meta.of = l.run
    BY <1>0, <1>1, <1>5 DEF Fits
  <2>2. onOffer = job.run
    BY <1>0, <1>1, <2>1, NoRunAssumption DEF onOffer
  <2>3. QED
    BY <1>1, <1>2, <1>3, <1>5, <2>2 DEF Service!Next, Service!Finish, Service!Pending
<1>6. CASE job'.status = "failed"
  BY <1>1, <1>2, <1>3, <1>6 DEF Service!Next, Service!Fail, Service!Pending
<1>7. QED
  BY <1>2, <1>4, <1>5, <1>6

\* What an invocation stores is its run's, which is pending.
LEMMA ArticleServes ==
    ASSUME Safe, OneAtATimeInvariant, NEW w \in Workers,
           PutEpub(w) \/ PutMeta(w) \/ WriteMeta(w)
    PROVE  Service!Next \/ UNCHANGED ServiceView
<1> DEFINE l == worker[w]
<1>0. /\ l.pc \in {"putEpub", "putMeta", "writeMeta"} /\ l.run \in Runs
      /\ l \in Invocation /\ LocalOK(l, stored, deleted, epub)
      /\ Fits(l, msg, job, ckpt, epub, meta)
      /\ UNCHANGED <<job, post>>
  BY SplitInvariant, SplitOneAtATime
     DEF PutEpub, PutMeta, WriteMeta, LocalsOK, LocalOK, AllFit, consumerOnly
<1>1. Working(l) /\ job.run = l.run /\ job.status \in {"queued", "running"}
  BY <1>0, WorkIsPending DEF Working
<1>2. stillAsking' = stillAsking
  BY <1>0 DEF stillAsking
<1>3. onOffer' \in {onOffer, l.run}
  <2>1. CASE PutEpub(w)
    <3>1. epub' = l.text /\ meta' = meta /\ l.pc = "putEpub"
      BY <2>1 DEF PutEpub
    <3>2. l.text = l.run
      BY <1>0, <3>1 DEF LocalOK, WithText
    <3>3. QED
      BY <3>1, <3>2 DEF onOffer
  <2>2. CASE PutMeta(w)
    <3>1. epub' = epub /\ l.pc = "putMeta" /\ meta'.of = l.text
      BY <2>2 DEF PutMeta
    <3>2. l.text = l.run /\ epub = l.run
      BY <1>0, <3>1 DEF LocalOK, WithText, Fits
    <3>3. QED
      BY <1>0, <3>1, <3>2, NoRunAssumption DEF onOffer
  <2>3. CASE WriteMeta(w)
    <3>1. /\ epub' = epub /\ l.pc = "writeMeta"
          /\ meta' = [l.seen EXCEPT !.label = TRUE]
      BY <2>3 DEF WriteMeta
    <3>2. l.seen \in ArticleMeta /\ l.seen.of = l.run
      BY <1>0, <3>1, InvocationFields DEF Fits
    <3>3. meta'.of = l.run
      BY <3>1, <3>2 DEF ArticleMeta
    <3>4. epub = l.run
      BY <1>0, <1>1, <3>1 DEF Fits, AfterStore
    <3>5. QED
      BY <1>0, <3>1, <3>3, <3>4, NoRunAssumption DEF onOffer
  <2>4. QED
    BY <2>1, <2>2, <2>3
<1>4. CASE onOffer' = onOffer
  BY <1>0, <1>2, <1>4 DEF ServiceView
<1>5. CASE onOffer' = l.run
  BY <1>0, <1>1, <1>2, <1>5 DEF Service!Next, Service!Offer, Service!Pending
<1>6. QED
  BY <1>3, <1>4, <1>5

\* Nothing else of an invocation is seen, nor a delivery or a crash.
LEMMA RestIsUnseen ==
    ASSUME NEW w \in Workers,
           \/ ConsumerStep(w) /\ ~WriteJob(w)
                /\ ~(PutEpub(w) \/ PutMeta(w) \/ WriteMeta(w))
           \/ Crash(w)
           \/ \E r \in Runs : Deliver(w, r)
    PROVE  UNCHANGED ServiceView
<1>1. UNCHANGED <<job, epub, meta, post>>
  BY DEF ConsumerStep, ReadJob, CheckRun, FindCheckpoint, DropCheckpoint,
     LoadCheckpoint, PurgeCheckpoint, Translate, SaveCheck, SaveCheckpoint, BuildEpub,
     BuildFails, ConfirmRun, Classify, ReadMeta, FindCandidate, AttachCandidate, Ack,
     Retry, Crash, Deliver, articleVars, consumerOnly, queueVars
<1>2. QED
  BY <1>1 DEF ServiceView, onOffer, stillAsking

\* Every step is one of the service or is not seen.
LEMMA StepServes ==
    OneAtATime /\ Safe /\ OneAtATimeInvariant /\ [Next]_vars
        => [Service!Next]_(Service!vars)
<1> SUFFICES ASSUME OneAtATime, Safe, OneAtATimeInvariant, [Next]_vars
             PROVE  Service!Next \/ UNCHANGED ServiceView
  BY DEF ServiceView, Service!vars
<1>1. ASSUME NEW p \in Runs, Lookup(p) \/ RequestStep(p) \/ RequestDies(p)
      PROVE  Service!Next \/ UNCHANGED ServiceView
  BY <1>1, RequestServes
<1>2. ASSUME NEW w \in Workers, ConsumerStep(w)
      PROVE  Service!Next \/ UNCHANGED ServiceView
  BY <1>2, RecordServes, ArticleServes, RestIsUnseen
<1>3. ASSUME NEW w \in Workers, Crash(w) \/ (\E r \in Runs : Deliver(w, r))
      PROVE  UNCHANGED ServiceView
  BY <1>3, RestIsUnseen
<1>4. CASE UNCHANGED vars
  BY <1>4 DEF vars, ServiceView, onOffer, stillAsking
<1>5. /\ ~GoStale /\ ~DeleteArticle
      /\ \A w \in Workers : ~Throw(w) /\ \A r \in Runs : ~DeliverTwice(w, r)
  BY DEF OneAtATime, GoStale, DeleteArticle, Throw, DeliverTwice
<1>6. QED
  BY <1>1, <1>2, <1>3, <1>4, <1>5 DEF Next, SystemStep, Environment

\* While requests come one at a time, the fifteen awaits of a run and its
\* redeliveries are no more than a service that accepts, offers and reports:
\* the refinement, for any number of runs, invocations and retries.
THEOREM ProtocolIsTheService ==
    ASSUME OneAtATime
    PROVE  Spec => OutcomeKept
<1>1. Init => Service!Init
  BY NoRunAssumption DEF Init, Service!Init, NoJob, NoMeta, onOffer, stillAsking
<1>2. Safe /\ OneAtATimeInvariant /\ [Next]_vars => [Service!Next]_(Service!vars)
  BY StepServes
<1>3. QED
  BY <1>1, <1>2, Safety, OneAtATimeHolds, PTL DEF Spec, OutcomeKept, Service!Spec
=============================================================================
