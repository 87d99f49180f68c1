--------------------------- MODULE DigestRunProofs ---------------------------
(***************************************************************************)
(* Proofs about the daily digest (DigestRun), for any number of days,      *)
(* runs, invocations, pages, candidates and faults.                        *)
(*                                                                         *)
(* What the conditional put gives is FreshIsCurrent: whoever may write a   *)
(* record holds it as it is.  So every write is a step from the record     *)
(* itself, and the rest is where an invocation stands when it writes       *)
(* (Placed): not past its articles at work, evaluating when it chooses,    *)
(* and with a running record unless it is in the catch block.              *)
(*                                                                         *)
(* The second part is about the first run of all, while nobody has started *)
(* another (FirstRun): who may still remove its issue, and who will.  The  *)
(* third is the refinement of DayRecord.                                   *)
(***************************************************************************)
EXTENDS DigestRunProperties, SequenceTheorems, TLAPS

\* The steps of an invocation that may still write the record it holds.
Writing == {"touch", "work", "choose", "list", "delete", "history", "finish", "recheck"}

\* Where an invocation may stand with what it holds.
Placed(l) ==
    /\ l.pc # "idle" => l.msg \in Message
    /\ l.pc = "send" => l.out # <<>>
    /\ l.pc \in {"touch", "work"} => ~Summarized(l.seen)
    /\ l.pc = "choose" => l.seen.phase = "evaluate"
    /\ l.pc \in Writing /\ l.fresh /\ ~l.rescue => l.seen.status = "running"

\* An invocation l in a world of records recs.
Sound(l, recs) ==
    /\ l \in Invocation
    /\ Placed(l)
    /\ l.fresh => l.seen = recs[l.msg.day]

Invocations ==
    /\ worker \in [Workers -> Invocation]
    /\ \A w \in Workers : Sound(worker[w], record)

\* A record never takes a branch that is left out.
NeverDead(rec) ==
    /\ rec.phase = "publish" => rec.kept
    /\ Summarized(rec) => ~rec.kept

Records ==
    /\ record \in [Days -> RunRecord]
    /\ \A d \in Days : NeverDead(record[d]) /\ record[d].run \in minted \union {NoRun}

Surroundings ==
    /\ old     \in [Days -> BOOLEAN]
    /\ issue   \in [Days -> RunOrNone]
    /\ history \in [Days -> RunOrNone]
    /\ queue   \subseteq Message
    /\ today   \in Days
    /\ minted  \subseteq Runs
    /\ faults  \in 0 .. MaxFaults
    /\ lost    \subseteq Days \X MessageSteps

DigestInvariant == Invocations /\ Records /\ Surroundings

-----------------------------------------------------------------------------
(* The invocations an action may turn to.                                  *)

\* The fields of an invocation have their types.
LEMMA InvocationFields ==
    ASSUME NEW l \in Invocation
    PROVE  /\ l.pc \in {"idle"} \union TrySteps \union RemoveSteps \union LastSteps
           /\ l.msg \in Message \union {NoMessage} /\ l.seen \in RunRecord
           /\ l.fresh \in BOOLEAN /\ l.rescue \in BOOLEAN /\ l.goal \in Goals
           /\ l.doomed \subseteq Days /\ l.out \in Seq(Message)
           /\ l.msg.day \in Days
<1>1. NoMessage.day \in Days
  BY DaysAssumption DEF NoMessage, StartMessage, Days
<1>2. QED
  BY <1>1 DEF Invocation, Message

\* A blank record is a record of its run, at the first step.
LEMMA BlankFields ==
    ASSUME NEW r \in RunOrNone
    PROVE  /\ BlankRecord(r) \in RunRecord /\ BlankRecord(r).run = r
           /\ BlankRecord(r).phase = "plan" /\ BlankRecord(r).cursor = 0
           /\ BlankRecord(r).status = "running" /\ NeverDead(BlankRecord(r))
  BY DEF BlankRecord, RunRecord, Phases, Finished, NeverDead, Summarized

\* There being no record is a record.
LEMMA NoRecordFields ==
    /\ NoRecord \in RunRecord /\ NoRecord.run = NoRun
    /\ NoRecord.phase = "plan" /\ NeverDead(NoRecord)
  BY DEF NoRecord, BlankRecord, RunRecord, RunOrNone, Phases, Finished, NeverDead,
     Summarized

\* The messages of the program are messages.
LEMMA MessagesAreTyped ==
    ASSUME NEW d \in Days
    PROVE  /\ StartMessage(d) \in Message
           /\ \A r \in RunOrNone : WatchdogMessage(d, r) \in Message
           /\ \A rec \in RunRecord : MessageFor(d, rec) \in Message
           /\ \A m \in Message : [m EXCEPT !.tries = @ + 1] \in Message
<1>1. StartMessage(d) \in Message
  BY DEF StartMessage, Message, MessageSteps, RunOrNone
<1>2. ASSUME NEW r \in RunOrNone PROVE WatchdogMessage(d, r) \in Message
  BY DEF WatchdogMessage, Message, MessageSteps
<1>3. ASSUME NEW rec \in RunRecord PROVE MessageFor(d, rec) \in Message
  BY DEF MessageFor, Message, MessageSteps, RunRecord
<1>4. ASSUME NEW m \in Message PROVE [m EXCEPT !.tries = @ + 1] \in Message
  BY DEF Message
<1>5. QED
  BY <1>1, <1>2, <1>3, <1>4

\* An idle invocation is sound in any world.
LEMMA IdleIsSound ==
    ASSUME NEW recs
    PROVE  /\ Idle \in Invocation /\ Sound(Idle, recs)
           /\ Idle.pc = "idle" /\ ~Idle.fresh /\ Idle.out = <<>>
<1>1. Idle \in Invocation
  BY NoRecordFields DEF Idle, Invocation, Goals
<1>2. QED
  BY <1>1 DEF Idle, Sound, Placed, Writing

\* One that keeps only its message holds no record.
LEMMA OnlyIsSound ==
    ASSUME NEW w \in Workers, Invocations, Busy(w), NEW recs,
           NEW step \in {"ack", "retry", "list", "rescue"}
    PROVE  Sound(Only(w, step), recs)
<1>1. worker[w].msg \in Message
  BY DEF Invocations, Sound, Placed, Busy
<1>2. /\ Only(w, step) \in Invocation /\ Only(w, step).pc = step
      /\ Only(w, step).msg = worker[w].msg /\ Only(w, step).fresh = FALSE
  BY <1>1, IdleIsSound DEF Only, Idle, Invocation, RemoveSteps, LastSteps
<1>3. QED
  BY <1>1, <1>2 DEF Sound, Placed

\* So does one that sends.
LEMMA SendingIsSound ==
    ASSUME NEW w \in Workers, Invocations, Busy(w), NEW recs,
           NEW ms \in Seq(Message), ms # <<>>
    PROVE  Sound(Sending(w, ms), recs)
<1>1. worker[w].msg \in Message
  BY DEF Invocations, Sound, Placed, Busy
<1>2. /\ Sending(w, ms) \in Invocation /\ Sending(w, ms).pc = "send"
      /\ Sending(w, ms).msg = worker[w].msg /\ Sending(w, ms).fresh = FALSE
      /\ Sending(w, ms).out = ms
  BY <1>1, IdleIsSound DEF Sending, Only, Idle, Invocation, LastSteps
<1>3. QED
  BY <1>1, <1>2, IdleIsSound DEF Sound, Placed, Writing

\* What Holding makes of an invocation.
LEMMA HoldingFields ==
    ASSUME NEW w \in Workers, Invocations, NEW rec \in RunRecord,
           NEW step \in {"begin", "touch", "work", "choose", "finish"}
    PROVE  /\ Holding(w, step, rec) \in Invocation
           /\ Holding(w, step, rec).pc = step /\ Holding(w, step, rec).seen = rec
           /\ Holding(w, step, rec).fresh /\ Holding(w, step, rec).msg = worker[w].msg
           /\ Holding(w, step, rec).rescue = worker[w].rescue
  BY DEF Holding, Invocations, Invocation, TrySteps

\* What Finishing makes of one.
LEMMA FinishingFields ==
    ASSUME NEW l \in Invocation, NEW status \in Goals
    PROVE  /\ Finishing(l, status) \in Invocation
           /\ Finishing(l, status).pc = "finish" /\ Finishing(l, status).seen = l.seen
           /\ Finishing(l, status).fresh = l.fresh
           /\ Finishing(l, status).msg = l.msg
           /\ Finishing(l, status).rescue = l.rescue
  BY DEF Finishing, Invocation, TrySteps

-----------------------------------------------------------------------------
(* The two ways in which an invocation moves.                              *)

\* One that writes nothing.
LEMMA BecomeKeeps ==
    ASSUME Invocations, NEW w \in Workers, NEW l,
           Become(w, l), Sound(l, record), UNCHANGED record
    PROVE  Invocations'
<1>1. worker' = [worker EXCEPT ![w] = l] /\ l \in Invocation
  BY DEF Become, Sound
<1>2. worker' \in [Workers -> Invocation]
  BY <1>1 DEF Invocations
<1>3. \A v \in Workers : worker'[v] = IF v = w THEN l ELSE worker[v]
  BY <1>1 DEF Invocations
<1>4. \A v \in Workers : Sound(worker'[v], record')
  BY <1>3 DEF Invocations
<1>5. QED
  BY <1>2, <1>4 DEF Invocations

\* One that writes the record: every other etag of the day is outdated.
LEMMA WriteKeeps ==
    ASSUME Invocations, record \in [Days -> RunRecord], NEW w \in Workers,
           NEW rec \in RunRecord, NEW l, Write(w, rec, l),
           Sound(l, [record EXCEPT ![DayOf(w)] = rec])
    PROVE  /\ Invocations'
           /\ record' \in [Days -> RunRecord]
           /\ record'[DayOf(w)] = rec
           /\ \A d \in Days : d # DayOf(w) => record'[d] = record[d]
           /\ old \in [Days -> BOOLEAN] => old' \in [Days -> BOOLEAN]
<1>1. DayOf(w) \in Days
  BY InvocationFields DEF DayOf, Invocations
<1>2. record' = [record EXCEPT ![DayOf(w)] = rec]
  BY DEF Write
<1>3. \A v \in Workers : Sound(worker'[v], record')
  <2> SUFFICES ASSUME NEW v \in Workers PROVE Sound(worker'[v], record')
    OBVIOUS
  <2>1. CASE v = w
    BY <1>2, <2>1 DEF Write
  <2>2. CASE v # w /\ DayOf(v) = DayOf(w)
    <3>1. worker'[v] = [worker[v] EXCEPT !.fresh = FALSE]
      BY <2>2 DEF Write
    <3>2. worker[v] \in Invocation /\ Placed(worker[v])
      BY DEF Invocations, Sound
    <3>3. /\ worker'[v] \in Invocation /\ worker'[v].pc = worker[v].pc
          /\ worker'[v].msg = worker[v].msg /\ worker'[v].out = worker[v].out
          /\ worker'[v].seen = worker[v].seen /\ worker'[v].fresh = FALSE
      BY <3>1, <3>2 DEF Invocation
    <3>4. QED  BY <3>2, <3>3 DEF Sound, Placed
  <2>3. CASE v # w /\ DayOf(v) # DayOf(w)
    <3>1. worker'[v] = worker[v] /\ DayOf(v) \in Days
      BY <2>3, InvocationFields DEF Write, DayOf, Invocations
    <3>2. record'[DayOf(v)] = record[DayOf(v)]
      BY <1>1, <1>2, <2>3, <3>1
    <3>3. QED  BY <3>1, <3>2 DEF Invocations, Sound, DayOf
  <2>4. QED  BY <2>1, <2>2, <2>3
<1>4. worker' \in [Workers -> Invocation]
  BY <1>3 DEF Write, Sound
<1>5. Invocations'
  BY <1>3, <1>4 DEF Invocations
<1>6. QED
  BY <1>1, <1>2, <1>5 DEF Write

-----------------------------------------------------------------------------
(* What a step does to the records.                                        *)

\* The step of OnlyForward, and that of FinishedStays.
StepForward ==
    \A d \in Days :
        IF record'[d].run = record[d].run
        THEN /\ NotBehind(record'[d], record[d])
             /\ record[d].kept => record'[d].kept
        ELSE record'[d].run \notin minted

StepSettled ==
    \A d \in Days :
        /\ record[d].status \in Finished
        /\ record'[d].run = record[d].run
        => \/ record'[d] = record[d]
           \/ \E w \in Workers : worker[w].rescue /\ DayOf(w) = d

DigestStep ==
    Invocations' /\ Records' /\ Surroundings' /\ StepForward /\ StepSettled

\* A record that is written takes the run on, or nowhere.
Onward(rec, held) ==
    /\ rec \in RunRecord /\ NeverDead(rec)
    /\ rec.run = held.run /\ NotBehind(rec, held)
    /\ held.kept => rec.kept

\* A record is not behind itself.
LEMMA NotBehindItself ==
    ASSUME NEW rec \in RunRecord
    PROVE  NotBehind(rec, rec)
  BY DEF NotBehind, RunRecord

\* The day of an invocation is a day.
LEMMA DayOfInvocation ==
    ASSUME Invocations, NEW w \in Workers
    PROVE  /\ DayOf(w) \in Days /\ worker[w] \in Invocation
           /\ Busy(w) => worker[w].msg \in Message
           /\ worker[w].seen \in RunRecord
  BY InvocationFields DEF Invocations, DayOf, Sound, Placed, Busy

\* One that writes nothing leaves the records as they are.
LEMMA MoveStep ==
    ASSUME DigestInvariant, NEW w \in Workers, NEW l,
           Become(w, l), Sound(l, record),
           UNCHANGED <<record, minted>>, Surroundings'
    PROVE  DigestStep
<1>1. Invocations'
  BY BecomeKeeps DEF DigestInvariant
<1>2. Records'
  BY DEF DigestInvariant, Records
<1>3. StepForward /\ StepSettled
  BY NotBehindItself DEF DigestInvariant, Records, StepForward, StepSettled
<1>4. QED
  BY <1>1, <1>2, <1>3 DEF DigestStep

\* One that changes nothing but itself.
LEMMA QuietMove ==
    ASSUME DigestInvariant, NEW w \in Workers, NEW l,
           Become(w, l), Sound(l, record), UNCHANGED <<onlyWorker, faults>>
    PROVE  DigestStep
<1>1. Surroundings' /\ UNCHANGED <<record, minted>>
  BY DEF DigestInvariant, Surroundings, onlyWorker, catalogueVars, clockVars
<1>2. QED
  BY <1>1, MoveStep

\* One that writes takes its run on from the record it holds.
LEMMA WriteStep ==
    ASSUME DigestInvariant, NEW w \in Workers, NEW rec, NEW l,
           worker[w].fresh, worker[w].pc \in Writing, Write(w, rec, l),
           Onward(rec, worker[w].seen),
           Sound(l, [record EXCEPT ![DayOf(w)] = rec]), UNCHANGED stepOnly
    PROVE  DigestStep
<1> USE DEF DigestInvariant
<1>1. /\ DayOf(w) \in Days /\ worker[w].seen = record[DayOf(w)]
      /\ ~worker[w].rescue => record[DayOf(w)].status = "running"
  BY DayOfInvocation DEF Invocations, Sound, Placed, DayOf
<1>2. /\ Invocations' /\ record' \in [Days -> RunRecord] /\ old' \in [Days -> BOOLEAN]
      /\ record'[DayOf(w)] = rec
      /\ \A d \in Days : d # DayOf(w) => record'[d] = record[d]
  BY WriteKeeps DEF Onward, Records, Surroundings
<1>3. UNCHANGED <<issue, history, queue, today, minted, faults, lost>>
  BY DEF stepOnly, catalogueVars, clockVars
<1>4. Surroundings'
  BY <1>2, <1>3 DEF Surroundings
<1>5. Records'
  <2> SUFFICES ASSUME NEW d \in Days
               PROVE  NeverDead(record'[d]) /\ record'[d].run \in minted \union {NoRun}
    BY <1>2, <1>3 DEF Records, NeverDead, Summarized
  <2>1. NeverDead(record[d]) /\ record[d].run \in minted \union {NoRun}
    BY DEF Records
  <2>2. CASE d = DayOf(w)
    BY <1>1, <1>2, <2>1, <2>2 DEF Onward
  <2>3. CASE d # DayOf(w)
    BY <1>2, <2>1, <2>3
  <2>4. QED  BY <2>2, <2>3
<1>6. StepForward
  <2> SUFFICES ASSUME NEW d \in Days
               PROVE  /\ record'[d].run = record[d].run
                      /\ NotBehind(record'[d], record[d])
                      /\ record[d].kept => record'[d].kept
    BY DEF StepForward
  <2>1. CASE d = DayOf(w)
    BY <1>1, <1>2, <2>1 DEF Onward
  <2>2. CASE d # DayOf(w)
    <3>1. record'[d] = record[d] /\ record[d] \in RunRecord
      BY <1>2, <2>2 DEF Records
    <3>2. QED  BY <3>1, NotBehindItself
  <2>3. QED  BY <2>1, <2>2
<1>7. StepSettled
  <2> SUFFICES ASSUME NEW d \in Days, record[d].status \in Finished,
                      record'[d] # record[d]
               PROVE  worker[w].rescue /\ DayOf(w) = d
    BY DEF StepSettled
  <2>1. DayOf(w) = d
    BY <1>2
  <2>2. QED  BY <1>1, <2>1 DEF Finished
<1>8. QED
  BY <1>2, <1>4, <1>5, <1>6, <1>7 DEF DigestStep

\* save: the put succeeds, or the message is delivered again.
LEMMA SaveStep ==
    ASSUME DigestInvariant, NEW w \in Workers, NEW rec, NEW l,
           worker[w].pc \in Writing, Save(w, rec, l),
           worker[w].fresh => Onward(rec, worker[w].seen),
           worker[w].fresh => Sound(l, [record EXCEPT ![DayOf(w)] = rec]),
           UNCHANGED stepOnly
    PROVE  DigestStep
<1>1. CASE worker[w].fresh
  BY <1>1, WriteStep DEF Save
<1>2. CASE ~worker[w].fresh
  <2>1. Become(w, Only(w, "retry")) /\ UNCHANGED <<record, old>>
    BY <1>2 DEF Save
  <2>2. Busy(w)
    BY DEF Writing, Busy
  <2>3. Sound(Only(w, "retry"), record)
    BY <2>2, OnlyIsSound DEF DigestInvariant
  <2>4. UNCHANGED <<onlyWorker, faults>>
    BY <2>1 DEF stepOnly, onlyWorker
  <2>5. QED  BY <2>1, <2>3, <2>4, QuietMove
<1>3. QED  BY <1>1, <1>2

\* An invocation that has just read or written a record holds it as it is.
LEMMA HoldingIsSound ==
    ASSUME Invocations, NEW w \in Workers, Busy(w), NEW recs,
           NEW rec \in RunRecord, recs[DayOf(w)] = rec,
           NEW step \in {"begin", "touch", "work", "choose", "finish"},
           step \in {"touch", "work"} => ~Summarized(rec),
           step = "choose" => rec.phase = "evaluate",
           step # "begin" => rec.status = "running" \/ worker[w].rescue
    PROVE  Sound(Holding(w, step, rec), recs)
<1>1. worker[w].msg \in Message
  BY DayOfInvocation
<1>2. QED
  BY <1>1, HoldingFields DEF Sound, Placed, DayOf, Writing

\* One that turns to the end of its run still holds it.
LEMMA FinishingIsSound ==
    ASSUME NEW l, NEW recs, Sound(l, recs), l.pc # "idle", NEW status \in Goals,
           l.fresh /\ ~l.rescue => l.seen.status = "running"
    PROVE  Sound(Finishing(l, status), recs)
<1>1. l \in Invocation
  BY DEF Sound
<1>2. QED
  BY <1>1, FinishingFields DEF Sound, Placed

-----------------------------------------------------------------------------
(* The actions, one lemma each or one for those of a kind.                 *)

\* Requests, time and deliveries: nobody's work.
LEMMA OutsideSteps ==
    ASSUME DigestInvariant,
           \/ \E d \in Days : Request(d) \/ GoStale(d)
           \/ \E w \in Workers, m \in queue : Deliver(w, m) \/ DeliverTwice(w, m)
    PROVE  DigestStep
<1> USE DEF DigestInvariant
<1>1. ASSUME NEW d \in Days, Request(d) \/ GoStale(d) PROVE DigestStep
  <2>1. UNCHANGED <<record, worker, minted>>
    BY <1>1 DEF Request, GoStale, catalogueVars, clockVars
  <2>2. Invocations' /\ Records'
    BY <2>1 DEF Invocations, Records
  <2>3. StepForward /\ StepSettled
    BY <2>1, NotBehindItself DEF Records, StepForward, StepSettled
  <2>4. Surroundings'
    BY <1>1, MessagesAreTyped DEF Request, GoStale, catalogueVars, clockVars, Surroundings
  <2>5. QED  BY <2>2, <2>3, <2>4 DEF DigestStep
<1>2. ASSUME NEW w \in Workers, NEW m \in queue, Deliver(w, m) \/ DeliverTwice(w, m)
      PROVE  DigestStep
  <2> DEFINE l == [Idle EXCEPT !.pc = IF m.step = "start" THEN "open" ELSE "read",
                               !.msg = m]
  <2>1. m \in Message
    BY DEF Surroundings
  <2>2. /\ l \in Invocation /\ l.pc \in {"open", "read"} /\ l.msg = m /\ ~l.fresh
    BY <2>1, IdleIsSound DEF Idle, Invocation, TrySteps
  <2>3. Become(w, l) /\ UNCHANGED <<record, minted>>
    BY <1>2 DEF Deliver, DeliverTwice, Take, catalogueVars, clockVars
  <2>4. Surroundings'
    BY <1>2, BoundsAssumption DEF Deliver, DeliverTwice, Fault, catalogueVars,
       clockVars, Surroundings
  <2> HIDE DEF l
  <2>5. Sound(l, record)
    BY <2>1, <2>2 DEF Sound, Placed, Writing
  <2>6. QED  BY <2>3, <2>4, <2>5, MoveStep
<1>3. QED
  BY <1>1, <1>2

\* What GiveBack and Fails make of the queue and of what is lost.
LEMMA GiveBackTypes ==
    ASSUME DigestInvariant, NEW w \in Workers, Busy(w)
    PROVE  /\ Fails(w) => lost' \subseteq Days \X MessageSteps
           /\ GiveBack(w) => queue' \subseteq Message
<1>1. worker[w].msg \in Message /\ DayOf(w) \in Days
  BY DayOfInvocation DEF DigestInvariant
<1>2. [worker[w].msg EXCEPT !.tries = @ + 1] \in Message
  BY <1>1, MessagesAreTyped
<1>3. worker[w].msg.step \in MessageSteps
  BY <1>1 DEF Message
<1>4. QED
  BY <1>1, <1>2, <1>3 DEF Fails, GiveBack, DigestInvariant, Surroundings

\* A fault is counted up to its bound.
LEMMA FaultsCounted ==
    ASSUME Surroundings, NEW kind, Fault(kind)
    PROVE  faults' \in 0 .. MaxFaults
  BY BoundsAssumption DEF Surroundings, Fault

\* The invocation ends, by itself or by force.
LEMMA EndingSteps ==
    ASSUME DigestInvariant, NEW w \in Workers,
           Ack(w) \/ Retry(w) \/ Crash(w) \/ RescueThrows(w)
    PROVE  DigestStep
<1>1. Become(w, Idle) /\ UNCHANGED <<record, minted>> /\ Busy(w)
  BY DEF Ack, Retry, Crash, RescueThrows, GiveBack, onlyWorker, catalogueVars,
     clockVars, Busy, Throwing, TrySteps, RemoveSteps
<1>2. CASE Ack(w)
  BY <1>1, <1>2, IdleIsSound, QuietMove DEF Ack
<1>3. CASE Retry(w) \/ Crash(w) \/ RescueThrows(w)
  <2>1. GiveBack(w) /\ UNCHANGED <<old, issue, history, today, minted>>
    BY <1>3 DEF Retry, Crash, RescueThrows, catalogueVars, clockVars
  <2>2. faults' \in 0 .. MaxFaults
    BY <1>3, FaultsCounted DEF Retry, Crash, RescueThrows, DigestInvariant, Surroundings
  <2>3. queue' \subseteq Message /\ lost' \subseteq Days \X MessageSteps
    BY <1>1, <2>1, GiveBackTypes DEF GiveBack
  <2>4. Surroundings'
    BY <2>1, <2>2, <2>3 DEF DigestInvariant, Surroundings
  <2>5. QED  BY <1>1, <2>4, IdleIsSound, MoveStep
<1>4. QED  BY <1>2, <1>3

\* The messages are sent one after the other, or the message comes back.
LEMMA SendingSteps ==
    ASSUME DigestInvariant, NEW w \in Workers, Send(w) \/ SendFails(w)
    PROVE  DigestStep
<1> DEFINE ms == worker[w].out
<1>1. /\ Busy(w) /\ ms \in Seq(Message) /\ ms # <<>> /\ Invocations
      /\ UNCHANGED <<record, old, issue, history, today, minted, lost>>
  BY InvocationFields DEF Send, SendFails, Busy, DigestInvariant, Invocations, Sound,
     Placed, catalogueVars, clockVars
<1>2. Head(ms) \in Message /\ (Len(ms) # 1 => Tail(ms) \in Seq(Message) /\ Tail(ms) # <<>>)
  <2> HIDE DEF ms
  <2>1. Head(ms) \in Message /\ Tail(ms) \in Seq(Message) /\ Len(Tail(ms)) = Len(ms) - 1
    BY <1>1, HeadTailProperties
  <2>2. Len(ms) \in Nat /\ Len(<<>>) = 0
    BY <1>1
  <2>3. Len(ms) # 1 => Len(Tail(ms)) # 0
    BY <2>1, <2>2
  <2>4. QED  BY <2>1, <2>2, <2>3
<1>3. CASE Send(w)
  <2>1. Surroundings'
    BY <1>1, <1>2, <1>3 DEF Send, DigestInvariant, Surroundings
  <2>2. CASE Len(ms) = 1
    BY <1>1, <1>3, <2>1, <2>2, OnlyIsSound, MoveStep DEF Send
  <2>3. CASE Len(ms) # 1
    <3>1. Become(w, Sending(w, Tail(ms)))
      BY <1>3, <2>3 DEF Send
    <3>2. Sound(Sending(w, Tail(ms)), record)
      BY <1>1, <1>2, <2>3, SendingIsSound
    <3>3. QED  BY <1>1, <2>1, <3>1, <3>2, MoveStep
  <2>4. QED  BY <2>2, <2>3
<1>4. CASE SendFails(w)
  <2>1. Surroundings'
    BY <1>1, <1>2, <1>4, FaultsCounted DEF SendFails, DigestInvariant, Surroundings
  <2>2. QED
    BY <1>1, <1>4, <2>1, OnlyIsSound, MoveStep DEF SendFails
<1>5. QED  BY <1>3, <1>4

\* stepStart: only a run id that nobody has taken begins.
LEMMA StartSteps ==
    ASSUME DigestInvariant, NEW w \in Workers,
           OpenDay(w) \/ BeginRun(w) \/ BeginLost(w)
    PROVE  DigestStep
<1> USE DEF DigestInvariant
<1>1. Busy(w) /\ DayOf(w) \in Days /\ record[DayOf(w)] \in RunRecord
  BY DayOfInvocation DEF OpenDay, BeginRun, BeginLost, Busy, Records
<1>2. CASE OpenDay(w)
  BY <1>1, <1>2, HoldingIsSound, QuietMove DEF OpenDay
<1>3. CASE BeginLost(w)
  BY <1>1, <1>3, OnlyIsSound, QuietMove DEF BeginLost
<1>4. CASE BeginRun(w)
  <2>1. PICK r \in Runs \ minted :
          /\ Write(w, BlankRecord(r), Sending(w, <<MessageFor(DayOf(w), BlankRecord(r)),
                                                 WatchdogMessage(DayOf(w), r)>>))
          /\ minted' = minted \union {r}
    BY <1>4 DEF BeginRun
  <2> DEFINE rec == BlankRecord(r)
             ms  == <<MessageFor(DayOf(w), rec), WatchdogMessage(DayOf(w), r)>>
  <2>2. /\ rec \in RunRecord /\ rec.run = r /\ NeverDead(rec)
    BY BlankFields DEF RunOrNone
  <2>3. ms \in Seq(Message) /\ ms # <<>>
    BY <1>1, <2>2, MessagesAreTyped DEF RunOrNone
  <2> HIDE DEF rec, ms
  <2>4. Sound(Sending(w, ms), [record EXCEPT ![DayOf(w)] = rec])
    BY <1>1, <2>3, SendingIsSound
  <2>5. Write(w, rec, Sending(w, ms))
    BY <2>1 DEF rec, ms
  <2>6. /\ Invocations' /\ record' \in [Days -> RunRecord] /\ old' \in [Days -> BOOLEAN]
        /\ record'[DayOf(w)] = rec
        /\ \A d \in Days : d # DayOf(w) => record'[d] = record[d]
    BY <2>2, <2>4, <2>5, WriteKeeps DEF Records, Surroundings
  <2>7. UNCHANGED <<issue, history, queue, today, faults, lost>>
    BY <1>4 DEF BeginRun, catalogueVars
  <2>8. Surroundings'
    BY <2>1, <2>6, <2>7 DEF Surroundings
  <2>9. Records'
    <3> SUFFICES ASSUME NEW d \in Days
                 PROVE  NeverDead(record'[d]) /\ record'[d].run \in minted' \union {NoRun}
      BY <2>6 DEF Records, NeverDead, Summarized
    <3>1. QED  BY <2>1, <2>2, <2>6 DEF Records
  <2>10. StepForward /\ StepSettled
    <3> SUFFICES ASSUME NEW d \in Days
                 PROVE  \/ record'[d] = record[d]
                        \/ record'[d].run # record[d].run /\ record'[d].run \notin minted
      BY NotBehindItself DEF StepForward, StepSettled, Records
    <3>1. r \notin minted /\ r # NoRun
      BY <2>1, NoRunAssumption
    <3>2. record[d].run \in minted \union {NoRun}
      BY DEF Records
    <3>3. QED  BY <2>2, <2>6, <3>1, <3>2
  <2>11. QED  BY <2>6, <2>8, <2>9, <2>10 DEF DigestStep
<1>5. QED  BY <1>2, <1>3, <1>4

\* dispatch: what the record says decides where the message leads.
LEMMA DispatchSteps ==
    ASSUME DigestInvariant, NEW w \in Workers,
           \/ IgnoreOtherRun(w) \/ ObserveFinished(w) \/ KeepWatching(w)
           \/ FailStuckRun(w) \/ Repair(w) \/ StartStep(w)
    PROVE  DigestStep
<1> USE DEF DigestInvariant
<1>1. /\ Busy(w) /\ DayOf(w) \in Days /\ Found(w) \in RunRecord
      /\ Found(w) = record[DayOf(w)] /\ Found(w).run \in RunOrNone
      /\ UNCHANGED <<onlyWorker, faults>>
  BY DayOfInvocation DEF IgnoreOtherRun, ObserveFinished, KeepWatching, FailStuckRun,
     Repair, StartStep, OnRunning, Mine, Found, Busy, Records, RunRecord
<1>2. CASE IgnoreOtherRun(w) \/ ObserveFinished(w)
  <2>1. \E s \in {"ack", "list"} : Become(w, Only(w, s))
    BY <1>2 DEF IgnoreOtherRun, ObserveFinished, AfterObserving
  <2>2. QED  BY <1>1, <2>1, OnlyIsSound, QuietMove
<1>3. CASE KeepWatching(w) \/ Repair(w)
  <2>1. PICK m \in Message : Become(w, Sending(w, <<m>>))
    BY <1>1, <1>3, MessagesAreTyped DEF KeepWatching, Repair
  <2>2. <<m>> \in Seq(Message) /\ <<m>> # <<>>
    OBVIOUS
  <2>3. Sound(Sending(w, <<m>>), record)
    BY <1>1, <2>2, SendingIsSound
  <2>4. QED  BY <1>1, <2>1, <2>3, QuietMove
<1>4. CASE FailStuckRun(w) \/ StartStep(w)
  <2>1. Found(w).status = "running"
    BY <1>4 DEF FailStuckRun, StartStep, OnRunning
  <2>2. ASSUME NEW status \in Goals
        PROVE  Sound(Finishing(Holding(w, "finish", Found(w)), status), record)
    <3>1. Sound(Holding(w, "finish", Found(w)), record)
      BY <1>1, <2>1, HoldingIsSound
    <3>2. /\ Holding(w, "finish", Found(w)).pc = "finish"
          /\ Holding(w, "finish", Found(w)).seen = Found(w)
      BY <1>1, HoldingFields
    <3>3. QED  BY <2>1, <3>1, <3>2, FinishingIsSound
  <2>3. ~Summarized(Found(w)) => Sound(Holding(w, "touch", Found(w)), record)
    BY <1>1, <2>1, HoldingIsSound
  <2>4. CASE \E status \in Goals :
                Become(w, Finishing(Holding(w, "finish", Found(w)), status))
    BY <1>1, <2>2, <2>4, QuietMove
  <2>5. CASE ~Summarized(Found(w)) /\ Become(w, Holding(w, "touch", Found(w)))
    BY <1>1, <2>3, <2>5, QuietMove
  <2>6. QED
    BY <1>4, <2>4, <2>5 DEF FailStuckRun, StartStep, FirstMove, WithoutSummaries,
       Goals, Finished
<1>5. QED  BY <1>2, <1>3, <1>4

\* What is saved is a record of the run that goes on from the one held.
LEMMA SaveAndSendStep ==
    ASSUME DigestInvariant, NEW w \in Workers, NEW rec \in RunRecord,
           worker[w].pc \in Writing, SaveAndSend(w, rec),
           worker[w].fresh => Onward(rec, worker[w].seen), UNCHANGED stepOnly
    PROVE  DigestStep
<1>1. Busy(w) /\ DayOf(w) \in Days
  BY DayOfInvocation DEF DigestInvariant, Busy, Writing
<1>2. <<MessageFor(DayOf(w), rec)>> \in Seq(Message)
  BY <1>1, MessagesAreTyped
<1>3. Sound(Sending(w, <<MessageFor(DayOf(w), rec)>>), [record EXCEPT ![DayOf(w)] = rec])
  BY <1>1, <1>2, SendingIsSound DEF DigestInvariant
<1>4. QED
  BY <1>3, SaveStep DEF SaveAndSend

\* What an invocation at work knows of the record it holds.
LEMMA AtWork ==
    ASSUME DigestInvariant, NEW w \in Workers, worker[w].pc \in Writing
    PROVE  /\ Busy(w) /\ DayOf(w) \in Days /\ Invocations
           /\ worker[w].seen \in RunRecord
           /\ worker[w].fresh => /\ NeverDead(worker[w].seen)
                                 /\ \/ worker[w].seen.status = "running"
                                    \/ worker[w].rescue
           /\ worker[w].pc \in {"touch", "work"} => ~Summarized(worker[w].seen)
           /\ worker[w].pc = "choose" => worker[w].seen.phase = "evaluate"
           /\ [record EXCEPT ![DayOf(w)] = worker[w].seen][DayOf(w)] = worker[w].seen
<1>1. Busy(w) /\ DayOf(w) \in Days /\ worker[w].seen \in RunRecord
  BY DayOfInvocation DEF DigestInvariant, Busy, Writing
<1>2. Sound(worker[w], record) /\ record \in [Days -> RunRecord]
  BY DEF DigestInvariant, Invocations, Records
<1>3. worker[w].fresh => NeverDead(worker[w].seen)
  BY <1>1, <1>2 DEF Sound, DayOf, DigestInvariant, Records
<1>4. QED
  BY <1>1, <1>2, <1>3 DEF Sound, Placed, DigestInvariant

\* An invocation that has saved rec holds it.
LEMMA SavedIsHeld ==
    ASSUME DigestInvariant, NEW w \in Workers, worker[w].pc \in Writing,
           NEW rec \in RunRecord,
           NEW step \in {"touch", "work", "choose", "finish"},
           step \in {"touch", "work"} => ~Summarized(rec),
           step = "choose" => rec.phase = "evaluate",
           rec.status = "running" \/ worker[w].rescue
    PROVE  Sound(Holding(w, step, rec), [record EXCEPT ![DayOf(w)] = rec])
<1>1. Busy(w) /\ DayOf(w) \in Days /\ Invocations
  BY AtWork
<1>2. [record EXCEPT ![DayOf(w)] = rec][DayOf(w)] = rec
  BY <1>1 DEF DigestInvariant, Records
<1>3. QED
  BY <1>1, <1>2, HoldingIsSound

\* touch and stepPlan.
LEMMA TouchAndPlan ==
    ASSUME DigestInvariant, NEW w \in Workers, Touch(w) \/ PlanPage(w)
    PROVE  DigestStep
<1> DEFINE rec == worker[w].seen
<1>1. worker[w].pc \in Writing /\ worker[w].pc \in {"touch", "work"} /\ UNCHANGED stepOnly
  BY DEF Touch, PlanPage, Writing
<1>2. /\ rec \in RunRecord /\ ~Summarized(rec)
      /\ worker[w].fresh => NeverDead(rec) /\ (rec.status = "running" \/ worker[w].rescue)
  BY <1>1, AtWork
<1>3. CASE Touch(w)
  <2>1. worker[w].fresh => Onward(rec, rec)
    BY <1>2, NotBehindItself DEF Onward
  <2>2. worker[w].fresh =>
            Sound(Holding(w, "work", rec), [record EXCEPT ![DayOf(w)] = rec])
    BY <1>1, <1>2, SavedIsHeld
  <2>3. QED  BY <1>1, <1>3, <2>1, <2>2, SaveStep DEF Touch
<1>4. CASE PlanPage(w)
  <2>0. rec.phase = "plan"
    BY <1>4 DEF PlanPage
  <2>1. CASE SaveAndSend(w, [rec EXCEPT !.cursor = @ + 1])
    <3> DEFINE next == [rec EXCEPT !.cursor = @ + 1]
    <3>1. /\ next \in RunRecord /\ next.phase = rec.phase /\ next.run = rec.run
          /\ next.cursor = rec.cursor + 1 /\ next.kept = rec.kept
          /\ next.phase = "plan"
      BY <1>2, <2>0 DEF RunRecord
    <3> HIDE DEF next
    <3>2. Onward(next, rec)
      BY <1>2, <3>1 DEF Onward, NeverDead, Summarized, NotBehind, RunRecord
    <3>3. QED  BY <1>1, <2>1, <3>1, <3>2, SaveAndSendStep DEF next
  <2>2. CASE \E n \in 0 .. MaxRefs :
               SaveAndSend(w, [rec EXCEPT !.phase = "evaluate", !.cursor = 0, !.size = n])
    <3>1. PICK n \in 0 .. MaxRefs :
               SaveAndSend(w, [rec EXCEPT !.phase = "evaluate", !.cursor = 0, !.size = n])
      BY <2>2
    <3> DEFINE next == [rec EXCEPT !.phase = "evaluate", !.cursor = 0, !.size = n]
    <3>2. /\ next \in RunRecord /\ next.phase = "evaluate" /\ next.run = rec.run
          /\ next.kept = rec.kept /\ rec.phase = "plan"
      <4>1. n \in Nat /\ "evaluate" \in Phases
        BY BoundsAssumption DEF Phases
      <4>2. rec \in RunRecord
        BY <1>2
      <4>3. QED  BY <2>0, <4>1, <4>2 DEF RunRecord
    <3> HIDE DEF next
    <3>3. Onward(next, rec)
      BY <1>2, <3>2 DEF Onward, NeverDead, Summarized, NotBehind, Rank
    <3>4. QED  BY <1>1, <3>1, <3>2, <3>3, SaveAndSendStep DEF next
  <2>3. QED  BY <1>4, <2>1, <2>2 DEF PlanPage
<1>5. QED  BY <1>3, <1>4

\* stepEvaluate and beginSummarize.
LEMMA EvaluateAndChoose ==
    ASSUME DigestInvariant, NEW w \in Workers,
           Evaluate(w) \/ ChooseNone(w) \/ Choose(w)
    PROVE  DigestStep
<1> DEFINE rec == worker[w].seen
<1>1. worker[w].pc \in Writing
  BY DEF Evaluate, ChooseNone, Choose, Writing
<1>2. /\ rec \in RunRecord /\ Busy(w)
      /\ worker[w].fresh => NeverDead(rec) /\ (rec.status = "running" \/ worker[w].rescue)
      /\ worker[w].pc = "choose" => rec.phase = "evaluate"
  BY <1>1, AtWork
<1>3. CASE Evaluate(w)
  <2>1. rec.phase = "evaluate" /\ UNCHANGED stepOnly
    BY <1>3 DEF Evaluate
  <2>2. PICK e \in Evaluations(rec, Last(w)) :
          LET next == [rec EXCEPT !.cursor = e.cursor, !.exhausted = e.exhausted]
          IN  IF e.done THEN Save(w, next, Holding(w, "choose", next))
                        ELSE SaveAndSend(w, next)
    BY <1>3 DEF Evaluate
  <2>3. e.cursor \in Nat /\ e.cursor >= rec.cursor /\ e.exhausted \in BOOLEAN
    BY <1>2 DEF Evaluations, RunRecord
  <2> DEFINE next == [rec EXCEPT !.cursor = e.cursor, !.exhausted = e.exhausted]
  <2>4. /\ next \in RunRecord /\ next.phase = "evaluate" /\ next.run = rec.run
        /\ next.cursor = e.cursor /\ next.kept = rec.kept /\ next.status = rec.status
    BY <1>2, <2>1, <2>3 DEF RunRecord
  <2>5. \/ Save(w, next, Holding(w, "choose", next))
        \/ SaveAndSend(w, next)
    BY <2>2
  <2> HIDE DEF next
  <2>6. Onward(next, rec)
    BY <2>1, <2>3, <2>4 DEF Onward, NeverDead, Summarized, NotBehind
  <2>7. CASE SaveAndSend(w, next)
    BY <1>1, <2>1, <2>4, <2>6, <2>7, SaveAndSendStep
  <2>8. CASE Save(w, next, Holding(w, "choose", next))
    <3>1. worker[w].fresh =>
            Sound(Holding(w, "choose", next), [record EXCEPT ![DayOf(w)] = next])
      BY <1>1, <1>2, <2>4, SavedIsHeld
    <3>2. QED  BY <1>1, <2>1, <2>6, <2>8, <3>1, SaveStep
  <2>9. QED  BY <2>5, <2>7, <2>8
<1>4. CASE ChooseNone(w)
  <2>1. WithoutSummaries(rec) \in Goals
    BY DEF WithoutSummaries, Goals, Finished
  <2>2. worker[w].fresh /\ ~worker[w].rescue => rec.status = "running"
    BY <1>2
  <2>3. Sound(worker[w], record) /\ worker[w].pc # "idle"
    BY <1>2 DEF DigestInvariant, Invocations, Busy
  <2>4. Sound(Finishing(worker[w], WithoutSummaries(rec)), record)
    BY <2>1, <2>2, <2>3, FinishingIsSound
  <2>5. QED  BY <1>4, <2>4, QuietMove DEF ChooseNone
<1>5. CASE Choose(w)
  <2>1. PICK n \in 1 .. MaxPicks :
          SaveAndSend(w, [rec EXCEPT !.phase = "summarize", !.cursor = 0, !.size = n])
    BY <1>5 DEF Choose
  <2> DEFINE next == [rec EXCEPT !.phase = "summarize", !.cursor = 0, !.size = n]
  <2>2. /\ next \in RunRecord /\ next.phase = "summarize" /\ next.run = rec.run
        /\ next.kept = rec.kept /\ next.cursor = 0 /\ next.size = n
        /\ n \in Nat \ {0} /\ rec.phase = "evaluate"
    <3>1. n \in Nat \ {0} /\ n \in Nat
      BY BoundsAssumption
    <3>2. rec.phase = "evaluate"
      BY <1>2, <1>5 DEF Choose
    <3>3. "summarize" \in Phases
      BY DEF Phases
    <3>4. rec \in RunRecord
      BY <1>2
    <3>5. QED  BY <3>1, <3>2, <3>3, <3>4 DEF RunRecord
  <2> HIDE DEF next
  <2>3. Onward(next, rec)
    BY <2>2 DEF Onward, NeverDead, Summarized, NotBehind, Rank
  <2>4. QED  BY <1>1, <1>5, <2>1, <2>2, <2>3, SaveAndSendStep DEF next, Choose
<1>6. QED  BY <1>3, <1>4, <1>5

\* stepSummarize: the last summary decides between publishing and finishing.
LEMMA SummarizeStep ==
    ASSUME DigestInvariant, NEW w \in Workers, Summarize(w)
    PROVE  DigestStep
<1> DEFINE held == worker[w].seen
<1>1. /\ worker[w].pc \in Writing /\ worker[w].pc = "work" /\ held.phase = "summarize"
      /\ UNCHANGED stepOnly
  BY DEF Summarize, Writing
<1>2. /\ held \in RunRecord /\ ~Summarized(held)
      /\ worker[w].fresh => held.status = "running" \/ worker[w].rescue
  BY <1>1, AtWork
<1>3. PICK good \in BOOLEAN :
        LET counted == [held EXCEPT !.cursor = @ + 1, !.kept = @ \/ good,
                                    !.exhausted = @ \/ Last(w)]
            rec == [counted EXCEPT !.phase = PhaseAfter(counted)]
        IN  IF Summarized(rec)
            THEN Save(w, rec, Finishing(Holding(w, "finish", rec), WithoutSummaries(rec)))
            ELSE SaveAndSend(w, rec)
  BY DEF Summarize
<1> DEFINE counted == [held EXCEPT !.cursor = @ + 1, !.kept = @ \/ good,
                                   !.exhausted = @ \/ Last(w)]
           rec == [counted EXCEPT !.phase = PhaseAfter(counted)]
<1>4. /\ counted \in RunRecord /\ counted.cursor = held.cursor + 1
      /\ counted.size = held.size /\ counted.run = held.run
      /\ counted.status = held.status /\ (held.kept => counted.kept)
  <2> DEFINE n == held.cursor + 1
             k == held.kept \/ good
             x == held.exhausted \/ Last(w)
  <2>1. k \in BOOLEAN /\ x \in BOOLEAN /\ (held.kept => k)
    OBVIOUS
  <2>2. n \in Nat /\ held \in RunRecord
    BY <1>2 DEF RunRecord
  <2>3. counted = [held EXCEPT !.cursor = n, !.kept = k, !.exhausted = x]
    OBVIOUS
  <2> HIDE DEF counted, n, k, x, held
  <2>4. /\ counted \in RunRecord /\ counted.cursor = n /\ counted.size = held.size
        /\ counted.run = held.run /\ counted.status = held.status /\ counted.kept = k
    BY <2>1, <2>2, <2>3, Zenon DEF RunRecord
  <2>5. QED  BY <2>1, <2>4 DEF n
<1>5. PhaseAfter(counted) \in {"summarize", "publish"}
  BY DEF PhaseAfter
<1>6. /\ rec \in RunRecord /\ rec.cursor = counted.cursor /\ rec.size = counted.size
      /\ rec.run = counted.run /\ rec.status = counted.status /\ rec.kept = counted.kept
      /\ rec.phase = PhaseAfter(counted)
  <2> HIDE DEF counted
  <2>1. QED  BY <1>4, <1>5 DEF RunRecord, Phases
<1>7. IF Summarized(rec)
      THEN Save(w, rec, Finishing(Holding(w, "finish", rec), WithoutSummaries(rec)))
      ELSE SaveAndSend(w, rec)
  BY <1>3
<1> HIDE DEF counted, rec
<1>8. Onward(rec, held)
  <2>1. held.cursor < held.size /\ held.cursor \in Nat /\ held.size \in Nat
    BY <1>1, <1>2 DEF Summarized, RunRecord
  <2>2. NeverDead(rec)
    BY <1>4, <1>6, <2>1 DEF NeverDead, Summarized, PhaseAfter
  <2>3. NotBehind(rec, held)
    BY <1>1, <1>4, <1>5, <1>6, <2>1 DEF NotBehind, Rank
  <2>4. QED  BY <1>4, <1>6, <2>2, <2>3 DEF Onward
<1>9. CASE ~Summarized(rec)
  BY <1>1, <1>6, <1>7, <1>8, <1>9, SaveAndSendStep
<1>10. CASE Summarized(rec)
  <2>1. worker[w].fresh =>
          Sound(Holding(w, "finish", rec), [record EXCEPT ![DayOf(w)] = rec])
    BY <1>1, <1>2, <1>4, <1>6, SavedIsHeld
  <2>2. /\ Holding(w, "finish", rec).pc = "finish" /\ Holding(w, "finish", rec).seen = rec
        /\ Holding(w, "finish", rec).rescue = worker[w].rescue
    BY <1>6, HoldingFields DEF DigestInvariant
  <2>3. WithoutSummaries(rec) \in Goals
    BY DEF WithoutSummaries, Goals, Finished
  <2>4. worker[w].fresh =>
          Sound(Finishing(Holding(w, "finish", rec), WithoutSummaries(rec)),
                [record EXCEPT ![DayOf(w)] = rec])
    BY <1>2, <1>4, <1>6, <2>1, <2>2, <2>3, FinishingIsSound
  <2>5. QED  BY <1>1, <1>7, <1>8, <1>10, <2>4, SaveStep
<1>11. QED  BY <1>9, <1>10

\* Removing goes on with fewer issues, with the history, or ends.
LEMMA RemovingIsSound ==
    ASSUME DigestInvariant, NEW w \in Workers, worker[w].pc \in RemoveSteps,
           NEW ds \in SUBSET Days
    PROVE  Sound(Removing(w, ds), record)
<1>1. /\ Busy(w) /\ worker[w].pc \in Writing /\ Invocations
      /\ worker[w] \in Invocation /\ Sound(worker[w], record)
  BY DEF Busy, Writing, RemoveSteps, DigestInvariant, Invocations
<1>2. CASE ds # {}
  <2> DEFINE l == [worker[w] EXCEPT !.pc = "delete", !.doomed = ds]
  <2>1. /\ l \in Invocation /\ l.pc = "delete" /\ l.msg = worker[w].msg
        /\ l.seen = worker[w].seen /\ l.fresh = worker[w].fresh
        /\ l.rescue = worker[w].rescue
    BY <1>1 DEF Invocation, RemoveSteps
  <2>2. Sound(l, record)
    <3> HIDE DEF l
    <3>1. QED  BY <1>1, <2>1 DEF Sound, Placed, Busy
  <2>3. QED  BY <1>2, <2>2 DEF Removing
<1>3. CASE ds = {} /\ Publishing(w)
  <2> DEFINE l == [worker[w] EXCEPT !.pc = "history", !.doomed = {}]
  <2>1. /\ l \in Invocation /\ l.pc = "history" /\ l.msg = worker[w].msg
        /\ l.seen = worker[w].seen /\ l.fresh = worker[w].fresh
        /\ l.rescue = worker[w].rescue
    BY <1>1 DEF Invocation, TrySteps
  <2>2. Sound(l, record)
    <3> HIDE DEF l
    <3>1. QED  BY <1>1, <2>1 DEF Sound, Placed, Busy
  <2>3. QED  BY <1>3, <2>2 DEF Removing
<1>4. CASE ds = {} /\ ~Publishing(w)
  BY <1>1, <1>4, OnlyIsSound DEF Removing
<1>5. QED  BY <1>2, <1>3, <1>4

\* stepPublish and removeDailyDigests touch the catalogue and the history.
LEMMA PublishSteps ==
    ASSUME DigestInvariant, NEW w \in Workers,
           \/ StoreIssue(w) \/ ListIssues(w) \/ DeleteIssue(w)
           \/ RemovalFails(w) \/ ReplaceHistory(w)
    PROVE  DigestStep
<1>1. /\ worker[w].pc \in Writing
      /\ UNCHANGED <<record, old, queue, today, minted>>
  BY DEF StoreIssue, ListIssues, DeleteIssue, RemovalFails, ReplaceHistory, Writing,
     RemoveSteps, onlyWorker, catalogueVars, clockVars
<1>2. /\ Busy(w) /\ DayOf(w) \in Days /\ worker[w].seen.run \in RunOrNone
      /\ Invocations /\ worker[w] \in Invocation /\ Sound(worker[w], record)
  BY <1>1, AtWork DEF RunRecord, DigestInvariant, Invocations
<1>3. CASE StoreIssue(w)
  <2> DEFINE l == [worker[w] EXCEPT !.pc = "list", !.goal = "published"]
  <2>1. /\ l \in Invocation /\ l.pc = "list" /\ l.msg = worker[w].msg
        /\ l.seen = worker[w].seen /\ l.fresh = worker[w].fresh
        /\ l.rescue = worker[w].rescue
    BY <1>2 DEF Invocation, RemoveSteps, Goals, Finished
  <2>2. Become(w, l)
    BY <1>3 DEF StoreIssue
  <2> HIDE DEF l
  <2>3. Sound(l, record)
    BY <1>1, <1>2, <2>1 DEF Sound, Placed, Busy
  <2>4. Surroundings'
    BY <1>1, <1>2, <1>3 DEF StoreIssue, DigestInvariant, Surroundings, clockVars
  <2>5. QED  BY <1>1, <2>2, <2>3, <2>4, MoveStep
<1>4. CASE ListIssues(w)
  <2> DEFINE ds == {d \in Days : issue[d] # NoRun} \ Excepted(w)
  <2>1. Sound(Removing(w, ds), record)
    BY <1>4, RemovingIsSound DEF ListIssues, RemoveSteps
  <2>2. QED  BY <1>4, <2>1, QuietMove DEF ListIssues
<1>5. CASE DeleteIssue(w)
  <2>1. PICK d \in worker[w].doomed :
          /\ issue' = [issue EXCEPT ![d] = NoRun]
          /\ Become(w, Removing(w, worker[w].doomed \ {d}))
    BY <1>5 DEF DeleteIssue
  <2>2. worker[w].doomed \ {d} \in SUBSET Days
    BY <1>2, InvocationFields
  <2>3. Sound(Removing(w, worker[w].doomed \ {d}), record)
    BY <1>5, <2>2, RemovingIsSound DEF DeleteIssue, RemoveSteps
  <2>4. Surroundings'
    BY <1>1, <1>5, <2>1 DEF DeleteIssue, DigestInvariant, Surroundings, RunOrNone, clockVars
  <2>5. QED  BY <1>1, <2>1, <2>3, <2>4, MoveStep
<1>6. CASE RemovalFails(w)
  <2>1. lost' \subseteq Days \X MessageSteps /\ faults' \in 0 .. MaxFaults
    BY <1>2, <1>6, GiveBackTypes, FaultsCounted DEF RemovalFails, DigestInvariant
  <2>2. Surroundings'
    BY <1>1, <1>6, <2>1 DEF RemovalFails, DigestInvariant, Surroundings, catalogueVars
  <2>3. \E s \in {"ack", "retry"} : Become(w, Only(w, s))
    BY <1>6 DEF RemovalFails
  <2>4. QED  BY <1>1, <1>2, <2>2, <2>3, OnlyIsSound, MoveStep
<1>7. CASE ReplaceHistory(w)
  <2> DEFINE l == [worker[w] EXCEPT !.pc = "finish"]
  <2>1. /\ l \in Invocation /\ l.pc = "finish" /\ l.msg = worker[w].msg
        /\ l.seen = worker[w].seen /\ l.fresh = worker[w].fresh
        /\ l.rescue = worker[w].rescue
    BY <1>2 DEF Invocation, TrySteps
  <2>2. Become(w, l)
    BY <1>7 DEF ReplaceHistory, Goto
  <2> HIDE DEF l
  <2>3. Sound(l, record)
    BY <1>1, <1>2, <2>1 DEF Sound, Placed, Busy
  <2>4. Surroundings'
    BY <1>1, <1>2, <1>7 DEF ReplaceHistory, DigestInvariant, Surroundings, clockVars
  <2>5. QED  BY <1>1, <2>2, <2>3, <2>4, MoveStep
<1>8. QED  BY <1>3, <1>4, <1>5, <1>6, <1>7

\* finishPublished, finishEmpty and failDay.
LEMMA FinishSteps ==
    ASSUME DigestInvariant, NEW w \in Workers,
           Finish(w) \/ FinishLost(w) \/ AckSettled(w) \/ LeaveUnsaved(w)
    PROVE  DigestStep
<1>1. worker[w].pc \in Writing
  BY DEF Finish, FinishLost, AckSettled, LeaveUnsaved, Writing
<1>2. /\ Busy(w) /\ DayOf(w) \in Days /\ worker[w].seen \in RunRecord
      /\ worker[w].fresh => NeverDead(worker[w].seen)
      /\ Invocations /\ worker[w] \in Invocation /\ Sound(worker[w], record)
  BY <1>1, AtWork DEF DigestInvariant, Invocations
<1>3. CASE Finish(w)
  <2> DEFINE held == worker[w].seen
             rec  == [held EXCEPT !.status = worker[w].goal]
             l    == Only(w, IF worker[w].goal = "published" THEN "ack" ELSE "list")
  <2>1. /\ rec \in RunRecord /\ rec.phase = held.phase /\ rec.cursor = held.cursor
        /\ rec.run = held.run /\ rec.kept = held.kept /\ rec.size = held.size
    BY <1>2, InvocationFields DEF RunRecord, Goals
  <2>2. Write(w, rec, l) /\ worker[w].fresh /\ UNCHANGED stepOnly
    BY <1>3 DEF Finish
  <2>3. Sound(l, [record EXCEPT ![DayOf(w)] = rec])
    BY <1>2, OnlyIsSound
  <2> HIDE DEF rec, l
  <2>4. Onward(rec, held)
    BY <1>2, <2>1, <2>2 DEF Onward, NeverDead, Summarized, NotBehind, RunRecord
  <2>5. QED  BY <1>1, <2>2, <2>3, <2>4, WriteStep
<1>4. CASE FinishLost(w)
  <2>1. CASE worker[w].goal = "failed"
    <3> DEFINE l == [worker[w] EXCEPT !.pc = "recheck"]
    <3>1. /\ l \in Invocation /\ l.pc = "recheck" /\ l.msg = worker[w].msg
          /\ l.seen = worker[w].seen /\ l.fresh = worker[w].fresh
          /\ l.rescue = worker[w].rescue
      BY <1>2 DEF Invocation, LastSteps
    <3>2. Become(w, l) /\ UNCHANGED <<onlyWorker, faults>>
      BY <1>4, <2>1 DEF FinishLost
    <3> HIDE DEF l
    <3>3. Sound(l, record)
      BY <1>1, <1>2, <3>1 DEF Sound, Placed, Busy
    <3>4. QED  BY <3>2, <3>3, QuietMove
  <2>2. CASE worker[w].goal # "failed"
    BY <1>2, <1>4, <2>2, OnlyIsSound, QuietMove DEF FinishLost
  <2>3. QED  BY <2>1, <2>2
<1>5. CASE AckSettled(w)
  BY <1>2, <1>5, OnlyIsSound, QuietMove DEF AckSettled
<1>6. CASE LeaveUnsaved(w)
  <2>1. lost' \subseteq Days \X MessageSteps /\ faults' \in 0 .. MaxFaults
    BY <1>2, <1>6, GiveBackTypes, FaultsCounted DEF LeaveUnsaved, DigestInvariant,
       Surroundings
  <2>2. Surroundings' /\ UNCHANGED <<record, minted>>
    BY <1>6, <2>1 DEF LeaveUnsaved, DigestInvariant, Surroundings, catalogueVars,
       clockVars
  <2>3. \E s \in {"ack", "retry"} : Become(w, Only(w, s))
    BY <1>6 DEF LeaveUnsaved
  <2>4. QED  BY <1>2, <2>2, <2>3, OnlyIsSound, MoveStep
<1>7. QED  BY <1>3, <1>4, <1>5, <1>6

\* An exception, and the catch block.
LEMMA CatchSteps ==
    ASSUME DigestInvariant, NEW w \in Workers,
           Throw(w) \/ RescueNothing(w) \/ RescueUnreadable(w) \/ Rescue(w)
    PROVE  DigestStep
<1>1. /\ Busy(w) /\ DayOf(w) \in Days /\ worker[w].msg \in Message /\ Invocations
      /\ record[DayOf(w)] \in RunRecord
  BY DayOfInvocation DEF Throw, Throwing, RescueNothing, RescueUnreadable, Rescue, Busy,
     TrySteps, RemoveSteps, DigestInvariant, Records
<1>2. CASE Throw(w)
  <2>1. faults' \in 0 .. MaxFaults
    BY <1>2, FaultsCounted DEF Throw, DigestInvariant
  <2>2. Surroundings' /\ UNCHANGED <<record, minted>>
    BY <1>2, <2>1 DEF Throw, DigestInvariant, Surroundings, onlyWorker, catalogueVars,
       clockVars
  <2>3. \E s \in {"rescue", "retry"} : Become(w, Only(w, s))
    BY <1>2 DEF Throw
  <2>4. QED  BY <1>1, <2>2, <2>3, OnlyIsSound, MoveStep
<1>3. CASE RescueNothing(w)
  BY <1>1, <1>3, OnlyIsSound, QuietMove DEF RescueNothing
<1>4. CASE RescueUnreadable(w)
  <2>1. lost' \subseteq Days \X MessageSteps /\ faults' \in 0 .. MaxFaults
    BY <1>1, <1>4, GiveBackTypes, FaultsCounted DEF RescueUnreadable, DigestInvariant
  <2>2. Surroundings' /\ UNCHANGED <<record, minted>>
    BY <1>4, <2>1 DEF RescueUnreadable, DigestInvariant, Surroundings, catalogueVars,
       clockVars
  <2>3. QED  BY <1>1, <1>4, <2>2, OnlyIsSound, MoveStep DEF RescueUnreadable
<1>5. CASE Rescue(w)
  <2> DEFINE held == Finishing(Holding(w, "finish", Found(w)), "failed")
             l    == [held EXCEPT !.rescue = TRUE]
  <2>1. /\ held \in Invocation /\ held.pc = "finish" /\ held.seen = Found(w)
        /\ held.msg = worker[w].msg
    BY <1>1, HoldingFields, FinishingFields DEF Found, Goals, Finished
  <2>2. /\ l \in Invocation /\ l.pc = "finish" /\ l.seen = Found(w)
        /\ l.msg = worker[w].msg /\ l.rescue = TRUE
    <3> HIDE DEF held
    <3>1. QED  BY <2>1 DEF Invocation
  <2>3. Become(w, l) /\ UNCHANGED <<onlyWorker, faults>>
    BY <1>5 DEF Rescue
  <2> HIDE DEF l
  <2>4. Sound(l, record)
    BY <1>1, <2>2 DEF Sound, Placed, Found, DayOf
  <2>5. QED  BY <2>3, <2>4, QuietMove
<1>6. QED  BY <1>2, <1>3, <1>4, <1>5

-----------------------------------------------------------------------------
\* Before the first request nothing is recorded, and nobody is at work.
LEMMA DigestInvariantInit == Init => DigestInvariant
<1> SUFFICES ASSUME Init PROVE DigestInvariant
  OBVIOUS
<1>1. Invocations
  BY IdleIsSound DEF Init, Invocations
<1>2. Records
  BY NoRecordFields DEF Init, Records
<1>3. Surroundings
  BY DaysAssumption, BoundsAssumption DEF Init, Surroundings, Days, RunOrNone
<1>4. QED
  BY <1>1, <1>2, <1>3 DEF DigestInvariant

\* Every step keeps the invariant, takes runs only on and leaves finished ones.
LEMMA DigestInvariantKept == DigestInvariant /\ [Next]_vars => DigestStep
<1> SUFFICES ASSUME DigestInvariant, [Next]_vars PROVE DigestStep
  OBVIOUS
<1>1. CASE UNCHANGED vars
  <2>1. Invocations' /\ Records' /\ Surroundings'
    BY <1>1 DEF vars, DigestInvariant, Invocations, Records, Surroundings
  <2>2. StepForward /\ StepSettled
    BY <1>1, NotBehindItself DEF vars, DigestInvariant, Records, StepForward, StepSettled
  <2>3. QED  BY <2>1, <2>2 DEF DigestStep
<1>2. CASE \/ \E d \in Days : Request(d) \/ GoStale(d)
           \/ \E w \in Workers, m \in queue : Deliver(w, m) \/ DeliverTwice(w, m)
  BY <1>2, OutsideSteps
<1>3. ASSUME NEW w \in Workers, Step(w) PROVE DigestStep
  BY <1>3, EndingSteps, SendingSteps, StartSteps, DispatchSteps, TouchAndPlan,
     EvaluateAndChoose, SummarizeStep, PublishSteps, FinishSteps, CatchSteps DEF Step
<1>4. ASSUME NEW w \in Workers, Mishap(w) PROVE DigestStep
  BY <1>4, EndingSteps, SendingSteps, PublishSteps, CatchSteps DEF Mishap
<1>5. QED
  BY <1>1, <1>2, <1>3, <1>4 DEF Next

\* The invariant of the digest.
LEMMA DigestInvariantHolds == Spec => []DigestInvariant
<1>1. DigestInvariant /\ [Next]_vars => DigestInvariant'
  BY DigestInvariantKept DEF DigestStep, DigestInvariant
<1>2. QED
  BY <1>1, DigestInvariantInit, PTL DEF Spec

-----------------------------------------------------------------------------
\* The records, the queue and the invocations keep their types (TypeOK).
THEOREM DigestIsTyped == Spec => []TypeOK
<1>1. DigestInvariant => TypeOK
  BY DEF DigestInvariant, Invocations, Records, Surroundings, TypeOK
<1>2. QED
  BY <1>1, DigestInvariantHolds, PTL

(***************************************************************************)
(* Whoever holds a current etag holds the record as it is, which is what   *)
(* the conditional put of daily/run-store.ts is for (FreshIsCurrent).      *)
(***************************************************************************)
THEOREM EtagsAreCurrent == Spec => []FreshIsCurrent
<1>1. DigestInvariant => FreshIsCurrent
  BY DEF DigestInvariant, Invocations, Sound, FreshIsCurrent, DayOf
<1>2. QED
  BY <1>1, DigestInvariantHolds, PTL

(***************************************************************************)
(* The branches of stepSummarize and stepPublish in daily/deliver.ts that  *)
(* expect summaries where there are none, or none where there are some,    *)
(* are never taken, on any redelivery (DeadBranches).                      *)
(***************************************************************************)
THEOREM BranchesAreDead == Spec => []DeadBranches
<1>1. DigestInvariant => DeadBranches
  BY DEF DigestInvariant, Records, NeverDead, DeadBranches
<1>2. QED
  BY <1>1, DigestInvariantHolds, PTL

(***************************************************************************)
(* However its messages are repeated and its invocations overlap, a run    *)
(* never falls back, loses a summary or returns once another has taken its *)
(* day (OnlyForward: putRun of daily/run-store.ts).                        *)
(***************************************************************************)
THEOREM RunsOnlyGoForward == Spec => OnlyForward
<1>1. DigestInvariant /\ [Next]_vars =>
        [\A d \in Days :
           IF record'[d].run = record[d].run
           THEN /\ NotBehind(record'[d], record[d])
                /\ record[d].kept => record'[d].kept
           ELSE record'[d].run \notin minted]_vars
  BY DigestInvariantKept DEF DigestStep, StepForward
<1>2. QED
  BY <1>1, DigestInvariantHolds, PTL DEF Spec, OnlyForward

(***************************************************************************)
(* A finished run stays as it is, except for the catch block of a last     *)
(* delivery (FinishedStays: alignOrRepair, processDigestDelivery), with    *)
(* any number of invocations at work.                                      *)
(***************************************************************************)
THEOREM FinishedRunsStay == Spec => FinishedStays
<1>1. DigestInvariant /\ [Next]_vars =>
        [\A d \in Days :
           /\ record[d].status \in Finished
           /\ record'[d].run = record[d].run
           => \/ record'[d] = record[d]
              \/ \E w \in Workers : worker[w].rescue /\ DayOf(w) = d]_vars
  BY DigestInvariantKept DEF DigestStep, StepSettled
<1>2. QED
  BY <1>1, DigestInvariantHolds, PTL DEF Spec, FinishedStays


-----------------------------------------------------------------------------
(***************************************************************************)
(* The first run of all: what PublishedIsThere and QuietCatalogue rest on  *)
(* while no run id but r is taken.  A run that is published has everything *)
(* in place, because nobody removes issues before a run has failed or      *)
(* stayed empty; and one that failed or stayed empty leaves an issue       *)
(* behind only while somebody will come back to it (Cleared): a message    *)
(* of the run that waits, or an invocation that does not acknowledge its   *)
(* message before it has looked through the catalogue (Clears).            *)
(***************************************************************************)
\* A message other than a start is about r, on the day that r took.
AboutRun(m, r, recs) == m.step # "start" => m.run = r /\ recs[m.day].run = r

Unsuccessful == {"empty", "failed"}
Removes(l)   == l.pc \in RemoveSteps /\ l.goal # "published"
Publishes(l) == l.pc \in {"list", "history", "finish"} /\ l.goal = "published"

\* The steps at which an invocation holds the record of a run that has begun.
Holds(l) == l.pc \in {"touch", "work", "choose", "finish", "recheck"} \/ Publishes(l)

Final(l) == isFinalDigestAttempt(l.msg)

\* What does not depend on the records: where an invocation stands.
WellPlaced(l) ==
    /\ l.pc = "history" => l.goal = "published"
    /\ l.pc = "delete" => l.goal # "published"
    /\ l.pc = "finish" => l.goal \in Finished
    /\ l.pc \in {"read", "touch", "work", "choose"} \/ Publishes(l) => l.msg.step # "start"
    /\ \/ l.pc \in {"idle", "open", "begin", "send", "ack", "retry"}
       \/ l.msg.step # "start" \/ Final(l)
    /\ l.rescue => l.pc \in {"finish", "recheck"} /\ l.goal = "failed" /\ Final(l)
    /\ l.pc = "rescue" => Final(l)

\* And what does.
ServesRun(l, r, recs, iss, hist) ==
    /\ WellPlaced(l)
    /\ l.pc # "idle" => AboutRun(l.msg, r, recs)
    /\ \A i \in 1 .. Len(l.out) : l.out[i].step # "start" /\ AboutRun(l.out[i], r, recs)
    /\ \A d \in l.doomed : recs[d].run = r
    /\ Holds(l) => l.seen.run = r /\ recs[l.msg.day].run = r
    /\ Publishes(l) /\ l.fresh =>
          /\ iss[l.msg.day] = r
          /\ l.pc = "finish" => hist[l.msg.day] = r
    /\ Removes(l) => recs[l.msg.day].status \in Unsuccessful /\ recs[l.msg.day].run = r

Clears(l) ==
    \/ l.pc \in {"read", "retry"} /\ l.msg.step # "start"
    \/ l.pc \in {"list", "rescue"}
    \/ l.pc = "delete" /\ l.msg.day \in l.doomed
    \/ Publishes(l)
    \/ l.pc = "finish" /\ l.rescue /\ l.fresh

\* A message waits that will have the catalogue looked through for the day.
Recalled(d, q) == \E m \in q : m.day = d /\ m.step # "start"

Cleared(d) ==
    \/ issue[d] = NoRun
    \/ lost # {}
    \/ Recalled(d, queue)
    \/ \E w \in Workers : DayOf(w) = d /\ Clears(worker[w])

FirstRun(r) ==
    /\ \A m \in queue : AboutRun(m, r, record)
    /\ \A w \in Workers : ServesRun(worker[w], r, record, issue, history)
    /\ \A d, e \in Days : record[d].run = r /\ record[e].run = r => d = e
    /\ \A d \in Days :
         /\ record[d].status # "none" => record[d].run = r
         /\ issue[d] # NoRun => issue[d] = r /\ record[d].run = r
         /\ record[d].status = "published" => issue[d] = r /\ history[d] = r
         /\ record[d].status \in Unsuccessful => Cleared(d)

FirstRunInvariant == \A r \in Runs : minted \subseteq {r} => FirstRun(r)

-----------------------------------------------------------------------------
(* What the helpers make of an invocation, in every field.                 *)

\* One that keeps only its message.
LEMMA OnlyFields ==
    ASSUME NEW w \in Workers, NEW step
    PROVE  /\ Only(w, step).pc = step /\ Only(w, step).msg = worker[w].msg
           /\ Only(w, step).goal = "none" /\ Only(w, step).rescue = FALSE
           /\ Only(w, step).fresh = FALSE /\ Only(w, step).doomed = {}
           /\ Only(w, step).out = <<>>
  BY DEF Only, Idle

\* One that sends.
LEMMA SendingFields ==
    ASSUME NEW w \in Workers, NEW ms \in Seq(Message)
    PROVE  /\ Sending(w, ms).pc = "send" /\ Sending(w, ms).msg = worker[w].msg
           /\ Sending(w, ms).goal = "none" /\ Sending(w, ms).rescue = FALSE
           /\ Sending(w, ms).fresh = FALSE /\ Sending(w, ms).doomed = {}
           /\ Sending(w, ms).out = ms
  BY DEF Sending, Only, Idle

\* It serves the run if its message does.
LEMMA OnlyServes ==
    ASSUME NEW r, NEW w \in Workers, NEW recs, NEW iss, NEW hist, Busy(w),
           ServesRun(worker[w], r, recs, iss, hist),
           NEW step \in {"ack", "retry", "list", "rescue"},
           step = "rescue" => Last(w),
           step = "list" => /\ recs[DayOf(w)].status \in Unsuccessful
                            /\ recs[DayOf(w)].run = r
                            /\ worker[w].msg.step # "start" \/ Last(w)
    PROVE  ServesRun(Only(w, step), r, recs, iss, hist)
<1> DEFINE l == Only(w, step)
<1>1. /\ l.pc = step /\ l.msg = worker[w].msg /\ l.goal = "none" /\ l.rescue = FALSE
      /\ l.fresh = FALSE /\ l.doomed = {} /\ l.out = <<>>
  BY OnlyFields
<1>2. AboutRun(worker[w].msg, r, recs)
  BY DEF ServesRun, Busy
<1>3. Len(<<>>) = 0
  OBVIOUS
<1> HIDE DEF l
<1>4. WellPlaced(l) /\ ~Holds(l) /\ ~Publishes(l)
  BY <1>1 DEF WellPlaced, Holds, Publishes, Last, Final
<1>5. \A i \in 1 .. Len(l.out) : FALSE
  BY <1>1, <1>3
<1>6. Removes(l) => recs[l.msg.day].status \in Unsuccessful /\ recs[l.msg.day].run = r
  BY <1>1 DEF Removes, RemoveSteps, DayOf
<1>7. QED
  BY <1>1, <1>2, <1>4, <1>5, <1>6 DEF ServesRun, l

\* It serves the run if all that it sends is about the run.
LEMMA SendingServes ==
    ASSUME NEW r, NEW w \in Workers, NEW recs, NEW iss, NEW hist,
           NEW ms \in Seq(Message), AboutRun(worker[w].msg, r, recs),
           \A i \in 1 .. Len(ms) : ms[i].step # "start" /\ AboutRun(ms[i], r, recs)
    PROVE  ServesRun(Sending(w, ms), r, recs, iss, hist)
<1> DEFINE l == Sending(w, ms)
<1>1. /\ l.pc = "send" /\ l.msg = worker[w].msg /\ l.goal = "none" /\ l.rescue = FALSE
      /\ l.fresh = FALSE /\ l.doomed = {} /\ l.out = ms
  BY SendingFields
<1> HIDE DEF l
<1>2. WellPlaced(l) /\ ~Holds(l) /\ ~Publishes(l) /\ ~Removes(l)
  BY <1>1 DEF WellPlaced, Holds, Publishes, Removes, RemoveSteps
<1>3. QED
  BY <1>1, <1>2 DEF ServesRun, l

\* So does one that sends a single message about the run.
LEMMA SendingOneServes ==
    ASSUME NEW r, NEW w \in Workers, NEW recs, NEW iss, NEW hist, NEW m \in Message,
           AboutRun(worker[w].msg, r, recs), m.step # "start", AboutRun(m, r, recs)
    PROVE  ServesRun(Sending(w, <<m>>), r, recs, iss, hist)
<1> DEFINE ms == <<m>>
<1>1. ms \in Seq(Message) /\ \A i \in 1 .. Len(ms) : ms[i] = m
  OBVIOUS
<1> HIDE DEF ms
<1>2. \A i \in 1 .. Len(ms) : ms[i].step # "start" /\ AboutRun(ms[i], r, recs)
  BY <1>1
<1>3. ServesRun(Sending(w, ms), r, recs, iss, hist)
  BY <1>1, <1>2, SendingServes
<1>4. QED
  BY <1>3 DEF ms

\* It serves the run if it holds the record of the run, whatever comes next.
LEMMA HoldingServes ==
    ASSUME NEW r, NEW w \in Workers, NEW recs, NEW iss, NEW hist, NEW rec, Invocations,
           Busy(w), ServesRun(worker[w], r, recs, iss, hist), ~worker[w].rescue,
           worker[w].msg.step # "start", rec.run = r, recs[DayOf(w)].run = r
    PROVE  /\ \A step \in {"touch", "work", "choose"} :
                 ServesRun(Holding(w, step, rec), r, recs, iss, hist)
           /\ \A status \in Unsuccessful :
                 ServesRun(Finishing(Holding(w, "finish", rec), status), r, recs, iss, hist)
<1>1. ASSUME NEW step \in {"touch", "work", "choose"}
      PROVE  ServesRun(Holding(w, step, rec), r, recs, iss, hist)
  <2> DEFINE l == Holding(w, step, rec)
  <2>1. /\ l.pc = step /\ l.seen = rec /\ l.fresh = TRUE
        /\ l.msg = worker[w].msg /\ l.goal = worker[w].goal
        /\ l.rescue = worker[w].rescue /\ l.doomed = worker[w].doomed
        /\ l.out = worker[w].out
    BY DEF Holding, Invocations, Invocation
  <2> HIDE DEF l
  <2>2. WellPlaced(l) /\ ~Publishes(l) /\ ~Removes(l)
    BY <2>1 DEF WellPlaced, Publishes, Removes, RemoveSteps
  <2>3. QED
    BY <2>1, <2>2 DEF ServesRun, Busy, DayOf, l
<1>2. ASSUME NEW status \in Unsuccessful
      PROVE  ServesRun(Finishing(Holding(w, "finish", rec), status), r, recs, iss, hist)
  <2> DEFINE l == Finishing(Holding(w, "finish", rec), status)
  <2>1. /\ l.pc = "finish" /\ l.seen = rec /\ l.fresh = TRUE
        /\ l.msg = worker[w].msg /\ l.goal = status
        /\ l.rescue = worker[w].rescue /\ l.doomed = worker[w].doomed
        /\ l.out = worker[w].out
    BY DEF Finishing, Holding, Invocations, Invocation
  <2> HIDE DEF l
  <2>2. WellPlaced(l) /\ ~Publishes(l) /\ ~Removes(l)
    BY <2>1 DEF WellPlaced, Publishes, Removes, RemoveSteps, Unsuccessful, Finished
  <2>3. QED
    BY <2>1, <2>2 DEF ServesRun, Busy, DayOf, l
<1>3. QED
  BY <1>1, <1>2

-----------------------------------------------------------------------------
(* The ways in which the world moves.                                      *)

\* Who publishes with a current etag publishes a run that is running.
LEMMA PublisherRuns ==
    ASSUME DigestInvariant, NEW r, NEW v \in Workers,
           ServesRun(worker[v], r, record, issue, history),
           Publishes(worker[v]), worker[v].fresh
    PROVE  record[DayOf(v)].status = "running" /\ ~worker[v].rescue
<1>1. Sound(worker[v], record)
  BY DEF DigestInvariant, Invocations
<1>2. ~worker[v].rescue /\ worker[v].pc \in Writing
  BY DEF ServesRun, WellPlaced, Publishes, Writing
<1>3. QED
  BY <1>1, <1>2 DEF Sound, Placed, DayOf

\* One invocation moves, and with it the queue, the catalogue or the history.
LEMMA FirstRunMoves ==
    ASSUME DigestInvariant, NEW r, FirstRun(r), NEW w \in Workers, NEW l,
           Become(w, l), UNCHANGED record, lost \subseteq lost',
           ServesRun(l, r, record, issue', history'),
           \A m \in queue' : AboutRun(m, r, record),
           \A d \in Days : issue'[d] # NoRun => issue'[d] = r /\ record[d].run = r,
           \A d \in Days :
             record[d].status \notin Unsuccessful /\ issue[d] = r => issue'[d] = r,
           \A d \in Days : history[d] = r => history'[d] = r,
           \A d \in Days : d # DayOf(w) => issue'[d] \in {issue[d], NoRun},
           \A m \in queue : \/ m \in queue'
                            \/ m.step = "start"
                            \/ l.msg.day = m.day /\ Clears(l),
           /\ record[DayOf(w)].status \in Unsuccessful
           /\ Clears(worker[w]) \/ issue'[DayOf(w)] # issue[DayOf(w)]
           => \/ l.msg.day = DayOf(w) /\ Clears(l)
              \/ Recalled(DayOf(w), queue')
              \/ issue'[DayOf(w)] = NoRun
              \/ lost' # {}
    PROVE  FirstRun(r)'
<1>1. \A v \in Workers : worker'[v] = IF v = w THEN l ELSE worker[v]
  BY DEF Become, DigestInvariant, Invocations
<1>2. ASSUME NEW v \in Workers, v # w
      PROVE  ServesRun(worker[v], r, record, issue', history')
  <2>1. ServesRun(worker[v], r, record, issue, history)
    BY DEF FirstRun
  <2>2. DayOf(v) \in Days
    BY DayOfInvocation DEF DigestInvariant
  <2>3. Publishes(worker[v]) /\ worker[v].fresh =>
           /\ issue'[DayOf(v)] = r
           /\ worker[v].pc = "finish" => history'[DayOf(v)] = r
    <3> SUFFICES ASSUME Publishes(worker[v]), worker[v].fresh
                 PROVE  /\ issue'[DayOf(v)] = r
                        /\ worker[v].pc = "finish" => history'[DayOf(v)] = r
      OBVIOUS
    <3>1. record[DayOf(v)].status \notin Unsuccessful
      BY <2>1, PublisherRuns DEF Unsuccessful
    <3>2. QED  BY <2>1, <2>2, <3>1 DEF ServesRun, DayOf
  <2>4. QED  BY <2>1, <2>3 DEF ServesRun, DayOf
<1>3. \A v \in Workers : ServesRun(worker'[v], r, record', issue', history')
  BY <1>1, <1>2
<1>4. ASSUME NEW d \in Days, record[d].status \in Unsuccessful
      PROVE  Cleared(d)'
  <2>1. Cleared(d)
    BY <1>4 DEF FirstRun
  <2>2. CASE lost # {}
    BY <2>2 DEF Cleared
  <2>3. CASE Recalled(d, queue)
    <3>1. PICK m \in queue : m.day = d /\ m.step # "start"
      BY <2>3 DEF Recalled
    <3>2. CASE m \in queue'
      BY <3>1, <3>2 DEF Cleared, Recalled
    <3>3. CASE l.msg.day = m.day /\ Clears(l)
      <4>1. worker'[w] = l
        BY <1>1
      <4>2. (DayOf(w) = d /\ Clears(worker[w]))'
        BY <3>1, <3>3, <4>1 DEF DayOf, Clears, Publishes
      <4>3. QED  BY <4>2 DEF Cleared
    <3>4. QED  BY <3>1, <3>2, <3>3
  <2>4. CASE d = DayOf(w) /\ (Clears(worker[w]) \/ issue'[d] # issue[d])
    <3>1. CASE l.msg.day = d /\ Clears(l)
      <4>1. worker'[w] = l
        BY <1>1
      <4>2. (DayOf(w) = d /\ Clears(worker[w]))'
        BY <3>1, <4>1 DEF DayOf, Clears, Publishes
      <4>3. QED  BY <4>2 DEF Cleared
    <3>2. QED
      BY <1>4, <2>4, <3>1 DEF Cleared
  <2>5. CASE issue'[d] = NoRun
    BY <2>5 DEF Cleared
  <2>6. CASE \E v \in Workers : v # w /\ DayOf(v) = d /\ Clears(worker[v])
    <3>1. PICK v \in Workers : v # w /\ DayOf(v) = d /\ Clears(worker[v])
      BY <2>6
    <3>2. worker'[v] = worker[v]
      BY <1>1, <3>1
    <3>3. (DayOf(v) = d /\ Clears(worker[v]))'
      BY <3>1, <3>2 DEF DayOf, Clears, Publishes
    <3>4. QED  BY <3>3 DEF Cleared
  <2>7. QED
    BY <2>1, <2>2, <2>3, <2>4, <2>5, <2>6 DEF Cleared
<1>5. \A d \in Days :
        /\ record'[d].status # "none" => record'[d].run = r
        /\ record'[d].status = "published" => issue'[d] = r /\ history'[d] = r
  BY DEF FirstRun, Unsuccessful
<1>6. QED
  BY <1>3, <1>4, <1>5 DEF FirstRun

\* A move that changes nothing outside the invocation.
LEMMA FirstRunQuiet ==
    ASSUME DigestInvariant, NEW r, FirstRun(r), NEW w \in Workers, NEW l,
           Become(w, l), UNCHANGED onlyWorker,
           ServesRun(l, r, record, issue, history),
           record[DayOf(w)].status \in Unsuccessful /\ Clears(worker[w])
             => \/ l.msg.day = DayOf(w) /\ Clears(l)
                \/ issue[DayOf(w)] = NoRun
    PROVE  FirstRun(r)'
<1>1. UNCHANGED <<record, issue, history, queue, lost>>
  BY DEF onlyWorker, catalogueVars
<1>2. ServesRun(l, r, record, issue', history')
  BY <1>1
<1>3. QED
  BY <1>1, <1>2, FirstRunMoves DEF FirstRun

\* An invocation whose etag is outdated is otherwise the same.
LEMMA OutdatedFields ==
    ASSUME NEW v \in Workers, worker[v] \in Invocation,
           NEW l, l = [worker[v] EXCEPT !.fresh = FALSE]
    PROVE  /\ l.fresh = FALSE /\ l.pc = worker[v].pc /\ l.seen = worker[v].seen
           /\ l.msg = worker[v].msg /\ l.goal = worker[v].goal
           /\ l.rescue = worker[v].rescue /\ l.doomed = worker[v].doomed
           /\ l.out = worker[v].out
  BY DEF Invocation

\* An invocation serves the run in the same way without its etag.
LEMMA OutdatedServes ==
    ASSUME NEW r, NEW v \in Workers, worker[v] \in Invocation,
           NEW recs, NEW iss, NEW hist,
           ServesRun(worker[v], r, recs, iss, hist)
    PROVE  ServesRun([worker[v] EXCEPT !.fresh = FALSE], r, recs, iss, hist)
<1> DEFINE l == [worker[v] EXCEPT !.fresh = FALSE]
<1>1. /\ l.fresh = FALSE /\ l.pc = worker[v].pc /\ l.seen = worker[v].seen
      /\ l.msg = worker[v].msg /\ l.goal = worker[v].goal
      /\ l.rescue = worker[v].rescue /\ l.doomed = worker[v].doomed
      /\ l.out = worker[v].out
  BY OutdatedFields
<1> HIDE DEF l
<1>2. /\ WellPlaced(l) <=> WellPlaced(worker[v])
      /\ Holds(l) <=> Holds(worker[v])
      /\ Publishes(l) <=> Publishes(worker[v])
      /\ Removes(l) <=> Removes(worker[v])
  BY <1>1 DEF WellPlaced, Holds, Publishes, Removes, Final
<1>3. QED
  BY <1>1, <1>2 DEF ServesRun, l

\* Serving the run depends on the records only in what they say of it.
LEMMA ServesOn ==
    ASSUME NEW r, NEW l \in Invocation, NEW recs, NEW later, NEW iss, NEW hist,
           ServesRun(l, r, recs, iss, hist),
           l.pc # "idle" => l.msg \in Message,
           \A d \in Days : recs[d].run = r => later[d].run = r,
           \A d \in Days : recs[d].status \in Unsuccessful /\ recs[d].run = r
                              => later[d].status \in Unsuccessful
    PROVE  ServesRun(l, r, later, iss, hist)
<1>1. /\ l.msg.day \in Days /\ l.doomed \subseteq Days /\ l.out \in Seq(Message)
  BY InvocationFields
<1>2. l.pc # "idle" => AboutRun(l.msg, r, later)
  BY <1>1 DEF ServesRun, AboutRun
<1>3. ASSUME NEW i \in 1 .. Len(l.out)
      PROVE  l.out[i].step # "start" /\ AboutRun(l.out[i], r, later)
  <2>1. l.out[i] \in Message
    BY <1>1
  <2>2. l.out[i].day \in Days
    BY <2>1 DEF Message
  <2>3. QED  BY <2>2 DEF ServesRun, AboutRun
<1>4. QED
  BY <1>1, <1>2, <1>3 DEF ServesRun

\* The run is taken on, or finished.
LEMMA FirstRunWrites ==
    ASSUME DigestInvariant, NEW r, FirstRun(r), NEW w \in Workers,
           NEW rec \in RunRecord, NEW l,
           Write(w, rec, l), UNCHANGED <<issue, history, queue, lost>>,
           ServesRun(l, r, [record EXCEPT ![DayOf(w)] = rec], issue, history),
           record[DayOf(w)].run = r, rec.run = r,
           record[DayOf(w)].status \in Unsuccessful => rec.status \in Unsuccessful,
           rec.status = "published" => issue[DayOf(w)] = r /\ history[DayOf(w)] = r,
           rec.status \in Unsuccessful => Clears(l) /\ l.msg.day = DayOf(w)
    PROVE  FirstRun(r)'
<1> DEFINE D == DayOf(w)
<1>1. /\ D \in Days /\ record' = [record EXCEPT ![D] = rec] /\ Invocations
      /\ record \in [Days -> RunRecord]
  BY DayOfInvocation DEF Write, DigestInvariant, Records
<1>2. /\ record'[D] = rec
      /\ \A d \in Days : d # D => record'[d] = record[d]
  BY <1>1
<1>3. /\ \A d \in Days : record[d].run = r => record'[d].run = r
      /\ \A d \in Days : record[d].status \in Unsuccessful => record'[d].status \in Unsuccessful
      /\ \A d \in Days : record'[d].run = r => record[d].run = r
  BY <1>2
<1>4. ASSUME NEW v \in Workers
      PROVE  \/ v = w /\ worker'[v] = l
             \/ /\ v # w /\ DayOf(v) = D /\ worker'[v] = [worker[v] EXCEPT !.fresh = FALSE]
             \/ /\ v # w /\ DayOf(v) # D /\ worker'[v] = worker[v]
  BY DEF Write
<1>5. ASSUME NEW v \in Workers
      PROVE  ServesRun(worker'[v], r, record', issue', history')
  <2>1. CASE v = w
    BY <1>1, <1>4, <2>1
  <2>2. CASE v # w
    <3>1. /\ ServesRun(worker[v], r, record, issue, history)
          /\ worker[v] \in Invocation
          /\ worker[v].pc # "idle" => worker[v].msg \in Message
      BY <1>1 DEF FirstRun, Invocations, Sound, Placed
    <3>2. ServesRun(worker[v], r, record', issue, history)
      BY <1>3, <3>1, ServesOn
    <3>3. ServesRun([worker[v] EXCEPT !.fresh = FALSE], r, record', issue, history)
      BY <3>1, <3>2, OutdatedServes
    <3>4. QED  BY <1>4, <2>2, <3>2, <3>3
  <2>3. QED  BY <2>1, <2>2
<1>6. \A m \in queue' : AboutRun(m, r, record')
  <2> SUFFICES ASSUME NEW m \in queue PROVE AboutRun(m, r, record')
    OBVIOUS
  <2>1. m.day \in Days
    BY DEF DigestInvariant, Surroundings, Message
  <2>2. QED  BY <1>3, <2>1 DEF FirstRun, AboutRun
<1>7. ASSUME NEW d \in Days, record'[d].status \in Unsuccessful
      PROVE  Cleared(d)'
  <2>1. CASE d = D
    <3>1. worker'[w] = l /\ rec.status \in Unsuccessful
      BY <1>2, <1>4, <1>7, <2>1
    <3>2. (DayOf(w) = d /\ Clears(worker[w]))'
      BY <2>1, <3>1 DEF DayOf, Clears, Publishes
    <3>3. QED  BY <3>2 DEF Cleared
  <2>2. CASE d # D
    <3>1. Cleared(d)
      BY <1>2, <1>7, <2>2 DEF FirstRun
    <3>2. ASSUME NEW v \in Workers, DayOf(v) = d, Clears(worker[v])
          PROVE  (DayOf(v) = d /\ Clears(worker[v]))'
      <4>1. worker'[v] = worker[v]
        BY <1>4, <2>2, <3>2
      <4>2. QED  BY <3>2, <4>1 DEF DayOf, Clears, Publishes
    <3>3. QED  BY <3>1, <3>2 DEF Cleared, Recalled
  <2>3. QED  BY <2>1, <2>2
<1>8. \A d \in Days :
        /\ record'[d].status # "none" => record'[d].run = r
        /\ issue'[d] # NoRun => issue'[d] = r /\ record'[d].run = r
        /\ record'[d].status = "published" => issue'[d] = r /\ history'[d] = r
  BY <1>2, <1>3 DEF FirstRun
<1>9. \A d, e \in Days : record'[d].run = r /\ record'[e].run = r => d = e
  BY <1>3 DEF FirstRun
<1>10. QED
  BY <1>5, <1>6, <1>7, <1>8, <1>9 DEF FirstRun

\* The run begins: nothing was about it before.
LEMMA FirstRunBegins ==
    ASSUME DigestInvariant, NEW r \in Runs, FirstRun(r), minted' \subseteq {r},
           NEW w \in Workers, BeginRun(w)
    PROVE  FirstRun(r)'
<1> DEFINE D == DayOf(w)
           rec == BlankRecord(r)
           ms == <<MessageFor(D, rec), WatchdogMessage(D, r)>>
<1>1. /\ Write(w, rec, Sending(w, ms)) /\ minted = {}
      /\ UNCHANGED <<issue, history, queue, lost>>
  <2>1. PICK s \in Runs \ minted :
          /\ Write(w, BlankRecord(s), Sending(w, <<MessageFor(D, BlankRecord(s)),
                                                   WatchdogMessage(D, s)>>))
          /\ minted' = minted \union {s}
    BY DEF BeginRun
  <2>2. s = r /\ minted = {}
    BY <2>1
  <2>3. QED  BY <2>1, <2>2 DEF BeginRun, catalogueVars
<1>2. /\ D \in Days /\ Invocations /\ record \in [Days -> RunRecord] /\ Busy(w)
  BY DayOfInvocation DEF DigestInvariant, Records, BeginRun, Busy
<1>3. r # NoRun /\ \A d \in Days : record[d].run = NoRun
  BY <1>1, NoRunAssumption DEF DigestInvariant, Records
<1>4. /\ record' = [record EXCEPT ![D] = rec] /\ record'[D] = rec
      /\ \A d \in Days : d # D => record'[d] = record[d]
  BY <1>1, <1>2 DEF Write
<1>5. /\ rec.run = r /\ rec.status = "running" /\ rec.phase = "plan"
  BY BlankFields DEF RunOrNone
<1>6. ASSUME NEW m \in Message, AboutRun(m, r, record)
      PROVE  m.step = "start" /\ AboutRun(m, r, record')
  BY <1>3, <1>6 DEF AboutRun, Message
<1>7. ServesRun(Sending(w, ms), r, record', issue, history)
  <2>1. worker[w].msg \in Message /\ AboutRun(worker[w].msg, r, record)
    BY <1>2, DayOfInvocation DEF FirstRun, ServesRun, Busy
  <2>2. ASSUME NEW i \in 1 .. Len(ms)
        PROVE  ms[i].step # "start" /\ AboutRun(ms[i], r, record')
    <3>1. i = 1 \/ i = 2
      OBVIOUS
    <3>2. /\ MessageFor(D, rec).step = "plan" /\ MessageFor(D, rec).run = r
          /\ MessageFor(D, rec).day = D
      <4> HIDE DEF rec
      <4>1. QED  BY <1>5 DEF MessageFor
    <3>3. /\ WatchdogMessage(D, r).step = "watchdog" /\ WatchdogMessage(D, r).run = r
          /\ WatchdogMessage(D, r).day = D
      BY DEF WatchdogMessage
    <3>4. ms[1] = MessageFor(D, rec) /\ ms[2] = WatchdogMessage(D, r)
      OBVIOUS
    <3> HIDE DEF ms, rec
    <3>5. QED  BY <1>4, <1>5, <3>1, <3>2, <3>3, <3>4 DEF AboutRun
  <2>3. ms \in Seq(Message)
    BY <1>2, BlankFields, MessagesAreTyped DEF RunOrNone
  <2> HIDE DEF ms
  <2>4. QED  BY <1>6, <2>1, <2>2, <2>3, SendingServes
<1> HIDE DEF rec, ms
<1>8. ASSUME NEW v \in Workers
      PROVE  ServesRun(worker'[v], r, record', issue', history')
  <2>1. CASE v = w
    BY <1>1, <1>7, <2>1 DEF Write
  <2>2. CASE v # w
    <3>1. /\ ServesRun(worker[v], r, record, issue, history)
          /\ worker[v] \in Invocation
          /\ worker[v].pc # "idle" => worker[v].msg \in Message
      BY <1>2 DEF FirstRun, Invocations, Sound, Placed
    <3>2. /\ worker[v].msg.day \in Days /\ worker[v].doomed \subseteq Days
          /\ worker[v].out \in Seq(Message)
      BY <3>1, InvocationFields
    <3>3. /\ ~Holds(worker[v]) /\ ~Removes(worker[v]) /\ ~Publishes(worker[v])
          /\ \A d \in worker[v].doomed : FALSE
      BY <1>3, <3>1, <3>2 DEF ServesRun, Holds
    <3>4. \A i \in 1 .. Len(worker[v].out) : FALSE
      <4> SUFFICES ASSUME NEW i \in 1 .. Len(worker[v].out) PROVE FALSE
        OBVIOUS
      <4>1. worker[v].out[i] \in Message
        BY <3>2
      <4>2. QED  BY <1>6, <3>1, <4>1 DEF ServesRun
    <3>5. worker[v].pc # "idle" => AboutRun(worker[v].msg, r, record')
      BY <1>6, <3>1 DEF ServesRun
    <3>6. ServesRun(worker[v], r, record', issue, history)
      BY <3>1, <3>3, <3>4, <3>5 DEF ServesRun
    <3>7. ServesRun([worker[v] EXCEPT !.fresh = FALSE], r, record', issue, history)
      BY <3>1, <3>6, OutdatedServes
    <3>8. QED  BY <1>1, <2>2, <3>6, <3>7 DEF Write
  <2>3. QED  BY <2>1, <2>2
<1>9. \A m \in queue' : AboutRun(m, r, record')
  BY <1>1, <1>6 DEF FirstRun, DigestInvariant, Surroundings
<1>10. ASSUME NEW d \in Days
       PROVE  /\ record'[d].status # "none" => record'[d].run = r
              /\ issue'[d] = NoRun
              /\ record'[d].status \notin Finished
  <2>1. issue'[d] = NoRun /\ record[d].status = "none"
    BY <1>1, <1>3 DEF FirstRun
  <2>2. QED  BY <1>4, <1>5, <2>1 DEF Finished
<1>11. \A d \in Days : record'[d].run = r => d = D
  BY <1>3, <1>4
<1>12. QED
  BY <1>8, <1>9, <1>10, <1>11 DEF FirstRun, Unsuccessful, Finished

-----------------------------------------------------------------------------
(* The actions, while no run id but r is taken.                            *)

\* What an invocation at work can rely on.
LEMMA InFirstRun ==
    ASSUME DigestInvariant, NEW r \in Runs, minted \subseteq {r}, FirstRun(r),
           NEW w \in Workers, Busy(w)
    PROVE  /\ ServesRun(worker[w], r, record, issue, history) /\ WellPlaced(worker[w])
           /\ AboutRun(worker[w].msg, r, record) /\ worker[w].msg \in Message
           /\ DayOf(w) \in Days /\ DayOf(w) = worker[w].msg.day /\ Invocations
           /\ r # NoRun /\ Found(w) = record[DayOf(w)]
           /\ Found(w).run \in {r, NoRun}
           /\ Found(w).status # "none" => Found(w).run = r
           /\ worker[w].msg.step # "start" => worker[w].msg.run = r /\ Found(w).run = r
<1>1. /\ DayOf(w) \in Days /\ worker[w].msg \in Message /\ Invocations
  BY DayOfInvocation DEF DigestInvariant
<1>2. ServesRun(worker[w], r, record, issue, history)
  BY DEF FirstRun
<1>3. WellPlaced(worker[w]) /\ AboutRun(worker[w].msg, r, record)
  BY <1>2 DEF ServesRun, Busy
<1>4. record[DayOf(w)].run \in minted \union {NoRun}
  BY <1>1 DEF DigestInvariant, Records
<1>5. record[DayOf(w)].status # "none" => record[DayOf(w)].run = r
  BY <1>1 DEF FirstRun
<1>6. QED
  BY <1>1, <1>2, <1>3, <1>4, <1>5, NoRunAssumption DEF DayOf, Found, AboutRun

\* The message of an invocation that clears goes back, or is lost for good.
LEMMA FirstRunGivesBack ==
    ASSUME DigestInvariant, NEW r \in Runs, minted \subseteq {r}, FirstRun(r),
           NEW w \in Workers, Busy(w), GiveBack(w), UNCHANGED <<record, issue, history>>
    PROVE  FirstRun(r)'
<1> DEFINE back == [worker[w].msg EXCEPT !.tries = @ + 1]
<1>1. /\ AboutRun(worker[w].msg, r, record) /\ WellPlaced(worker[w])
      /\ worker[w].msg \in Message
  BY InFirstRun
<1>2. /\ back.day = DayOf(w) /\ back.step = worker[w].msg.step
      /\ back.run = worker[w].msg.run
  BY <1>1 DEF Message, DayOf
<1>3. /\ Become(w, Idle) /\ lost \subseteq lost'
      /\ Last(w) => lost' # {} /\ queue' = queue
      /\ ~Last(w) => queue' = queue \union {back}
  BY DEF GiveBack, Fails
<1> HIDE DEF back
<1>4. AboutRun(back, r, record)
  BY <1>1, <1>2 DEF AboutRun, DayOf
<1>5. \A m \in queue' : AboutRun(m, r, record)
  BY <1>3, <1>4 DEF FirstRun
<1>6. ServesRun(Idle, r, record, issue', history')
  <2>1. /\ Idle.pc = "idle" /\ Idle.out = <<>> /\ Idle.doomed = {} /\ Idle.goal = "none"
        /\ Idle.rescue = FALSE /\ Len(<<>>) = 0
    BY DEF Idle
  <2>2. \A i \in 1 .. Len(Idle.out) : FALSE
    BY <2>1
  <2>3. QED
    BY <2>1, <2>2 DEF ServesRun, WellPlaced, Holds, Publishes, Removes, RemoveSteps
<1>7. Clears(worker[w]) => Last(w) \/ worker[w].msg.step # "start"
  BY <1>1 DEF Clears, WellPlaced, Publishes, Last, Final
<1>8. Clears(worker[w]) => lost' # {} \/ Recalled(DayOf(w), queue')
  BY <1>2, <1>3, <1>7 DEF Recalled
<1>9. QED
  BY <1>3, <1>5, <1>6, <1>8, FirstRunMoves DEF FirstRun

\* The invocation ends.
LEMMA FirstRunEnding ==
    ASSUME DigestInvariant, NEW r \in Runs, minted \subseteq {r}, FirstRun(r),
           NEW w \in Workers, Ack(w) \/ Retry(w) \/ Crash(w) \/ RescueThrows(w)
    PROVE  FirstRun(r)'
<1>1. CASE Ack(w)
  <2>1. Become(w, Idle) /\ UNCHANGED onlyWorker /\ ~Clears(worker[w])
    BY <1>1 DEF Ack, Clears, Publishes
  <2>2. ServesRun(Idle, r, record, issue, history)
    <3>1. /\ Idle.pc = "idle" /\ Idle.out = <<>> /\ Idle.doomed = {} /\ Idle.goal = "none"
          /\ Idle.rescue = FALSE /\ Len(<<>>) = 0
      BY DEF Idle
    <3>2. \A i \in 1 .. Len(Idle.out) : FALSE
      BY <3>1
    <3>3. QED
      BY <3>1, <3>2 DEF ServesRun, WellPlaced, Holds, Publishes, Removes, RemoveSteps
  <2>3. QED  BY <2>1, <2>2, FirstRunQuiet
<1>2. CASE Retry(w) \/ Crash(w) \/ RescueThrows(w)
  <2>1. GiveBack(w) /\ UNCHANGED <<record, issue, history>> /\ Busy(w)
    BY <1>2 DEF Retry, Crash, RescueThrows, catalogueVars, Busy, Throwing, TrySteps,
       RemoveSteps
  <2>2. QED  BY <2>1, FirstRunGivesBack
<1>3. QED  BY <1>1, <1>2

\* What is sent is about the run.
LEMMA FirstRunSends ==
    ASSUME DigestInvariant, NEW r \in Runs, minted \subseteq {r}, FirstRun(r),
           NEW w \in Workers, Send(w) \/ SendFails(w)
    PROVE  FirstRun(r)'
<1> DEFINE ms == worker[w].out
<1>1. /\ worker[w].pc = "send" /\ Busy(w) /\ ms \in Seq(Message) /\ ms # <<>>
      /\ UNCHANGED <<record, issue, history, lost>>
      /\ queue' \in {queue, queue \union {Head(ms)}}
  BY InvocationFields DEF Send, SendFails, Busy, DigestInvariant, Invocations, Sound,
     Placed, catalogueVars
<1>2. /\ ServesRun(worker[w], r, record, issue, history)
      /\ AboutRun(worker[w].msg, r, record) /\ ~Clears(worker[w])
  BY <1>1, InFirstRun DEF Clears, Publishes
<1>3. \A i \in 1 .. Len(ms) : ms[i].step # "start" /\ AboutRun(ms[i], r, record)
  BY <1>2 DEF ServesRun
<1>4. /\ Head(ms) = ms[1] /\ Len(ms) \in Nat \ {0}
      /\ Len(ms) # 1 => /\ Tail(ms) \in Seq(Message)
                        /\ Len(Tail(ms)) = Len(ms) - 1
                        /\ \A i \in 1 .. Len(Tail(ms)) : Tail(ms)[i] = ms[i + 1]
  <2> HIDE DEF ms
  <2>1. Len(ms) \in Nat \ {0} /\ Head(ms) = ms[1]
    BY <1>1
  <2>2. /\ Tail(ms) \in Seq(Message) /\ Len(Tail(ms)) = Len(ms) - 1
        /\ \A i \in 1 .. Len(Tail(ms)) : Tail(ms)[i] = ms[i + 1]
    BY <1>1, <2>1, HeadTailProperties
  <2>3. QED  BY <2>1, <2>2
<1>5. \A m \in queue' : AboutRun(m, r, record)
  <2>1. AboutRun(Head(ms), r, record)
    BY <1>3, <1>4
  <2>2. QED  BY <1>1, <2>1 DEF FirstRun
<1>6. ASSUME NEW l, Become(w, l), ServesRun(l, r, record, issue, history)
      PROVE  FirstRun(r)'
  <2>1. ServesRun(l, r, record, issue', history')
    BY <1>1, <1>6
  <2>2. queue \subseteq queue'
    BY <1>1
  <2>3. QED
    BY <1>1, <1>2, <1>5, <1>6, <2>1, <2>2, FirstRunMoves DEF FirstRun
<1>7. \A s \in {"ack", "retry"} : ServesRun(Only(w, s), r, record, issue, history)
  BY <1>1, <1>2, OnlyServes
<1>8. CASE Become(w, Only(w, "ack")) \/ Become(w, Only(w, "retry"))
  BY <1>6, <1>7, <1>8
<1>9. CASE Len(ms) # 1 /\ Become(w, Sending(w, Tail(ms)))
  <2>1. ASSUME NEW i \in 1 .. Len(Tail(ms))
        PROVE  Tail(ms)[i].step # "start" /\ AboutRun(Tail(ms)[i], r, record)
    <3> HIDE DEF ms
    <3>1. Tail(ms)[i] = ms[i + 1] /\ i + 1 \in 1 .. Len(ms)
      BY <1>4, <1>9
    <3>2. QED  BY <1>3, <3>1
  <2>2. ServesRun(Sending(w, Tail(ms)), r, record, issue, history)
    <3> HIDE DEF ms
    <3>1. Tail(ms) \in Seq(Message)
      BY <1>4, <1>9
    <3>2. QED  BY <1>2, <2>1, <3>1, SendingServes
  <2>3. QED  BY <1>6, <1>9, <2>2
<1>10. QED  BY <1>8, <1>9 DEF Send, SendFails

\* Requests, time and deliveries.
LEMMA FirstRunOutside ==
    ASSUME DigestInvariant, NEW r \in Runs, minted \subseteq {r}, FirstRun(r),
           \/ \E d \in Days : Request(d) \/ GoStale(d)
           \/ \E w \in Workers, m \in queue : Deliver(w, m) \/ DeliverTwice(w, m)
    PROVE  FirstRun(r)'
<1>1. ASSUME NEW d \in Days, Request(d) \/ GoStale(d) PROVE FirstRun(r)'
  <2>1. /\ UNCHANGED <<record, worker, issue, history, lost>> /\ queue \subseteq queue'
        /\ queue' \subseteq queue \union {StartMessage(d)}
    BY <1>1 DEF Request, GoStale, catalogueVars
  <2>2. AboutRun(StartMessage(d), r, record)
    BY DEF AboutRun, StartMessage
  <2>3. \A m \in queue' : AboutRun(m, r, record')
    BY <2>1, <2>2 DEF FirstRun
  <2>4. ASSUME NEW e \in Days, Cleared(e) PROVE Cleared(e)'
    <3>1. Recalled(e, queue) => Recalled(e, queue')
      BY <2>1 DEF Recalled
    <3>2. ASSUME NEW v \in Workers, DayOf(v) = e, Clears(worker[v])
          PROVE  (DayOf(v) = e /\ Clears(worker[v]))'
      BY <2>1, <3>2 DEF DayOf, Clears, Publishes
    <3>3. QED  BY <2>1, <2>4, <3>1, <3>2 DEF Cleared
  <2>5. \A v \in Workers : ServesRun(worker'[v], r, record', issue', history')
    BY <2>1 DEF FirstRun
  <2>6. QED
    BY <2>1, <2>3, <2>4, <2>5 DEF FirstRun
<1>2. ASSUME NEW w \in Workers, NEW m \in queue, Deliver(w, m) \/ DeliverTwice(w, m)
      PROVE  FirstRun(r)'
  <2> DEFINE l == [Idle EXCEPT !.pc = IF m.step = "start" THEN "open" ELSE "read",
                               !.msg = m]
  <2>1. /\ l.pc = IF m.step = "start" THEN "open" ELSE "read"
        /\ l.msg = m /\ l.out = <<>> /\ l.doomed = {} /\ l.goal = "none"
        /\ l.rescue = FALSE /\ l.fresh = FALSE /\ Len(<<>>) = 0
    BY DEF Idle
  <2>2. /\ Become(w, l) /\ UNCHANGED <<record, issue, history, lost>>
        /\ queue' \in {queue, queue \ {m}} /\ worker[w].pc = "idle"
    BY <1>2 DEF Deliver, DeliverTwice, Take, catalogueVars, Busy
  <2> HIDE DEF l
  <2>3. AboutRun(m, r, record) /\ \A n \in queue' : AboutRun(n, r, record)
    BY <2>2 DEF FirstRun
  <2>4. \A i \in 1 .. Len(l.out) : FALSE
    BY <2>1
  <2>5. WellPlaced(l) /\ ~Holds(l) /\ ~Publishes(l) /\ ~Removes(l)
    BY <2>1 DEF WellPlaced, Holds, Publishes, Removes, RemoveSteps
  <2>6. ServesRun(l, r, record, issue', history')
    BY <2>1, <2>3, <2>4, <2>5 DEF ServesRun
  <2>7. \A n \in queue : \/ n \in queue'
                         \/ n.step = "start"
                         \/ l.msg.day = n.day /\ Clears(l)
    BY <2>1, <2>2 DEF Clears
  <2>8. ~Clears(worker[w])
    BY <2>2 DEF Clears, Publishes
  <2>9. QED
    BY <2>2, <2>3, <2>6, <2>7, <2>8, FirstRunMoves DEF FirstRun
<1>3. QED  BY <1>1, <1>2

\* stepStart opens the day, or finds it taken.
LEMMA FirstRunStart ==
    ASSUME DigestInvariant, NEW r \in Runs, minted \subseteq {r}, FirstRun(r),
           NEW w \in Workers, OpenDay(w) \/ BeginLost(w)
    PROVE  FirstRun(r)'
<1>1. /\ Busy(w) /\ UNCHANGED onlyWorker /\ ~Clears(worker[w])
      /\ worker[w].pc \in {"open", "begin"}
  BY DEF OpenDay, BeginLost, Busy, Clears, Publishes
<1>2. /\ ServesRun(worker[w], r, record, issue, history) /\ WellPlaced(worker[w])
      /\ Invocations
  BY <1>1, InFirstRun
<1>3. CASE OpenDay(w)
  <2> DEFINE l == Holding(w, "begin", record[DayOf(w)])
  <2>1. /\ l.pc = "begin" /\ l.msg = worker[w].msg /\ l.goal = worker[w].goal
        /\ l.rescue = worker[w].rescue /\ l.doomed = worker[w].doomed
        /\ l.out = worker[w].out
    BY <1>2 DEF Holding, Invocations, Invocation
  <2>2. Become(w, l) /\ worker[w].pc = "open"
    BY <1>3 DEF OpenDay
  <2> HIDE DEF l
  <2>3. WellPlaced(l) /\ ~Publishes(l) /\ ~Removes(l) /\ ~Holds(l)
    BY <1>2, <2>1, <2>2 DEF WellPlaced, Publishes, Removes, RemoveSteps, Holds
  <2>4. ServesRun(l, r, record, issue, history)
    BY <1>1, <1>2, <2>1, <2>3 DEF ServesRun, Busy
  <2>5. QED  BY <1>1, <2>2, <2>4, FirstRunQuiet
<1>4. CASE BeginLost(w)
  <2>1. PICK s \in {"ack", "retry"} : Become(w, Only(w, s))
    BY <1>4 DEF BeginLost
  <2>2. ServesRun(Only(w, s), r, record, issue, history)
    BY <1>1, <1>2, OnlyServes
  <2>3. QED  BY <1>1, <2>1, <2>2, FirstRunQuiet
<1>5. QED  BY <1>3, <1>4

\* dispatch: a message of the run finds the run.
LEMMA FirstRunDispatch ==
    ASSUME DigestInvariant, NEW r \in Runs, minted \subseteq {r}, FirstRun(r),
           NEW w \in Workers,
           \/ IgnoreOtherRun(w) \/ ObserveFinished(w) \/ KeepWatching(w)
           \/ FailStuckRun(w) \/ Repair(w) \/ StartStep(w)
    PROVE  FirstRun(r)'
<1>1. /\ Busy(w) /\ UNCHANGED onlyWorker /\ worker[w].pc = "read"
  BY DEF IgnoreOtherRun, ObserveFinished, KeepWatching, FailStuckRun, Repair, StartStep,
     OnRunning, Mine, Busy
<1>2. /\ ServesRun(worker[w], r, record, issue, history) /\ WellPlaced(worker[w])
      /\ AboutRun(worker[w].msg, r, record) /\ Invocations /\ DayOf(w) \in Days
      /\ Found(w) = record[DayOf(w)] /\ DayOf(w) = worker[w].msg.day
      /\ worker[w].msg.step # "start" => worker[w].msg.run = r /\ Found(w).run = r
  BY <1>1, InFirstRun
<1>3. worker[w].msg.step # "start" /\ ~worker[w].rescue
  BY <1>1, <1>2 DEF WellPlaced
<1>4. worker[w].msg.run = r /\ Found(w).run = r /\ ~IgnoreOtherRun(w)
  BY <1>2, <1>3 DEF IgnoreOtherRun
<1>5. CASE ObserveFinished(w)
  <2>1. /\ Found(w).status \in Finished
        /\ Become(w, Only(w, AfterObserving(Found(w).status)))
    BY <1>5 DEF ObserveFinished
  <2>2. CASE Found(w).status = "published"
    <3>1. Become(w, Only(w, "ack"))
      BY <2>1, <2>2 DEF AfterObserving
    <3>2. ServesRun(Only(w, "ack"), r, record, issue, history)
      BY <1>1, <1>2, OnlyServes
    <3>3. QED  BY <1>1, <1>2, <2>2, <3>1, <3>2, FirstRunQuiet DEF Unsuccessful
  <2>3. CASE Found(w).status # "published"
    <3>1. Become(w, Only(w, "list")) /\ Found(w).status \in Unsuccessful
      BY <2>1, <2>3 DEF AfterObserving, Finished, Unsuccessful
    <3>2. ServesRun(Only(w, "list"), r, record, issue, history)
      BY <1>1, <1>2, <1>3, <1>4, <3>1, OnlyServes
    <3>3. Only(w, "list").msg.day = DayOf(w) /\ Clears(Only(w, "list"))
      BY <1>2, OnlyFields DEF Clears
    <3>4. QED  BY <1>1, <3>1, <3>2, <3>3, FirstRunQuiet
  <2>4. QED  BY <2>2, <2>3
<1>6. CASE Found(w).status = "running"
  <2>1. record[DayOf(w)].status \notin Unsuccessful
    BY <1>2, <1>6 DEF Unsuccessful
  <2>2. ASSUME NEW l, Become(w, l), ServesRun(l, r, record, issue, history)
        PROVE  FirstRun(r)'
    BY <1>1, <2>1, <2>2, FirstRunQuiet
  <2>3. CASE KeepWatching(w) \/ Repair(w)
    <3>1. PICK m \in Message :
                   /\ Become(w, Sending(w, <<m>>)) /\ m.step # "start"
                   /\ m.run = r /\ m.day = DayOf(w)
      <4>1. Found(w) \in RunRecord /\ "start" \notin Phases
        BY <1>2 DEF DigestInvariant, Records, Phases
      <4>2. /\ MessageFor(DayOf(w), Found(w)).step # "start"
            /\ MessageFor(DayOf(w), Found(w)).run = r
            /\ MessageFor(DayOf(w), Found(w)).day = DayOf(w)
        BY <1>4, <4>1 DEF MessageFor, RunRecord
      <4>4. /\ WatchdogMessage(DayOf(w), r) \in Message
            /\ MessageFor(DayOf(w), Found(w)) \in Message
        BY <1>2, <4>1, MessagesAreTyped DEF RunOrNone
      <4>3. /\ WatchdogMessage(DayOf(w), r).step # "start"
            /\ WatchdogMessage(DayOf(w), r).run = r
            /\ WatchdogMessage(DayOf(w), r).day = DayOf(w)
        BY DEF WatchdogMessage
      <4>5. QED  BY <1>4, <2>3, <4>2, <4>3, <4>4 DEF KeepWatching, Repair
    <3>2. AboutRun(m, r, record)
      BY <1>2, <1>4, <3>1 DEF AboutRun
    <3>3. ServesRun(Sending(w, <<m>>), r, record, issue, history)
      BY <1>2, <3>1, <3>2, SendingOneServes
    <3>4. QED  BY <2>2, <3>1, <3>3
  <2>4. CASE FailStuckRun(w) \/ StartStep(w)
    <3>1. record[DayOf(w)].run = r
      BY <1>2, <1>4
    <3>2. /\ ServesRun(Holding(w, "touch", Found(w)), r, record, issue, history)
          /\ \A status \in Unsuccessful :
               ServesRun(Finishing(Holding(w, "finish", Found(w)), status),
                         r, record, issue, history)
      BY <1>1, <1>2, <1>3, <1>4, <3>1, HoldingServes
    <3>3. \/ \E status \in Unsuccessful :
               Become(w, Finishing(Holding(w, "finish", Found(w)), status))
          \/ Become(w, Holding(w, "touch", Found(w)))
      BY <2>4 DEF FailStuckRun, StartStep, FirstMove, WithoutSummaries, Unsuccessful
    <3>4. QED  BY <2>2, <3>2, <3>3
  <2>5. CASE ObserveFinished(w)
    BY <1>6, <2>5 DEF ObserveFinished, Finished
  <2>6. QED  BY <1>4, <2>3, <2>4, <2>5
<1>7. QED
  BY <1>4, <1>5, <1>6 DEF KeepWatching, FailStuckRun, Repair, StartStep, OnRunning

\* An invocation that writes the record of its run serves it as before.
LEMMA WriterServes ==
    ASSUME DigestInvariant, NEW r \in Runs, minted \subseteq {r}, FirstRun(r),
           NEW w \in Workers, Busy(w), NEW rec, rec.run = r,
           record[DayOf(w)].status \in Unsuccessful => rec.status \in Unsuccessful
    PROVE  ServesRun(worker[w], r, [record EXCEPT ![DayOf(w)] = rec], issue, history)
<1> DEFINE later == [record EXCEPT ![DayOf(w)] = rec]
<1>1. /\ ServesRun(worker[w], r, record, issue, history) /\ worker[w].msg \in Message
      /\ DayOf(w) \in Days /\ worker[w] \in Invocation /\ record \in [Days -> RunRecord]
  BY InFirstRun, DayOfInvocation DEF DigestInvariant, Records
<1>2. /\ \A d \in Days : record[d].run = r => later[d].run = r
      /\ \A d \in Days : record[d].status \in Unsuccessful => later[d].status \in Unsuccessful
  BY <1>1
<1> HIDE DEF later
<1>3. ServesRun(worker[w], r, later, issue, history)
  BY <1>1, <1>2, ServesOn
<1>4. QED  BY <1>3 DEF later

\* save: the record moves on within the run, or the message comes back.
LEMMA FirstRunSaves ==
    ASSUME DigestInvariant, NEW r \in Runs, minted \subseteq {r}, FirstRun(r),
           NEW w \in Workers, worker[w].pc \in {"touch", "work", "choose"},
           NEW rec \in RunRecord, NEW l, Save(w, rec, l), UNCHANGED stepOnly,
           rec.run = worker[w].seen.run, rec.status = worker[w].seen.status,
           worker[w].fresh =>
             ServesRun(l, r, [record EXCEPT ![DayOf(w)] = rec], issue, history)
    PROVE  FirstRun(r)'
<1>1. Busy(w) /\ UNCHANGED <<issue, history, queue, lost>> /\ ~Clears(worker[w])
  <2>1. WellPlaced(worker[w]) /\ Busy(w)
    BY InFirstRun DEF Busy
  <2>2. QED  BY <2>1 DEF stepOnly, catalogueVars, Clears, Publishes
<1>2. /\ ServesRun(worker[w], r, record, issue, history) /\ WellPlaced(worker[w])
  BY <1>1, InFirstRun
<1>3. CASE worker[w].fresh
  <2>1. Write(w, rec, l)
    BY <1>3 DEF Save
  <2>2. /\ worker[w].seen = record[DayOf(w)] /\ worker[w].seen.status = "running"
    BY <1>2, <1>3 DEF DigestInvariant, Invocations, Sound, Placed, Writing, WellPlaced, DayOf
  <2>3. rec.run = r /\ record[DayOf(w)].run = r /\ rec.status \notin Finished
    BY <1>2, <2>2 DEF ServesRun, Holds, Finished
  <2>4. QED
    BY <1>1, <1>3, <2>1, <2>2, <2>3, FirstRunWrites DEF Unsuccessful, Finished
<1>4. CASE ~worker[w].fresh
  <2>1. Become(w, Only(w, "retry")) /\ UNCHANGED onlyWorker
    BY <1>4 DEF Save, stepOnly, onlyWorker
  <2>2. ServesRun(Only(w, "retry"), r, record, issue, history)
    BY <1>1, <1>2, OnlyServes
  <2>3. QED  BY <1>1, <2>1, <2>2, FirstRunQuiet
<1>5. QED  BY <1>3, <1>4

\* And the message of the next step is sent.
LEMMA FirstRunSavesAndSends ==
    ASSUME DigestInvariant, NEW r \in Runs, minted \subseteq {r}, FirstRun(r),
           NEW w \in Workers, worker[w].pc \in {"touch", "work", "choose"},
           NEW rec \in RunRecord, SaveAndSend(w, rec), UNCHANGED stepOnly,
           rec.run = worker[w].seen.run, rec.status = worker[w].seen.status
    PROVE  FirstRun(r)'
<1> DEFINE later == [record EXCEPT ![DayOf(w)] = rec]
           m     == MessageFor(DayOf(w), rec)
<1>1. /\ ServesRun(worker[w], r, record, issue, history) /\ DayOf(w) \in Days
      /\ worker[w].msg \in Message /\ DayOf(w) = worker[w].msg.day /\ m \in Message
      /\ AboutRun(worker[w].msg, r, record) /\ record \in [Days -> RunRecord]
  BY InFirstRun, MessagesAreTyped DEF Busy, DigestInvariant, Records
<1>2. rec.run = r
  BY <1>1 DEF ServesRun, Holds
<1>3. later[DayOf(w)].run = r
  BY <1>1, <1>2
<1>4. /\ m.step # "start" /\ m.run = r /\ m.day = DayOf(w)
  BY <1>2 DEF MessageFor, RunRecord, Phases
<1> HIDE DEF later, m
<1>5. AboutRun(m, r, later) /\ AboutRun(worker[w].msg, r, later)
  BY <1>1, <1>3, <1>4 DEF AboutRun
<1>6. ServesRun(Sending(w, <<m>>), r, later, issue, history)
  BY <1>1, <1>4, <1>5, SendingOneServes
<1>7. QED
  BY <1>6, FirstRunSaves DEF SaveAndSend, later, m

\* One that saves the record of the run holds it.
LEMMA SavedServes ==
    ASSUME DigestInvariant, NEW r \in Runs, minted \subseteq {r}, FirstRun(r),
           NEW w \in Workers, worker[w].pc \in {"touch", "work", "choose"},
           worker[w].fresh, NEW rec \in RunRecord,
           rec.run = worker[w].seen.run, rec.status = worker[w].seen.status
    PROVE  LET later == [record EXCEPT ![DayOf(w)] = rec]
           IN  /\ \A step \in {"touch", "work", "choose"} :
                    ServesRun(Holding(w, step, rec), r, later, issue, history)
               /\ \A status \in Unsuccessful :
                    ServesRun(Finishing(Holding(w, "finish", rec), status),
                              r, later, issue, history)
<1> DEFINE later == [record EXCEPT ![DayOf(w)] = rec]
<1>1. /\ Busy(w) /\ ServesRun(worker[w], r, record, issue, history) /\ WellPlaced(worker[w])
      /\ Invocations /\ DayOf(w) \in Days /\ record \in [Days -> RunRecord]
  BY InFirstRun DEF Busy, DigestInvariant, Records
<1>2. worker[w].seen = record[DayOf(w)] /\ rec.run = r
  BY <1>1 DEF Invocations, Sound, DayOf, ServesRun, Holds
<1>3. later[DayOf(w)] = rec
  BY <1>1
<1>4. ServesRun(worker[w], r, later, issue, history)
  BY <1>1, <1>2, WriterServes
<1> HIDE DEF later
<1>5. ~worker[w].rescue /\ worker[w].msg.step # "start"
  BY <1>1 DEF WellPlaced
<1>6. QED
  BY <1>1, <1>2, <1>3, <1>4, <1>5, HoldingServes DEF later

\* touch and stepPlan.
LEMMA FirstRunPlans ==
    ASSUME DigestInvariant, NEW r \in Runs, minted \subseteq {r}, FirstRun(r),
           NEW w \in Workers, Touch(w) \/ PlanPage(w)
    PROVE  FirstRun(r)'
<1> DEFINE rec == worker[w].seen
<1>1. /\ worker[w].pc \in {"touch", "work"} /\ UNCHANGED stepOnly /\ rec \in RunRecord
  BY DayOfInvocation DEF Touch, PlanPage, DigestInvariant
<1>2. CASE Touch(w)
  <2>1. worker[w].fresh => ServesRun(Holding(w, "work", rec), r,
                                     [record EXCEPT ![DayOf(w)] = rec], issue, history)
    BY <1>1, SavedServes
  <2>2. QED  BY <1>1, <1>2, <2>1, FirstRunSaves DEF Touch
<1>3. CASE PlanPage(w)
  <2>1. PICK next \in RunRecord : /\ SaveAndSend(w, next) /\ next.run = rec.run
                                  /\ next.status = rec.status
    <3>1. CASE SaveAndSend(w, [rec EXCEPT !.cursor = @ + 1])
      <4>1. [rec EXCEPT !.cursor = @ + 1] \in RunRecord
        BY <1>1 DEF RunRecord
      <4>2. QED  BY <1>1, <3>1, <4>1 DEF RunRecord
    <3>2. CASE \E n \in 0 .. MaxRefs :
                 SaveAndSend(w, [rec EXCEPT !.phase = "evaluate", !.cursor = 0, !.size = n])
      <4>1. PICK n \in 0 .. MaxRefs :
                 SaveAndSend(w, [rec EXCEPT !.phase = "evaluate", !.cursor = 0, !.size = n])
        BY <3>2
      <4>2. [rec EXCEPT !.phase = "evaluate", !.cursor = 0, !.size = n] \in RunRecord
        <5>1. n \in Nat /\ rec \in RunRecord /\ "evaluate" \in Phases
          BY <1>1, BoundsAssumption DEF Phases
        <5>2. QED  BY <5>1 DEF RunRecord
      <4>3. QED  BY <1>1, <4>1, <4>2 DEF RunRecord
    <3>3. QED  BY <1>3, <3>1, <3>2 DEF PlanPage
  <2>2. QED  BY <1>1, <2>1, FirstRunSavesAndSends
<1>4. QED  BY <1>2, <1>3

\* stepEvaluate and beginSummarize.
LEMMA FirstRunEvaluates ==
    ASSUME DigestInvariant, NEW r \in Runs, minted \subseteq {r}, FirstRun(r),
           NEW w \in Workers, Evaluate(w) \/ ChooseNone(w) \/ Choose(w)
    PROVE  FirstRun(r)'
<1> DEFINE rec == worker[w].seen
<1>1. /\ worker[w].pc \in {"work", "choose"} /\ rec \in RunRecord /\ Busy(w)
  BY DayOfInvocation DEF Evaluate, ChooseNone, Choose, DigestInvariant, Busy
<1>2. CASE Evaluate(w)
  <2>1. PICK e \in Evaluations(rec, Last(w)) :
          LET next == [rec EXCEPT !.cursor = e.cursor, !.exhausted = e.exhausted]
          IN  IF e.done THEN Save(w, next, Holding(w, "choose", next))
                        ELSE SaveAndSend(w, next)
    BY <1>2 DEF Evaluate
  <2> DEFINE next == [rec EXCEPT !.cursor = e.cursor, !.exhausted = e.exhausted]
  <2>2. e.cursor \in Nat /\ e.exhausted \in BOOLEAN
    BY <1>1 DEF Evaluations, RunRecord
  <2>3. next \in RunRecord /\ next.run = rec.run /\ next.status = rec.status
    BY <1>1, <2>2 DEF RunRecord
  <2>4. \/ Save(w, next, Holding(w, "choose", next))
        \/ SaveAndSend(w, next)
    BY <2>1
  <2>5. UNCHANGED stepOnly
    BY <1>2 DEF Evaluate
  <2> HIDE DEF next
  <2>6. CASE SaveAndSend(w, next)
    BY <1>1, <2>3, <2>5, <2>6, FirstRunSavesAndSends
  <2>7. CASE Save(w, next, Holding(w, "choose", next))
    <3>1. worker[w].fresh => ServesRun(Holding(w, "choose", next), r,
                                       [record EXCEPT ![DayOf(w)] = next], issue, history)
      BY <1>1, <2>3, SavedServes
    <3>2. QED  BY <1>1, <2>3, <2>5, <2>7, <3>1, FirstRunSaves
  <2>8. QED  BY <2>4, <2>6, <2>7
<1>3. CASE ChooseNone(w)
  <2> DEFINE l == Finishing(worker[w], WithoutSummaries(rec))
  <2>1. /\ ServesRun(worker[w], r, record, issue, history) /\ WellPlaced(worker[w])
        /\ worker[w] \in Invocation /\ worker[w].pc = "choose"
    BY <1>1, <1>3, InFirstRun DEF ChooseNone, Invocations
  <2>2. /\ l.pc = "finish" /\ l.seen = worker[w].seen /\ l.fresh = worker[w].fresh
        /\ l.msg = worker[w].msg /\ l.goal \in Unsuccessful
        /\ l.rescue = worker[w].rescue /\ l.doomed = worker[w].doomed
        /\ l.out = worker[w].out
    BY <2>1 DEF Finishing, Invocation, WithoutSummaries, Unsuccessful
  <2>3. Become(w, l) /\ UNCHANGED onlyWorker /\ ~Clears(worker[w])
    BY <1>3, <2>1 DEF ChooseNone, Clears, Publishes
  <2> HIDE DEF l
  <2>4. WellPlaced(l) /\ ~Publishes(l) /\ ~Removes(l) /\ Holds(worker[w])
    BY <2>1, <2>2 DEF WellPlaced, Publishes, Removes, RemoveSteps, Unsuccessful, Finished,
       Holds
  <2>5. ServesRun(l, r, record, issue, history)
    BY <2>1, <2>2, <2>4 DEF ServesRun
  <2>6. QED  BY <2>3, <2>5, FirstRunQuiet
<1>4. CASE Choose(w)
  <2>1. PICK n \in 1 .. MaxPicks :
          SaveAndSend(w, [rec EXCEPT !.phase = "summarize", !.cursor = 0, !.size = n])
    BY <1>4 DEF Choose
  <2> DEFINE next == [rec EXCEPT !.phase = "summarize", !.cursor = 0, !.size = n]
  <2>2. next \in RunRecord /\ next.run = rec.run /\ next.status = rec.status
    <3>1. n \in Nat /\ rec \in RunRecord /\ "summarize" \in Phases
      BY <1>1, BoundsAssumption DEF Phases
    <3>2. QED  BY <3>1 DEF RunRecord
  <2>3. SaveAndSend(w, next) /\ UNCHANGED stepOnly
    BY <1>4, <2>1 DEF Choose
  <2> HIDE DEF next
  <2>4. QED  BY <1>1, <2>2, <2>3, FirstRunSavesAndSends
<1>5. QED  BY <1>2, <1>3, <1>4

\* stepSummarize.
LEMMA FirstRunSummarizes ==
    ASSUME DigestInvariant, NEW r \in Runs, minted \subseteq {r}, FirstRun(r),
           NEW w \in Workers, Summarize(w)
    PROVE  FirstRun(r)'
<1> DEFINE held == worker[w].seen
<1>1. /\ worker[w].pc = "work" /\ UNCHANGED stepOnly /\ held \in RunRecord
  BY DayOfInvocation DEF Summarize, DigestInvariant
<1>2. PICK good \in BOOLEAN :
        LET counted == [held EXCEPT !.cursor = @ + 1, !.kept = @ \/ good,
                                    !.exhausted = @ \/ Last(w)]
            rec == [counted EXCEPT !.phase = PhaseAfter(counted)]
        IN  IF Summarized(rec)
            THEN Save(w, rec, Finishing(Holding(w, "finish", rec), WithoutSummaries(rec)))
            ELSE SaveAndSend(w, rec)
  BY DEF Summarize
<1> DEFINE counted == [held EXCEPT !.cursor = @ + 1, !.kept = @ \/ good,
                                   !.exhausted = @ \/ Last(w)]
           rec == [counted EXCEPT !.phase = PhaseAfter(counted)]
<1>3. counted \in RunRecord /\ counted.run = held.run /\ counted.status = held.status
  <2> DEFINE n == held.cursor + 1
             k == held.kept \/ good
             x == held.exhausted \/ Last(w)
  <2>1. k \in BOOLEAN /\ x \in BOOLEAN
    OBVIOUS
  <2>2. n \in Nat /\ held \in RunRecord
    BY <1>1 DEF RunRecord
  <2>3. counted = [held EXCEPT !.cursor = n, !.kept = k, !.exhausted = x]
    OBVIOUS
  <2> HIDE DEF counted, n, k, x, held
  <2>4. QED
    BY <2>1, <2>2, <2>3, Zenon DEF RunRecord
<1>4. rec \in RunRecord /\ rec.run = held.run /\ rec.status = held.status
  <2>1. PhaseAfter(counted) \in Phases
    BY DEF PhaseAfter, Phases
  <2> HIDE DEF counted
  <2>2. QED  BY <1>3, <2>1 DEF RunRecord
<1>5. \/ Save(w, rec, Finishing(Holding(w, "finish", rec), WithoutSummaries(rec)))
      \/ SaveAndSend(w, rec)
  BY <1>2
<1> HIDE DEF counted, rec
<1>6. CASE SaveAndSend(w, rec)
  BY <1>1, <1>4, <1>6, FirstRunSavesAndSends
<1>7. CASE Save(w, rec, Finishing(Holding(w, "finish", rec), WithoutSummaries(rec)))
  <2>1. WithoutSummaries(rec) \in Unsuccessful
    BY DEF WithoutSummaries, Unsuccessful
  <2>2. worker[w].fresh =>
          ServesRun(Finishing(Holding(w, "finish", rec), WithoutSummaries(rec)), r,
                    [record EXCEPT ![DayOf(w)] = rec], issue, history)
    BY <1>1, <1>4, <2>1, SavedServes
  <2>3. QED  BY <1>1, <1>4, <1>7, <2>2, FirstRunSaves
<1>8. QED  BY <1>5, <1>6, <1>7

\* An issue that is stored is listed by the invocation that stored it.
LEMMA FirstRunStores ==
    ASSUME DigestInvariant, NEW r \in Runs, minted \subseteq {r}, FirstRun(r),
           NEW w \in Workers, StoreIssue(w)
    PROVE  FirstRun(r)'
<1> DEFINE l == [worker[w] EXCEPT !.pc = "list", !.goal = "published"]
<1>1. /\ worker[w].pc = "work" /\ Busy(w) /\ Become(w, l)
      /\ UNCHANGED <<record, history, queue, lost>>
      /\ issue' = [issue EXCEPT ![DayOf(w)] = worker[w].seen.run]
  BY DEF StoreIssue, Busy
<1>2. /\ ServesRun(worker[w], r, record, issue, history) /\ WellPlaced(worker[w])
      /\ worker[w] \in Invocation /\ DayOf(w) \in Days /\ DayOf(w) = worker[w].msg.day
      /\ issue \in [Days -> RunOrNone] /\ r # NoRun
  BY <1>1, InFirstRun DEF Invocations, DigestInvariant, Surroundings
<1>3. /\ l.pc = "list" /\ l.seen = worker[w].seen /\ l.fresh = worker[w].fresh
      /\ l.msg = worker[w].msg /\ l.goal = "published"
      /\ l.rescue = worker[w].rescue /\ l.doomed = worker[w].doomed
      /\ l.out = worker[w].out
  BY <1>2 DEF Invocation
<1> HIDE DEF l
<1>4. worker[w].seen.run = r /\ record[DayOf(w)].run = r
  BY <1>1, <1>2 DEF ServesRun, Holds
<1>5. /\ issue'[DayOf(w)] = r
      /\ \A d \in Days : d # DayOf(w) => issue'[d] = issue[d]
  BY <1>1, <1>2, <1>4
<1>6. WellPlaced(l) /\ ~Removes(l)
  BY <1>1, <1>2, <1>3 DEF WellPlaced, Removes, Publishes
<1>7. ServesRun(l, r, record, issue', history')
  BY <1>1, <1>2, <1>3, <1>4, <1>5, <1>6 DEF ServesRun, Busy
<1>8. l.msg.day = DayOf(w) /\ Clears(l)
  BY <1>2, <1>3 DEF Clears
<1>9. /\ \A d \in Days : issue'[d] # NoRun => issue'[d] = r /\ record[d].run = r
      /\ \A d \in Days : issue[d] = r => issue'[d] = r
  BY <1>4, <1>5 DEF FirstRun
<1>10. /\ lost \subseteq lost' /\ \A m \in queue : m \in queue'
       /\ \A m \in queue' : AboutRun(m, r, record)
       /\ \A d \in Days : history[d] = r => history'[d] = r
       /\ \A d \in Days : d # DayOf(w) => issue'[d] \in {issue[d], NoRun}
  BY <1>1, <1>5 DEF FirstRun
<1>11. QED
  BY <1>1, <1>7, <1>8, <1>9, <1>10, FirstRunMoves

\* What Removing makes of an invocation with issues left, ...
LEMMA RemovingServes ==
    ASSUME NEW r, NEW w \in Workers, worker[w] \in Invocation,
           NEW iss, NEW hist, ServesRun(worker[w], r, record, iss, hist),
           worker[w].pc \in RemoveSteps, NEW ds \in SUBSET Days,
           \A d \in ds : record[d].run = r, worker[w].goal # "published"
    PROVE  /\ ServesRun(Removing(w, ds), r, record, iss, hist)
           /\ DayOf(w) \in ds => /\ Removing(w, ds).msg.day = DayOf(w)
                                 /\ Clears(Removing(w, ds))
<1>1. CASE ds # {}
  <2> DEFINE l == [worker[w] EXCEPT !.pc = "delete", !.doomed = ds]
  <2>1. /\ l.pc = "delete" /\ l.seen = worker[w].seen /\ l.fresh = worker[w].fresh
        /\ l.msg = worker[w].msg /\ l.goal = worker[w].goal
        /\ l.rescue = worker[w].rescue /\ l.doomed = ds /\ l.out = worker[w].out
    BY DEF Invocation
  <2> HIDE DEF l
  <2>2. Removes(worker[w]) /\ Removes(l) /\ ~Publishes(l) /\ ~Holds(l)
    BY <2>1 DEF Removes, RemoveSteps, Publishes, Holds
  <2>3. WellPlaced(l)
    BY <2>1, <2>2 DEF WellPlaced, ServesRun, Removes, RemoveSteps, Publishes, Final
  <2>4. ServesRun(l, r, record, iss, hist)
    BY <2>1, <2>2, <2>3 DEF ServesRun, RemoveSteps
  <2>5. DayOf(w) \in ds => l.msg.day = DayOf(w) /\ Clears(l)
    BY <2>1 DEF Clears, DayOf
  <2>6. QED  BY <1>1, <2>4, <2>5 DEF Removing, l
<1>2. CASE ds = {}
  <2>1. Removing(w, ds) = Only(w, "ack")
    BY <1>2 DEF Removing, Publishing
  <2>2. ServesRun(Only(w, "ack"), r, record, iss, hist)
    BY OnlyServes DEF Busy, RemoveSteps
  <2>3. QED  BY <1>2, <2>1, <2>2
<1>3. QED  BY <1>1, <1>2

\* ... which lists and deletes them.
LEMMA FirstRunRemoves ==
    ASSUME DigestInvariant, NEW r \in Runs, minted \subseteq {r}, FirstRun(r),
           NEW w \in Workers, worker[w].goal # "published",
           ListIssues(w) \/ DeleteIssue(w) \/ RemovalFails(w)
    PROVE  FirstRun(r)'
<1>1. worker[w].pc \in RemoveSteps /\ Busy(w) /\ Removes(worker[w]) /\ ~Publishing(w)
  BY DEF ListIssues, DeleteIssue, RemovalFails, RemoveSteps, Busy, Removes, Publishing
<1>2. /\ ServesRun(worker[w], r, record, issue, history) /\ WellPlaced(worker[w])
      /\ worker[w] \in Invocation /\ DayOf(w) \in Days /\ DayOf(w) = worker[w].msg.day
      /\ issue \in [Days -> RunOrNone] /\ r # NoRun /\ worker[w].doomed \subseteq Days
  BY <1>1, InFirstRun, InvocationFields DEF Invocations, DigestInvariant, Surroundings
<1>3. record[DayOf(w)].status \in Unsuccessful /\ record[DayOf(w)].run = r
  BY <1>1, <1>2 DEF ServesRun
<1>4. CASE ListIssues(w)
  <2> DEFINE ds == {d \in Days : issue[d] # NoRun}
  <2>1. Become(w, Removing(w, ds)) /\ UNCHANGED onlyWorker
    <3>1. Excepted(w) = {}
      BY <1>1 DEF Excepted
    <3>2. ds \ {} = ds
      OBVIOUS
    <3>3. QED  BY <1>4, <3>1, <3>2 DEF ListIssues
  <2>2. \A d \in ds : record[d].run = r
    BY DEF FirstRun
  <2>3. /\ ServesRun(Removing(w, ds), r, record, issue, history)
        /\ DayOf(w) \in ds => /\ Removing(w, ds).msg.day = DayOf(w)
                              /\ Clears(Removing(w, ds))
    BY <1>1, <1>2, <2>2, RemovingServes
  <2>4. DayOf(w) \in ds \/ issue[DayOf(w)] = NoRun
    BY <1>2
  <2> HIDE DEF ds
  <2>5. QED  BY <2>1, <2>3, <2>4, FirstRunQuiet
<1>5. CASE DeleteIssue(w)
  <2>1. PICK d \in worker[w].doomed :
          /\ issue' = [issue EXCEPT ![d] = NoRun]
          /\ Become(w, Removing(w, worker[w].doomed \ {d}))
    BY <1>5 DEF DeleteIssue
  <2>2. d = DayOf(w)
    BY <1>2, <1>3 DEF ServesRun, FirstRun
  <2>3. UNCHANGED <<record, history, queue, lost>>
    BY <1>5 DEF DeleteIssue
  <2>4. /\ issue'[DayOf(w)] = NoRun
        /\ \A e \in Days : e # DayOf(w) => issue'[e] = issue[e]
    BY <1>2, <2>1, <2>2
  <2>5. ServesRun(worker[w], r, record, issue', history')
    <3>1. ~Publishes(worker[w])
      BY DEF Publishes
    <3>2. QED  BY <1>2, <3>1 DEF ServesRun
  <2>6. ServesRun(Removing(w, worker[w].doomed \ {d}), r, record, issue', history')
    <3>1. \A e \in worker[w].doomed \ {d} : record[e].run = r
      BY <1>2 DEF ServesRun
    <3>2. QED  BY <1>1, <1>2, <2>5, <3>1, RemovingServes
  <2>7. /\ \A e \in Days : issue'[e] # NoRun => issue'[e] = r /\ record[e].run = r
        /\ \A e \in Days :
             record[e].status \notin Unsuccessful /\ issue[e] = r => issue'[e] = r
    BY <1>3, <2>4 DEF FirstRun
  <2>8. QED
    BY <2>1, <2>3, <2>4, <2>6, <2>7, FirstRunMoves DEF FirstRun
<1>6. CASE RemovalFails(w)
  <2>1. PICK s \in {"ack", "retry"} : Become(w, Only(w, s)) /\ (~Last(w) => s = "retry")
    BY <1>6 DEF RemovalFails
  <2>2. /\ UNCHANGED <<record, issue, history, queue>> /\ lost \subseteq lost'
        /\ Last(w) => lost' # {}
    BY <1>6 DEF RemovalFails, Fails, catalogueVars
  <2>3. ServesRun(Only(w, s), r, record, issue, history)
    BY <1>1, <1>2, OnlyServes
  <2>4. ServesRun(Only(w, s), r, record, issue', history')
    BY <2>2, <2>3
  <2>5. ~Last(w) => Only(w, s).msg.day = DayOf(w) /\ Clears(Only(w, s))
    <3>1. ~Last(w) => worker[w].msg.step # "start"
      BY <1>1, <1>2 DEF WellPlaced, RemoveSteps, Last, Final
    <3>2. QED  BY <1>2, <2>1, <3>1, OnlyFields DEF Clears
  <2>6. QED
    BY <2>1, <2>2, <2>4, <2>5, FirstRunMoves DEF FirstRun
<1>7. QED  BY <1>4, <1>5, <1>6

\* stepPublish goes on: there is no other issue, and the history follows.
LEMMA FirstRunPublishes ==
    ASSUME DigestInvariant, NEW r \in Runs, minted \subseteq {r}, FirstRun(r),
           NEW w \in Workers,
           \/ worker[w].goal = "published" /\ (ListIssues(w) \/ DeleteIssue(w) \/ RemovalFails(w))
           \/ ReplaceHistory(w)
    PROVE  FirstRun(r)'
<1>1. Busy(w) /\ worker[w].pc \in {"list", "delete", "history"}
  BY DEF ListIssues, DeleteIssue, RemovalFails, ReplaceHistory, RemoveSteps, Busy
<1>2. /\ ServesRun(worker[w], r, record, issue, history) /\ WellPlaced(worker[w])
      /\ worker[w] \in Invocation /\ DayOf(w) \in Days /\ DayOf(w) = worker[w].msg.day
      /\ history \in [Days -> RunOrNone] /\ r # NoRun
  BY <1>1, InFirstRun DEF Invocations, DigestInvariant, Surroundings
<1>3. /\ worker[w].goal = "published" /\ Publishes(worker[w]) /\ Publishing(w)
      /\ ~DeleteIssue(w) /\ ~RemovalFails(w)
  BY <1>2 DEF WellPlaced, ReplaceHistory, Publishes, Publishing, DeleteIssue, RemovalFails,
     ListIssues
<1>4. worker[w].seen.run = r /\ record[DayOf(w)].run = r
  BY <1>2, <1>3 DEF ServesRun, Holds
<1>5. CASE ListIssues(w)
  <2> DEFINE l == [worker[w] EXCEPT !.pc = "history", !.doomed = {}]
  <2>1. {d \in Days : issue[d] # NoRun} \ {DayOf(w)} = {}
    BY <1>2, <1>4 DEF FirstRun
  <2>2. Become(w, l) /\ UNCHANGED onlyWorker
    BY <1>3, <1>5, <2>1 DEF ListIssues, Excepted, Removing
  <2>3. /\ l.pc = "history" /\ l.seen = worker[w].seen /\ l.fresh = worker[w].fresh
        /\ l.msg = worker[w].msg /\ l.goal = worker[w].goal
        /\ l.rescue = worker[w].rescue /\ l.doomed = {} /\ l.out = worker[w].out
    BY <1>2 DEF Invocation
  <2>4. worker[w].pc = "list"
    BY <1>5 DEF ListIssues
  <2> HIDE DEF l
  <2>5. WellPlaced(l) /\ ~Removes(l) /\ Publishes(l)
    BY <1>2, <1>3, <2>3, <2>4 DEF WellPlaced, Removes, RemoveSteps, Publishes
  <2>6. ServesRun(l, r, record, issue, history)
    BY <1>2, <1>3, <1>4, <2>3, <2>4, <2>5 DEF ServesRun
  <2>7. l.msg.day = DayOf(w) /\ Clears(l)
    BY <1>2, <2>3, <2>5 DEF Clears
  <2>8. QED  BY <2>2, <2>6, <2>7, FirstRunQuiet
<1>6. CASE ReplaceHistory(w)
  <2> DEFINE l == [worker[w] EXCEPT !.pc = "finish"]
  <2>1. /\ Become(w, l) /\ UNCHANGED <<record, issue, queue, lost>>
        /\ history' = [history EXCEPT ![DayOf(w)] = r] /\ worker[w].pc = "history"
    BY <1>4, <1>6 DEF ReplaceHistory, Goto
  <2>2. /\ l.pc = "finish" /\ l.seen = worker[w].seen /\ l.fresh = worker[w].fresh
        /\ l.msg = worker[w].msg /\ l.goal = worker[w].goal
        /\ l.rescue = worker[w].rescue /\ l.doomed = worker[w].doomed
        /\ l.out = worker[w].out
    BY <1>2 DEF Invocation
  <2> HIDE DEF l
  <2>3. WellPlaced(l) /\ ~Removes(l) /\ Publishes(l)
    BY <1>2, <1>3, <2>1, <2>2 DEF WellPlaced, Removes, RemoveSteps, Publishes, Finished
  <2>4. history'[DayOf(w)] = r /\ \A d \in Days : history[d] = r => history'[d] = r
    BY <1>2, <2>1
  <2>5. ServesRun(l, r, record, issue', history')
    BY <1>2, <1>3, <1>4, <2>1, <2>2, <2>3, <2>4 DEF ServesRun
  <2>6. l.msg.day = DayOf(w) /\ Clears(l)
    BY <1>2, <2>2, <2>3 DEF Clears
  <2>7. QED
    BY <2>1, <2>4, <2>5, <2>6, FirstRunMoves DEF FirstRun
<1>7. QED  BY <1>3, <1>5, <1>6

\* finishPublished, finishEmpty and failDay, if the record is still the one held.
LEMMA FirstRunFinishes ==
    ASSUME DigestInvariant, NEW r \in Runs, minted \subseteq {r}, FirstRun(r),
           NEW w \in Workers, Finish(w)
    PROVE  FirstRun(r)'
<1> DEFINE rec   == [worker[w].seen EXCEPT !.status = worker[w].goal]
           next  == IF worker[w].goal = "published" THEN "ack" ELSE "list"
           later == [record EXCEPT ![DayOf(w)] = rec]
<1>1. /\ worker[w].pc = "finish" /\ Busy(w) /\ worker[w].fresh
      /\ Write(w, rec, Only(w, next)) /\ UNCHANGED <<issue, history, queue, lost>>
  BY DEF Finish, Busy, stepOnly, catalogueVars
<1>2. /\ ServesRun(worker[w], r, record, issue, history) /\ WellPlaced(worker[w])
      /\ worker[w].seen \in RunRecord /\ DayOf(w) \in Days /\ DayOf(w) = worker[w].msg.day
      /\ Sound(worker[w], record) /\ record \in [Days -> RunRecord]
  BY <1>1, InFirstRun, DayOfInvocation DEF DigestInvariant, Invocations, Records
<1>3. /\ worker[w].goal \in Finished /\ worker[w].seen.run = r
      /\ worker[w].seen = record[DayOf(w)]
  BY <1>1, <1>2 DEF WellPlaced, ServesRun, Holds, Sound
<1>4. rec \in RunRecord /\ rec.run = r /\ rec.status = worker[w].goal
  BY <1>2, <1>3 DEF RunRecord
<1>5. record[DayOf(w)].status \in Unsuccessful => rec.status \in Unsuccessful
  BY <1>1, <1>2, <1>3, <1>4 DEF Sound, Placed, Writing, WellPlaced, Unsuccessful
<1>6. rec.status = "published" => issue[DayOf(w)] = r /\ history[DayOf(w)] = r
  BY <1>1, <1>2, <1>4 DEF ServesRun, Publishes
<1>7. later[DayOf(w)] = rec
  BY <1>2
<1> HIDE DEF rec, later
<1>8. ServesRun(worker[w], r, later, issue, history)
  BY <1>1, <1>4, <1>5, WriterServes DEF later
<1>9. next = "list" => rec.status \in Unsuccessful
  BY <1>3, <1>4 DEF Finished, Unsuccessful
<1>10. worker[w].msg.step # "start" \/ Last(w)
  BY <1>1, <1>2 DEF WellPlaced, Last, Final
<1>11. next \in {"ack", "list"} /\ (rec.status \in Unsuccessful => next = "list")
  BY <1>4 DEF Unsuccessful
<1> HIDE DEF next
<1>12. ServesRun(Only(w, next), r, later, issue, history)
  BY <1>1, <1>4, <1>7, <1>8, <1>9, <1>10, <1>11, OnlyServes
<1>13. rec.status \in Unsuccessful =>
          Clears(Only(w, next)) /\ Only(w, next).msg.day = DayOf(w)
  BY <1>2, <1>11, OnlyFields DEF Clears
<1>14. record[DayOf(w)].run = r
  BY <1>3
<1>15. QED
  BY <1>1, <1>4, <1>5, <1>6, <1>12, <1>13, <1>14, FirstRunWrites DEF later

\* And if it is not.
LEMMA FirstRunLoses ==
    ASSUME DigestInvariant, NEW r \in Runs, minted \subseteq {r}, FirstRun(r),
           NEW w \in Workers, FinishLost(w) \/ AckSettled(w) \/ LeaveUnsaved(w)
    PROVE  FirstRun(r)'
<1>1. /\ Busy(w) /\ UNCHANGED <<record, issue, history, queue>> /\ lost \subseteq lost'
      /\ \/ worker[w].pc = "finish" /\ ~worker[w].fresh
         \/ worker[w].pc = "recheck"
  BY DEF FinishLost, AckSettled, LeaveUnsaved, Busy, onlyWorker, catalogueVars, Fails
<1>2. /\ ServesRun(worker[w], r, record, issue, history) /\ WellPlaced(worker[w])
      /\ worker[w] \in Invocation /\ DayOf(w) = worker[w].msg.day
  BY <1>1, InFirstRun DEF Invocations
<1>3. Clears(worker[w]) => FinishLost(w) /\ Publishes(worker[w])
  BY <1>1 DEF Clears, FinishLost, AckSettled, LeaveUnsaved, Publishes
<1>4. ASSUME NEW l, Become(w, l), ServesRun(l, r, record, issue, history),
             Clears(worker[w]) => l.msg.day = DayOf(w) /\ Clears(l)
      PROVE  FirstRun(r)'
  <2>1. ServesRun(l, r, record, issue', history')
    BY <1>1, <1>4
  <2>2. QED
    BY <1>1, <1>4, <2>1, FirstRunMoves DEF FirstRun
<1>5. CASE FinishLost(w) /\ worker[w].goal = "failed"
  <2> DEFINE l == [worker[w] EXCEPT !.pc = "recheck"]
  <2>1. Become(w, l) /\ ~Clears(worker[w]) /\ worker[w].pc = "finish"
    BY <1>3, <1>5 DEF FinishLost, Publishes
  <2>2. /\ l.pc = "recheck" /\ l.seen = worker[w].seen /\ l.fresh = worker[w].fresh
        /\ l.msg = worker[w].msg /\ l.goal = worker[w].goal
        /\ l.rescue = worker[w].rescue /\ l.doomed = worker[w].doomed
        /\ l.out = worker[w].out
    BY <1>2 DEF Invocation
  <2> HIDE DEF l
  <2>3. WellPlaced(l) /\ ~Publishes(l) /\ ~Removes(l)
    BY <1>2, <2>1, <2>2 DEF WellPlaced, Publishes, Removes, RemoveSteps, Final
  <2>4. ServesRun(l, r, record, issue, history)
    BY <1>2, <2>1, <2>2, <2>3 DEF ServesRun, Holds
  <2>5. QED  BY <1>4, <2>1, <2>4
<1>6. CASE FinishLost(w) /\ worker[w].goal # "failed"
  <2>1. Become(w, Only(w, "retry"))
    BY <1>6 DEF FinishLost
  <2>2. ServesRun(Only(w, "retry"), r, record, issue, history)
    BY <1>1, <1>2, OnlyServes
  <2>3. Clears(worker[w]) => worker[w].msg.step # "start"
    BY <1>2, <1>3 DEF WellPlaced
  <2>4. Clears(worker[w]) =>
          Only(w, "retry").msg.day = DayOf(w) /\ Clears(Only(w, "retry"))
    BY <1>2, <2>3, OnlyFields DEF Clears
  <2>5. QED  BY <1>4, <2>1, <2>2, <2>4
<1>7. CASE AckSettled(w) \/ LeaveUnsaved(w)
  <2>1. PICK s \in {"ack", "retry"} : Become(w, Only(w, s))
    BY <1>7 DEF AckSettled, LeaveUnsaved
  <2>2. ServesRun(Only(w, s), r, record, issue, history)
    BY <1>1, <1>2, OnlyServes
  <2>3. ~Clears(worker[w])
    BY <1>3, <1>7 DEF FinishLost, AckSettled, LeaveUnsaved
  <2>4. QED  BY <1>4, <2>1, <2>2, <2>3
<1>8. QED  BY <1>5, <1>6, <1>7

\* An exception, and the catch block of a last delivery.
LEMMA FirstRunCatches ==
    ASSUME DigestInvariant, NEW r \in Runs, minted \subseteq {r}, FirstRun(r),
           NEW w \in Workers,
           Throw(w) \/ RescueNothing(w) \/ RescueUnreadable(w) \/ Rescue(w)
    PROVE  FirstRun(r)'
<1>1. Busy(w) /\ UNCHANGED <<record, issue, history, queue>>
  BY DEF Throw, Throwing, RescueNothing, RescueUnreadable, Rescue, Busy, TrySteps,
     RemoveSteps, onlyWorker, catalogueVars
<1>2. /\ ServesRun(worker[w], r, record, issue, history) /\ WellPlaced(worker[w])
      /\ worker[w] \in Invocation /\ DayOf(w) \in Days /\ DayOf(w) = worker[w].msg.day
      /\ Found(w) = record[DayOf(w)] /\ Found(w).run \in {r, NoRun} /\ r # NoRun
      /\ Found(w).status # "none" => Found(w).run = r
      /\ worker[w].msg.step # "start" => worker[w].msg.run = r /\ Found(w).run = r
      /\ AboutRun(worker[w].msg, r, record) /\ Invocations
  BY <1>1, InFirstRun DEF Invocations
<1>3. ASSUME NEW l, Become(w, l), ServesRun(l, r, record, issue, history),
             lost \subseteq lost',
             record[DayOf(w)].status \in Unsuccessful /\ Clears(worker[w])
               => \/ lost' # {}
                  \/ l.msg.day = DayOf(w) /\ Clears(l)
      PROVE  FirstRun(r)'
  <2>1. ServesRun(l, r, record, issue', history')
    BY <1>1, <1>3
  <2>2. QED
    BY <1>1, <1>3, <2>1, FirstRunMoves DEF FirstRun
<1>4. \A s \in {"ack", "retry"} : ServesRun(Only(w, s), r, record, issue, history)
  BY <1>1, <1>2, OnlyServes
<1>5. CASE Throw(w)
  <2>1. /\ Become(w, Only(w, IF Last(w) THEN "rescue" ELSE "retry")) /\ UNCHANGED lost
        /\ Throwing(w) /\ ~worker[w].rescue
    BY <1>5 DEF Throw, onlyWorker
  <2>2. Clears(worker[w]) => worker[w].msg.step # "start"
    <3>1. worker[w].pc = "list" => Publishes(worker[w])
      BY <2>1 DEF Throwing, TrySteps, Publishing, Publishes
    <3>2. worker[w].pc \notin {"retry", "rescue", "delete"}
      BY <1>2, <2>1 DEF Throwing, TrySteps, RemoveSteps, Publishing, WellPlaced
    <3>3. QED  BY <1>2, <2>1, <3>1, <3>2 DEF Clears, WellPlaced
  <2>3. CASE Last(w)
    <3>1. ServesRun(Only(w, "rescue"), r, record, issue, history)
      BY <1>1, <1>2, <2>3, OnlyServes
    <3>2. Only(w, "rescue").msg.day = DayOf(w) /\ Clears(Only(w, "rescue"))
      BY <1>2, OnlyFields DEF Clears
    <3>3. QED  BY <1>3, <2>1, <2>3, <3>1, <3>2
  <2>4. CASE ~Last(w)
    <3>1. Clears(worker[w]) =>
            Only(w, "retry").msg.day = DayOf(w) /\ Clears(Only(w, "retry"))
      BY <1>2, <2>2, OnlyFields DEF Clears
    <3>2. QED  BY <1>3, <1>4, <2>1, <2>4, <3>1
  <2>5. QED  BY <2>3, <2>4
<1>6. CASE RescueNothing(w)
  <2>1. Become(w, Only(w, "ack")) /\ UNCHANGED lost /\ Found(w).run \notin Rescuable(w)
    BY <1>6 DEF RescueNothing, onlyWorker
  <2>2. record[DayOf(w)].status \notin Unsuccessful
    BY <1>2, <2>1 DEF Rescuable, Unsuccessful
  <2>3. QED  BY <1>3, <1>4, <2>1, <2>2
<1>7. CASE RescueUnreadable(w)
  <2>1. Become(w, Only(w, "ack")) /\ Fails(w) /\ Last(w)
    BY <1>2, <1>7 DEF RescueUnreadable, WellPlaced, Last, Final
  <2>2. lost \subseteq lost' /\ lost' # {}
    BY <2>1 DEF Fails
  <2>3. ServesRun(Only(w, "ack"), r, record, issue, history)
    BY <1>4
  <2>4. record[DayOf(w)].status \in Unsuccessful /\ Clears(worker[w])
          => \/ lost' # {}
             \/ Only(w, "ack").msg.day = DayOf(w) /\ Clears(Only(w, "ack"))
    BY <2>2
  <2>5. lost \subseteq lost' /\ Become(w, Only(w, "ack"))
    BY <2>1, <2>2
  <2>6. QED  BY <1>3, <2>3, <2>4, <2>5
<1>8. CASE Rescue(w)
  <2> DEFINE held == Finishing(Holding(w, "finish", Found(w)), "failed")
             l    == [held EXCEPT !.rescue = TRUE]
  <2>1. /\ Become(w, l) /\ UNCHANGED lost /\ Found(w).run \in Rescuable(w)
        /\ worker[w].pc = "rescue"
    BY <1>8 DEF Rescue, onlyWorker
  <2>2. /\ l.pc = "finish" /\ l.seen = Found(w) /\ l.fresh = TRUE
        /\ l.msg = worker[w].msg /\ l.goal = "failed" /\ l.rescue = TRUE
        /\ l.doomed = worker[w].doomed /\ l.out = worker[w].out
    BY <1>2 DEF Finishing, Holding, Invocation
  <2> HIDE DEF l, held
  <2>3. Found(w).run = r
    <3>1. CASE worker[w].msg.step = "start"
      BY <1>2, <2>1, <3>1, NoRunAssumption DEF Rescuable
    <3>2. QED  BY <1>2, <3>1
  <2>4. WellPlaced(l) /\ ~Publishes(l) /\ ~Removes(l)
    BY <1>2, <2>1, <2>2 DEF WellPlaced, Publishes, Removes, RemoveSteps, Final, Finished
  <2>5. ServesRun(l, r, record, issue, history)
    BY <1>1, <1>2, <2>2, <2>3, <2>4 DEF ServesRun, Busy
  <2>6. l.msg.day = DayOf(w) /\ Clears(l)
    BY <1>2, <2>2 DEF Clears
  <2>7. QED  BY <1>3, <2>1, <2>5, <2>6
<1>9. QED  BY <1>5, <1>6, <1>7, <1>8

-----------------------------------------------------------------------------
\* Before the first request nobody has anything to do with a run.
LEMMA FirstRunInit == Init => FirstRunInvariant
<1> SUFFICES ASSUME Init, NEW r \in Runs PROVE FirstRun(r)
  BY DEF FirstRunInvariant
<1>1. /\ Idle.pc = "idle" /\ Idle.out = <<>> /\ Idle.doomed = {} /\ Idle.goal = "none"
      /\ Idle.rescue = FALSE /\ Len(<<>>) = 0
  BY DEF Idle
<1>2. \A i \in 1 .. Len(Idle.out) : FALSE
  BY <1>1
<1>3. ServesRun(Idle, r, record, issue, history)
  BY <1>1, <1>2 DEF ServesRun, WellPlaced, Holds, Publishes, Removes, RemoveSteps
<1>4. NoRecord.run = NoRun /\ NoRecord.status = "none" /\ r # NoRun
  BY NoRecordFields, NoRunAssumption DEF NoRecord
<1>5. QED
  BY <1>3, <1>4 DEF Init, FirstRun, Unsuccessful

\* A run id that is taken stays taken.
LEMMA MintedGrows == [Next]_vars => minted \subseteq minted'
<1> SUFFICES ASSUME [Next]_vars PROVE minted \subseteq minted'
  OBVIOUS
<1>1. CASE UNCHANGED vars
  BY <1>1 DEF vars
<1>2. ASSUME NEW d \in Days, Request(d) \/ GoStale(d) PROVE minted \subseteq minted'
  BY <1>2 DEF Request, GoStale, clockVars
<1>3. ASSUME NEW w \in Workers, NEW m \in queue, Deliver(w, m) \/ DeliverTwice(w, m)
      PROVE  minted \subseteq minted'
  BY <1>3 DEF Deliver, DeliverTwice, clockVars
<1>4. ASSUME NEW w \in Workers, Step(w) PROVE minted \subseteq minted'
  <2>1. CASE BeginRun(w)
    BY <2>1 DEF BeginRun
  <2>2. CASE \/ Ack(w) \/ OpenDay(w) \/ BeginLost(w) \/ IgnoreOtherRun(w)
             \/ ObserveFinished(w) \/ KeepWatching(w) \/ FailStuckRun(w) \/ Repair(w)
             \/ StartStep(w) \/ ChooseNone(w) \/ ListIssues(w) \/ FinishLost(w)
             \/ AckSettled(w) \/ RescueNothing(w) \/ Rescue(w)
    <3>1. UNCHANGED onlyWorker
      BY <2>2 DEF Ack, OpenDay, BeginLost, IgnoreOtherRun, ObserveFinished, KeepWatching,
         FailStuckRun, Repair, StartStep, ChooseNone, ListIssues, FinishLost, AckSettled,
         RescueNothing, Rescue
    <3>2. QED  BY <3>1 DEF onlyWorker, clockVars
  <2>3. CASE Touch(w) \/ PlanPage(w) \/ Evaluate(w) \/ Choose(w) \/ Summarize(w) \/ Finish(w)
    <3>1. UNCHANGED stepOnly
      BY <2>3 DEF Touch, PlanPage, Evaluate, Choose, Summarize, Finish
    <3>2. QED  BY <3>1 DEF stepOnly, clockVars
  <2>4. CASE \/ Retry(w) \/ Send(w) \/ StoreIssue(w) \/ DeleteIssue(w)
             \/ ReplaceHistory(w) \/ LeaveUnsaved(w)
    <3>1. UNCHANGED clockVars
      BY <2>4 DEF Retry, Send, StoreIssue, DeleteIssue, ReplaceHistory, LeaveUnsaved
    <3>2. QED  BY <3>1 DEF clockVars
  <2>5. QED  BY <1>4, <2>1, <2>2, <2>3, <2>4 DEF Step
<1>5. ASSUME NEW w \in Workers, Mishap(w) PROVE minted \subseteq minted'
  BY <1>5 DEF Mishap, Crash, SendFails, RemovalFails, Throw, RescueUnreadable,
     RescueThrows, onlyWorker, clockVars
<1>6. QED
  BY <1>1, <1>2, <1>3, <1>4, <1>5 DEF Next

\* Every step keeps it: a second run id ends what it says.
LEMMA FirstRunKept ==
    DigestInvariant /\ FirstRunInvariant /\ [Next]_vars => FirstRunInvariant'
<1> SUFFICES ASSUME DigestInvariant, FirstRunInvariant, [Next]_vars,
                    NEW r \in Runs, minted' \subseteq {r}
             PROVE  FirstRun(r)'
  BY DEF FirstRunInvariant
<1>1. minted \subseteq minted'
  BY MintedGrows
<1>2. minted \subseteq {r} /\ FirstRun(r)
  BY <1>1 DEF FirstRunInvariant
<1>3. CASE UNCHANGED vars
  <2>1. UNCHANGED <<record, issue, history, queue, worker, lost>>
    BY <1>3 DEF vars
  <2>2. FirstRun(r)' <=> FirstRun(r)
    BY <2>1 DEF FirstRun, Cleared, DayOf
  <2>3. QED  BY <1>2, <2>2
<1>4. CASE \/ \E d \in Days : Request(d) \/ GoStale(d)
           \/ \E w \in Workers, m \in queue : Deliver(w, m) \/ DeliverTwice(w, m)
  BY <1>2, <1>4, FirstRunOutside
<1>5. ASSUME NEW w \in Workers, Step(w) PROVE FirstRun(r)'
  <2>1. CASE Ack(w) \/ Retry(w) \/ Send(w)
    BY <1>2, <2>1, FirstRunEnding, FirstRunSends
  <2>2. CASE OpenDay(w) \/ BeginRun(w) \/ BeginLost(w)
    BY <1>2, <2>2, FirstRunStart, FirstRunBegins
  <2>3. CASE \/ IgnoreOtherRun(w) \/ ObserveFinished(w) \/ KeepWatching(w)
             \/ FailStuckRun(w) \/ Repair(w) \/ StartStep(w)
    BY <1>2, <2>3, FirstRunDispatch
  <2>4. CASE Touch(w) \/ PlanPage(w) \/ Evaluate(w) \/ ChooseNone(w) \/ Choose(w)
             \/ Summarize(w)
    BY <1>2, <2>4, FirstRunPlans, FirstRunEvaluates, FirstRunSummarizes
  <2>5. CASE StoreIssue(w) \/ ListIssues(w) \/ DeleteIssue(w) \/ ReplaceHistory(w)
    BY <1>2, <2>5, FirstRunStores, FirstRunRemoves, FirstRunPublishes
  <2>6. CASE Finish(w) \/ FinishLost(w) \/ AckSettled(w) \/ LeaveUnsaved(w)
    BY <1>2, <2>6, FirstRunFinishes, FirstRunLoses
  <2>7. CASE RescueNothing(w) \/ Rescue(w)
    BY <1>2, <2>7, FirstRunCatches
  <2>8. QED
    BY <1>5, <2>1, <2>2, <2>3, <2>4, <2>5, <2>6, <2>7 DEF Step
<1>6. ASSUME NEW w \in Workers, Mishap(w) PROVE FirstRun(r)'
  <2>1. CASE Crash(w) \/ SendFails(w) \/ RescueThrows(w)
    BY <1>2, <2>1, FirstRunEnding, FirstRunSends
  <2>2. CASE RemovalFails(w)
    BY <1>2, <2>2, FirstRunRemoves, FirstRunPublishes
  <2>3. CASE Throw(w) \/ RescueUnreadable(w)
    BY <1>2, <2>3, FirstRunCatches
  <2>4. QED  BY <1>6, <2>1, <2>2, <2>3 DEF Mishap
<1>7. QED
  BY <1>3, <1>4, <1>5, <1>6 DEF Next

\* The invariant of the first run.
LEMMA FirstRunHolds == Spec => []FirstRunInvariant
  BY DigestInvariantHolds, FirstRunInit, FirstRunKept, PTL DEF Spec

(***************************************************************************)
(* Once the first run of all says published, its issue is in the catalogue *)
(* and its articles are in the history (PublishedIsThere: stepPublish of   *)
(* daily/deliver.ts), with any number of invocations, redeliveries and     *)
(* faults.                                                                 *)
(***************************************************************************)
THEOREM PublishedHasItsIssue == Spec => []PublishedIsThere
<1>1. DigestInvariant /\ FirstRunInvariant => PublishedIsThere
  <2> SUFFICES ASSUME FirstRunInvariant, NEW d \in Days, OneRun,
                      record[d].status = "published"
               PROVE  issue[d] = record[d].run /\ history[d] = record[d].run
    BY DEF PublishedIsThere
  <2>1. PICK r \in Runs : minted = {r}
    BY DEF OneRun
  <2>2. FirstRun(r)
    BY <2>1 DEF FirstRunInvariant
  <2>3. QED  BY <2>2 DEF FirstRun
<1>2. QED
  BY <1>1, DigestInvariantHolds, FirstRunHolds, PTL

(***************************************************************************)
(* A first run that failed or stayed empty leaves no issue behind once its *)
(* messages have been dealt with (QuietCatalogue: removeCurrentIssue and   *)
(* alignOrRepair of daily/deliver.ts), whichever invocation stored one     *)
(* after it had been given up.                                             *)
(***************************************************************************)
THEOREM FailedRunLeavesNothing == Spec => []QuietCatalogue
<1>1. DigestInvariant /\ FirstRunInvariant => QuietCatalogue
  <2> SUFFICES ASSUME FirstRunInvariant, NEW d \in Days, OneRun, Quiet(d), lost = {},
                      record[d].status \in Unsuccessful
               PROVE  issue[d] = NoRun
    BY DEF QuietCatalogue, Unsuccessful
  <2>1. PICK r \in Runs : minted = {r}
    BY DEF OneRun
  <2>2. Cleared(d)
    BY <2>1 DEF FirstRunInvariant, FirstRun
  <2>3. ~Recalled(d, queue)
    BY DEF Recalled, Quiet
  <2>4. \A w \in Workers : DayOf(w) = d => ~Clears(worker[w])
    BY DEF Quiet, Busy, Clears, Publishes
  <2>5. QED  BY <2>2, <2>3, <2>4 DEF Cleared
<1>2. QED
  BY <1>1, DigestInvariantHolds, FirstRunHolds, PTL


-----------------------------------------------------------------------------
(***************************************************************************)
(* The refinement of DayRecord: what the record of a day may become        *)
(* depends on what the invocation that writes it is out for (Aimed), and   *)
(* on a record being what a run can have made of it (Plausible).           *)
(***************************************************************************)
\* A message other than a start names its run.
Addressed == {m \in Message : m.step # "start" => m.run # NoRun}

\* An invocation that has no terminal status to record yet.
Early == {"open", "begin", "read", "touch", "work", "choose", "rescue"}

\* A record that may be given the status.
Reached(rec, status) ==
    /\ rec.run # NoRun
    /\ status = "published" => rec.phase = "publish"
    /\ status = "empty" => /\ rec.phase \in {"evaluate", "summarize"}
                           /\ ~rec.kept /\ ~rec.exhausted

Aimed(l) ==
    /\ l.pc # "idle" => l.msg \in Addressed
    /\ l.out \in Seq(Addressed)
    /\ l.pc \in Early => l.goal = "none"
    /\ l.pc = "history" => l.goal = "published"
    /\ l.pc = "finish" => l.goal \in Finished
    /\ l.rescue => l.goal = "failed"
    /\ l.pc \in Writing /\ l.fresh => Reached(l.seen, l.goal)

Plausible(rec) ==
    /\ rec.status = "none" <=> rec.run = NoRun
    /\ rec.kept => rec.phase \in {"summarize", "publish"}

DayInvariant ==
    /\ queue \subseteq Addressed
    /\ \A w \in Workers : Aimed(worker[w])
    /\ \A d \in Days : Plausible(record[d])

DayStep == DayInvariant' /\ [Day!Next]_(Day!vars)

-----------------------------------------------------------------------------
(* The messages, and what an invocation turns to.                          *)

\* The messages of the program name their run.
LEMMA MessagesAddressed ==
    ASSUME NEW d \in Days
    PROVE  /\ StartMessage(d) \in Addressed
           /\ \A r \in Runs : WatchdogMessage(d, r) \in Addressed
           /\ \A rec \in RunRecord :
                 rec.run # NoRun => MessageFor(d, rec) \in Addressed
           /\ \A m \in Addressed : [m EXCEPT !.tries = @ + 1] \in Addressed
<1>1. StartMessage(d) \in Addressed
  BY MessagesAreTyped DEF StartMessage, Addressed
<1>2. ASSUME NEW r \in Runs PROVE WatchdogMessage(d, r) \in Addressed
  BY NoRunAssumption, MessagesAreTyped DEF WatchdogMessage, Addressed, RunOrNone
<1>3. ASSUME NEW rec \in RunRecord, rec.run # NoRun
      PROVE  MessageFor(d, rec) \in Addressed
  BY <1>3, MessagesAreTyped DEF MessageFor, Addressed
<1>4. ASSUME NEW m \in Addressed PROVE [m EXCEPT !.tries = @ + 1] \in Addressed
  <2>1. m \in Message /\ [m EXCEPT !.tries = @ + 1] \in Message
    BY MessagesAreTyped DEF Addressed
  <2>2. QED  BY <2>1 DEF Addressed, Message
<1>5. QED
  BY <1>1, <1>2, <1>3, <1>4

\* A few messages.
LEMMA AddressedSequences ==
    ASSUME NEW m \in Addressed, NEW n \in Addressed
    PROVE  /\ <<m>> \in Seq(Addressed) /\ <<m, n>> \in Seq(Addressed)
           /\ Seq(Addressed) \subseteq Seq(Message)
  BY DEF Addressed

\* One that ends, or keeps only its message.
LEMMA OnlyAims ==
    ASSUME NEW w \in Workers, worker[w].msg \in Addressed,
           NEW step \in {"ack", "retry", "list", "rescue"}
    PROVE  Aimed(Only(w, step)) /\ Aimed(Idle)
<1>1. <<>> \in Seq(Addressed)
  OBVIOUS
<1>2. Aimed(Only(w, step))
  BY <1>1, OnlyFields DEF Aimed, Early
<1>3. Aimed(Idle)
  BY <1>1 DEF Aimed, Early, Idle
<1>4. QED
  BY <1>2, <1>3

\* One that sends.
LEMMA SendingAims ==
    ASSUME NEW w \in Workers, worker[w].msg \in Addressed, NEW ms \in Seq(Addressed)
    PROVE  Aimed(Sending(w, ms))
<1>1. ms \in Seq(Message)
  BY DEF Addressed
<1>2. QED
  BY <1>1, SendingFields DEF Aimed, Early

\* One that holds a record without having come to its end.
LEMMA HoldingAims ==
    ASSUME Invocations, NEW w \in Workers, Aimed(worker[w]), Busy(w),
           worker[w].pc \in Early, NEW rec \in RunRecord,
           NEW step \in {"begin", "touch", "work", "choose"},
           step # "begin" => rec.run # NoRun
    PROVE  Aimed(Holding(w, step, rec))
<1> DEFINE l == Holding(w, step, rec)
<1>1. /\ l.pc = step /\ l.seen = rec /\ l.msg = worker[w].msg /\ l.out = worker[w].out
      /\ l.goal = "none" /\ l.rescue = worker[w].rescue
  BY DEF Holding, Invocations, Invocation, Aimed
<1>2. QED
  BY <1>1 DEF Aimed, Early, Reached, Writing, Busy

\* One that has come to the end of its run.
LEMMA FinishingAims ==
    ASSUME NEW l \in Invocation, l.msg \in Addressed, l.out \in Seq(Addressed),
           NEW status \in Finished, l.rescue => status = "failed",
           l.fresh => Reached(l.seen, status)
    PROVE  Aimed(Finishing(l, status))
<1> DEFINE m == Finishing(l, status)
<1>1. /\ m.pc = "finish" /\ m.goal = status /\ m.msg = l.msg /\ m.out = l.out
      /\ m.rescue = l.rescue /\ m.fresh = l.fresh /\ m.seen = l.seen
  BY DEF Finishing, Invocation
<1>2. QED
  BY <1>1 DEF Aimed, Early

\* The same, of one that has just read or written the record.
LEMMA HeldFinishingAims ==
    ASSUME Invocations, NEW w \in Workers, Aimed(worker[w]), Busy(w),
           worker[w].pc \in Early, NEW rec \in RunRecord,
           NEW status \in Finished, Reached(rec, status)
    PROVE  /\ Aimed(Finishing(Holding(w, "finish", rec), status))
           /\ status = "failed" =>
                Aimed([Finishing(Holding(w, "finish", rec), status) EXCEPT !.rescue = TRUE])
<1> DEFINE l == Holding(w, "finish", rec)
           m == Finishing(l, status)
           n == [m EXCEPT !.rescue = TRUE]
<1>1. /\ l \in Invocation /\ l.seen = rec /\ l.msg = worker[w].msg
      /\ l.out = worker[w].out /\ ~l.rescue
  <2>1. l \in Invocation /\ l.seen = rec /\ l.msg = worker[w].msg
    BY HoldingFields
  <2>2. l.out = worker[w].out /\ l.rescue = worker[w].rescue
    BY DEF Holding, Invocations, Invocation
  <2>3. ~worker[w].rescue
    BY DEF Aimed
  <2>4. QED  BY <2>1, <2>2, <2>3
<1>2. Aimed(m)
  <2> HIDE DEF l
  <2>1. QED  BY <1>1, FinishingAims DEF Aimed, Busy
<1>3. m \in Invocation
  <2> HIDE DEF l
  <2>1. QED  BY <1>1, FinishingFields DEF Goals
<1>4. m.goal = status /\ m.pc = "finish"
  BY DEF Finishing, Holding, Invocations, Invocation
<1>5. /\ n.pc = m.pc /\ n.goal = m.goal /\ n.msg = m.msg /\ n.out = m.out
      /\ n.seen = m.seen /\ n.fresh = m.fresh
  <2> HIDE DEF m
  <2>1. QED  BY <1>3 DEF Invocation
<1>6. status = "failed" => Aimed(n)
  <2> HIDE DEF n, m
  <2>1. QED  BY <1>2, <1>4, <1>5 DEF Aimed
<1>7. QED
  BY <1>2, <1>6

-----------------------------------------------------------------------------
(* What is seen of a step.                                                 *)

\* One that leaves the records as they are.
LEMMA UnseenStep ==
    ASSUME DigestInvariant, DayInvariant, NEW w \in Workers, NEW l,
           Become(w, l), Aimed(l), UNCHANGED <<record, minted>>,
           queue' \subseteq Addressed
    PROVE  DayStep
<1>1. \A v \in Workers : worker'[v] = IF v = w THEN l ELSE worker[v]
  BY DEF Become, DigestInvariant, Invocations
<1>2. DayInvariant'
  BY <1>1 DEF DayInvariant
<1>3. UNCHANGED Day!vars
  BY DEF Day!vars, daySeen
<1>4. QED
  BY <1>2, <1>3 DEF DayStep

\* An invocation whose etag is outdated is still out for the same.
LEMMA OutdatedAims ==
    ASSUME NEW l \in Invocation, Aimed(l)
    PROVE  Aimed([l EXCEPT !.fresh = FALSE])
  BY DEF Aimed, Invocation

\* One that writes the record of its day changes that day, and no other.
LEMMA WrittenDay ==
    ASSUME DigestInvariant, DayInvariant, NEW w \in Workers, NEW rec \in RunRecord,
           NEW l, Write(w, rec, l), Aimed(l), Plausible(rec), queue' \subseteq Addressed
    PROVE  /\ DayInvariant' /\ DayOf(w) \in Days
           /\ daySeen[DayOf(w)] = AsSeen(record[DayOf(w)])
           /\ daySeen' = [daySeen EXCEPT ![DayOf(w)] = AsSeen(rec)]
           /\ daySeen'[DayOf(w)] = AsSeen(rec)
<1>1. DayOf(w) \in Days /\ record \in [Days -> RunRecord]
  BY DayOfInvocation DEF DigestInvariant, Records
<1>2. record' = [record EXCEPT ![DayOf(w)] = rec]
  BY DEF Write
<1>3. \A v \in Workers : Aimed(worker'[v])
  <2> SUFFICES ASSUME NEW v \in Workers PROVE Aimed(worker'[v])
    OBVIOUS
  <2>1. \/ worker'[v] = l \/ worker'[v] = worker[v]
        \/ worker'[v] = [worker[v] EXCEPT !.fresh = FALSE]
    BY DEF Write
  <2>2. worker[v] \in Invocation /\ Aimed(worker[v])
    BY DEF DigestInvariant, Invocations, DayInvariant
  <2>3. QED  BY <2>1, <2>2, OutdatedAims
<1>4. \A d \in Days : Plausible(record'[d])
  BY <1>1, <1>2 DEF DayInvariant
<1>5. QED
  BY <1>1, <1>2, <1>3, <1>4 DEF DayInvariant, daySeen

\* save: the put succeeds and the run goes on, or the message comes back.
LEMMA SaveAdvances ==
    ASSUME DigestInvariant, DayInvariant, NEW w \in Workers,
           NEW rec \in RunRecord, NEW l, worker[w].pc \in {"touch", "work", "choose"},
           Save(w, rec, l), UNCHANGED stepOnly,
           rec.run = worker[w].seen.run, rec.status = worker[w].seen.status,
           worker[w].fresh => /\ Day!Ahead(rec, worker[w].seen)
                              /\ Day!Noted(rec, worker[w].seen)
                              /\ Aimed(l)
    PROVE  DayStep
<1>1. queue' \subseteq Addressed /\ UNCHANGED minted
  BY DEF stepOnly, clockVars, DayInvariant
<1>2. Aimed(worker[w]) /\ worker[w].msg \in Addressed
  BY DEF DayInvariant, Aimed
<1>3. CASE ~worker[w].fresh
  <2>1. Become(w, Only(w, "retry")) /\ UNCHANGED record
    BY <1>3 DEF Save
  <2>2. QED  BY <1>1, <1>2, <2>1, OnlyAims, UnseenStep
<1>4. CASE worker[w].fresh
  <2> DEFINE held == worker[w].seen
  <2>1. Write(w, rec, l)
    BY <1>4 DEF Save
  <2>2. /\ held = record[DayOf(w)] /\ held \in RunRecord /\ held.status = "running"
        /\ held.run # NoRun
    <3>1. ~worker[w].rescue /\ held.run # NoRun
      BY <1>2, <1>4 DEF Aimed, Early, Writing, Reached
    <3>2. Sound(worker[w], record) /\ held \in RunRecord
      BY DayOfInvocation DEF DigestInvariant, Invocations
    <3>3. QED  BY <1>4, <3>1, <3>2 DEF Sound, Placed, Writing, DayOf
  <2>3. DayOf(w) \in Days /\ Plausible(held)
    BY <2>2, DayOfInvocation DEF DayInvariant, DigestInvariant
  <2>4. Day!Ahead(rec, held) /\ Day!Noted(rec, held) /\ Aimed(l)
    BY <1>4
  <2>5. Plausible(rec)
    <3>1. rec.phase \in Phases /\ held.phase \in Phases /\ rec.kept \in BOOLEAN
      BY <2>2 DEF RunRecord
    <3>2. held.phase \in {"summarize", "publish"} => rec.phase \in {"summarize", "publish"}
      BY <2>4, <3>1 DEF Day!Ahead, Day!Order, Phases
    <3>3. rec.kept => held.phase \in {"summarize", "publish"}
      BY <2>3, <2>4 DEF Day!Noted, Plausible
    <3>4. QED  BY <2>2, <3>2, <3>3 DEF Plausible
  <2>6. /\ DayInvariant' /\ daySeen[DayOf(w)] = AsSeen(held)
        /\ daySeen' = [daySeen EXCEPT ![DayOf(w)] = AsSeen(rec)]
        /\ daySeen'[DayOf(w)] = AsSeen(rec)
    BY <1>1, <2>1, <2>2, <2>4, <2>5, WrittenDay
  <2>7. Day!Advance(DayOf(w))
    <3> DEFINE d == DayOf(w)
    <3>1. /\ Day!Ahead(AsSeen(rec), AsSeen(held)) /\ Day!Noted(AsSeen(rec), AsSeen(held))
          /\ AsSeen(held).status = "running" /\ AsSeen(rec).status = "running"
          /\ AsSeen(rec).run = AsSeen(held).run
      BY <2>2, <2>4 DEF Day!Ahead, Day!Noted, AsSeen
    <3>2. /\ daySeen[d] = AsSeen(held) /\ daySeen'[d] = AsSeen(rec)
          /\ daySeen' = [daySeen EXCEPT ![d] = daySeen'[d]]
      BY <2>6
    <3>3. QED  BY <1>1, <3>1, <3>2 DEF Day!Advance, Day!Running
  <2>8. QED  BY <2>3, <2>6, <2>7 DEF DayStep, Day!Next
<1>5. QED  BY <1>3, <1>4

\* What is saved and sent.
LEMMA SaveAndSendAdvances ==
    ASSUME DigestInvariant, DayInvariant, NEW w \in Workers,
           NEW rec \in RunRecord, worker[w].pc \in {"touch", "work", "choose"},
           SaveAndSend(w, rec), UNCHANGED stepOnly,
           rec.run = worker[w].seen.run, rec.status = worker[w].seen.status,
           worker[w].fresh => /\ Day!Ahead(rec, worker[w].seen)
                              /\ Day!Noted(rec, worker[w].seen)
    PROVE  DayStep
<1> DEFINE m == MessageFor(DayOf(w), rec)
<1>1. worker[w].msg \in Addressed /\ DayOf(w) \in Days
  BY DayOfInvocation DEF DayInvariant, DigestInvariant, Aimed
<1>2. worker[w].fresh => rec.run # NoRun
  BY DEF DayInvariant, Aimed, Reached, Writing
<1>3. worker[w].fresh => Aimed(Sending(w, <<m>>))
  <2> SUFFICES ASSUME worker[w].fresh PROVE Aimed(Sending(w, <<m>>))
    OBVIOUS
  <2>1. m \in Addressed
    BY <1>1, <1>2, MessagesAddressed
  <2> HIDE DEF m
  <2>2. <<m>> \in Seq(Addressed)
    BY <2>1
  <2>3. QED  BY <1>1, <2>2, SendingAims
<1>4. Save(w, rec, Sending(w, <<m>>))
  BY DEF SaveAndSend
<1> HIDE DEF m
<1>5. QED
  BY <1>3, <1>4, SaveAdvances

-----------------------------------------------------------------------------
(* The actions once more.                                                  *)

\* What an invocation at work knows, and what its delivery leaves in the queue.
LEMMA DayAtWork ==
    ASSUME DigestInvariant, DayInvariant, NEW w \in Workers
    PROVE  /\ Invocations /\ DayOf(w) \in Days /\ worker[w] \in Invocation
           /\ Aimed(worker[w]) /\ worker[w].out \in Seq(Addressed)
           /\ Busy(w) => worker[w].msg \in Addressed
           /\ worker[w].seen \in RunRecord
           /\ record[DayOf(w)] \in RunRecord /\ Plausible(record[DayOf(w)])
           /\ NeverDead(record[DayOf(w)])
           /\ worker[w].fresh => worker[w].seen = record[DayOf(w)]
           /\ worker[w].pc \in Early => ~worker[w].rescue
           /\ Busy(w) /\ GiveBack(w) => queue' \subseteq Addressed
<1>1. /\ DayOf(w) \in Days /\ worker[w] \in Invocation /\ worker[w].seen \in RunRecord
      /\ Sound(worker[w], record) /\ Invocations
  BY DayOfInvocation DEF DigestInvariant, Invocations
<1>2. Aimed(worker[w]) /\ queue \subseteq Addressed /\ Plausible(record[DayOf(w)])
  BY <1>1 DEF DayInvariant
<1>3. Busy(w) => worker[w].msg \in Addressed
  BY <1>2 DEF Aimed, Busy
<1>4. worker[w].out \in Seq(Addressed) /\ (worker[w].pc \in Early => ~worker[w].rescue)
  BY <1>2 DEF Aimed
<1>5. Busy(w) /\ GiveBack(w) => queue' \subseteq Addressed
  BY <1>1, <1>2, <1>3, MessagesAddressed DEF GiveBack
<1>6. worker[w].fresh => worker[w].seen = record[DayOf(w)]
  BY <1>1 DEF Sound, DayOf
<1>7. record[DayOf(w)] \in RunRecord /\ NeverDead(record[DayOf(w)])
  BY <1>1 DEF DigestInvariant, Records
<1>8. QED
  BY <1>1, <1>2, <1>3, <1>4, <1>5, <1>6, <1>7

\* Requests, time and deliveries.
LEMMA OutsideDays ==
    ASSUME DigestInvariant, DayInvariant,
           \/ \E d \in Days : Request(d) \/ GoStale(d)
           \/ \E w \in Workers, m \in queue : Deliver(w, m) \/ DeliverTwice(w, m)
    PROVE  DayStep
<1>1. ASSUME NEW d \in Days, Request(d) \/ GoStale(d) PROVE DayStep
  <2>1. UNCHANGED <<record, worker, minted>>
    BY <1>1 DEF Request, GoStale, catalogueVars, clockVars
  <2>2. queue' \subseteq Addressed
    BY <1>1, MessagesAddressed DEF Request, GoStale, DayInvariant
  <2>3. DayInvariant' /\ UNCHANGED Day!vars
    BY <2>1, <2>2 DEF DayInvariant, Day!vars, daySeen
  <2>4. QED  BY <2>3 DEF DayStep
<1>2. ASSUME NEW w \in Workers, NEW m \in queue, Deliver(w, m) \/ DeliverTwice(w, m)
      PROVE  DayStep
  <2> DEFINE l == [Idle EXCEPT !.pc = IF m.step = "start" THEN "open" ELSE "read",
                               !.msg = m]
  <2>1. m \in Addressed /\ <<>> \in Seq(Addressed)
    BY DEF DayInvariant
  <2>2. /\ l.pc \in {"open", "read"} /\ l.msg = m /\ l.out = <<>> /\ ~l.fresh
        /\ ~l.rescue /\ l.goal = "none"
    BY DEF Idle
  <2>3. Become(w, l) /\ UNCHANGED <<record, minted>> /\ queue' \subseteq queue
    BY <1>2 DEF Deliver, DeliverTwice, Take, catalogueVars, clockVars
  <2> HIDE DEF l
  <2>4. Aimed(l)
    BY <2>1, <2>2 DEF Aimed
  <2>5. QED  BY <2>3, <2>4, UnseenStep DEF DayInvariant
<1>3. QED
  BY <1>1, <1>2

\* An invocation that ends, sends, or is left with its message.
LEMMA EndingDays ==
    ASSUME DigestInvariant, DayInvariant, NEW w \in Workers,
           \/ Ack(w) \/ Retry(w) \/ Crash(w) \/ RescueThrows(w)
           \/ Send(w) \/ SendFails(w)
           \/ BeginLost(w) \/ IgnoreOtherRun(w) \/ ObserveFinished(w)
           \/ RemovalFails(w) \/ AckSettled(w) \/ LeaveUnsaved(w)
           \/ Throw(w) \/ RescueNothing(w) \/ RescueUnreadable(w)
    PROVE  DayStep
<1>1. Busy(w) /\ UNCHANGED <<record, minted>>
  BY DEF Ack, Retry, Crash, RescueThrows, Send, SendFails, BeginLost, IgnoreOtherRun,
     ObserveFinished, Mine, RemovalFails, AckSettled, LeaveUnsaved, Throw, RescueNothing,
     RescueUnreadable, Throwing, TrySteps, RemoveSteps, Busy, GiveBack, onlyWorker,
     catalogueVars, clockVars
<1>2. /\ worker[w].msg \in Addressed /\ worker[w].out \in Seq(Addressed)
      /\ GiveBack(w) => queue' \subseteq Addressed
      /\ queue \subseteq Addressed
  BY <1>1, DayAtWork DEF DayInvariant
<1>3. CASE Ack(w) \/ Retry(w) \/ Crash(w) \/ RescueThrows(w)
  <2>1. Become(w, Idle) /\ queue' \subseteq Addressed
    BY <1>2, <1>3 DEF Ack, Retry, Crash, RescueThrows, GiveBack, onlyWorker
  <2>2. QED  BY <1>1, <1>2, <2>1, OnlyAims, UnseenStep
<1>4. CASE Send(w) \/ SendFails(w)
  <2> DEFINE ms == worker[w].out
  <2>1. ms # <<>> /\ ms \in Seq(Addressed)
    BY <1>2, <1>4 DEF Send, SendFails, DigestInvariant, Invocations, Sound, Placed
  <2>2. /\ queue' \subseteq queue \union {Head(ms)}
        /\ \/ Become(w, Only(w, "ack")) \/ Become(w, Only(w, "retry"))
           \/ Become(w, Sending(w, Tail(ms)))
    BY <1>4 DEF Send, SendFails
  <2> HIDE DEF ms
  <2>3. Head(ms) \in Addressed /\ Tail(ms) \in Seq(Addressed)
    BY <2>1, HeadTailProperties
  <2>4. QED
    BY <1>1, <1>2, <2>2, <2>3, OnlyAims, SendingAims, UnseenStep
<1>5. CASE \/ BeginLost(w) \/ IgnoreOtherRun(w) \/ ObserveFinished(w)
           \/ RemovalFails(w) \/ AckSettled(w) \/ LeaveUnsaved(w)
           \/ Throw(w) \/ RescueNothing(w) \/ RescueUnreadable(w)
  <2>1. /\ UNCHANGED queue
        /\ \E s \in {"ack", "retry", "list", "rescue"} : Become(w, Only(w, s))
    BY <1>5 DEF BeginLost, IgnoreOtherRun, ObserveFinished, AfterObserving, RemovalFails,
       AckSettled, LeaveUnsaved, Throw, RescueNothing, RescueUnreadable, onlyWorker
  <2>2. QED  BY <1>1, <1>2, <2>1, OnlyAims, UnseenStep
<1>6. QED  BY <1>3, <1>4, <1>5

\* stepStart: the run id has not been used.
LEMMA StartDays ==
    ASSUME DigestInvariant, DayInvariant, NEW w \in Workers, OpenDay(w) \/ BeginRun(w)
    PROVE  DayStep
<1>1. Busy(w) /\ worker[w].pc \in Early /\ worker[w].msg \in Addressed /\ DayOf(w) \in Days
  BY DayAtWork DEF OpenDay, BeginRun, Busy, Early
<1>2. CASE OpenDay(w)
  <2>1. Aimed(Holding(w, "begin", record[DayOf(w)]))
    BY <1>1, DayAtWork, HoldingAims
  <2>2. QED
    BY <1>2, <2>1, UnseenStep DEF OpenDay, onlyWorker, clockVars, DayInvariant
<1>3. CASE BeginRun(w)
  <2>1. PICK r \in Runs \ minted :
          /\ Write(w, BlankRecord(r), Sending(w, <<MessageFor(DayOf(w), BlankRecord(r)),
                                                 WatchdogMessage(DayOf(w), r)>>))
          /\ minted' = minted \union {r}
    BY <1>3 DEF BeginRun
  <2> DEFINE rec == BlankRecord(r)
             m == MessageFor(DayOf(w), rec)
             n == WatchdogMessage(DayOf(w), r)
  <2>2. /\ rec \in RunRecord /\ rec.run = r /\ r # NoRun /\ Plausible(rec)
        /\ AsSeen(rec) = Day!Begun(r)
    <3>1. /\ rec \in RunRecord /\ rec.run = r /\ r # NoRun
          /\ rec.status = "running" /\ rec.kept = FALSE
      BY NoRunAssumption, BlankFields DEF RunOrNone, BlankRecord
    <3>2. AsSeen(rec) = Day!Begun(r)
      BY DEF AsSeen, BlankRecord, Day!Begun, Day!AtStart
    <3>3. QED  BY <3>1, <3>2 DEF Plausible
  <2>3. m \in Addressed /\ n \in Addressed
    BY <1>1, <2>2, MessagesAddressed
  <2>4. Write(w, rec, Sending(w, <<m, n>>)) /\ UNCHANGED queue
    BY <1>3, <2>1 DEF BeginRun
  <2> HIDE DEF rec, m, n
  <2>5. Aimed(Sending(w, <<m, n>>))
    BY <1>1, <2>3, AddressedSequences, SendingAims
  <2>6. DayInvariant' /\ daySeen' = [daySeen EXCEPT ![DayOf(w)] = AsSeen(rec)]
    BY <2>2, <2>4, <2>5, WrittenDay DEF DayInvariant
  <2>7. Day!Begin(DayOf(w), r)
    BY <2>1, <2>2, <2>6 DEF Day!Begin
  <2>8. QED  BY <1>1, <2>1, <2>6, <2>7 DEF DayStep, Day!Next
<1>4. QED  BY <1>2, <1>3

\* dispatch: the run is running, and what is to be recorded of it is due.
LEMMA DispatchDays ==
    ASSUME DigestInvariant, DayInvariant, NEW w \in Workers,
           KeepWatching(w) \/ Repair(w) \/ FailStuckRun(w) \/ StartStep(w)
    PROVE  DayStep
<1> DEFINE rec == record[DayOf(w)]
<1>1. /\ OnRunning(w) /\ UNCHANGED <<record, minted, queue>>
      /\ Busy(w) /\ worker[w].pc \in Early
  BY DEF KeepWatching, Repair, FailStuckRun, StartStep, OnRunning, Mine, onlyWorker,
     clockVars, Busy, Early
<1>2. /\ Found(w) = rec /\ rec \in RunRecord /\ rec.status = "running"
      /\ rec.run # NoRun /\ rec.run \in Runs
  BY <1>1, DayAtWork DEF OnRunning, Found, Plausible, RunRecord, RunOrNone
<1>3. /\ Invocations /\ Aimed(worker[w]) /\ worker[w].msg \in Addressed
      /\ DayOf(w) \in Days /\ NeverDead(rec) /\ queue' \subseteq Addressed
  BY <1>1, DayAtWork DEF DayInvariant
<1> HIDE DEF rec
<1>4. CASE KeepWatching(w) \/ Repair(w)
  <2>1. PICK m \in Addressed : Become(w, Sending(w, <<m>>))
    BY <1>2, <1>3, <1>4, MessagesAddressed DEF KeepWatching, Repair
  <2>2. Aimed(Sending(w, <<m>>))
    BY <1>3, AddressedSequences, SendingAims
  <2>3. QED  BY <1>1, <1>3, <2>1, <2>2, UnseenStep
<1>5. ASSUME NEW status \in Finished, Reached(rec, status),
             Become(w, Finishing(Holding(w, "finish", rec), status))
      PROVE  DayStep
  <2>1. Aimed(Finishing(Holding(w, "finish", rec), status))
    BY <1>1, <1>2, <1>3, <1>5, HeldFinishingAims
  <2>2. QED  BY <1>1, <1>3, <1>5, <2>1, UnseenStep
<1>6. CASE FailStuckRun(w)
  <2>1. Reached(rec, "failed")
    BY <1>2 DEF Reached
  <2>2. QED  BY <1>2, <1>5, <1>6, <2>1 DEF FailStuckRun, Finished
<1>7. CASE StartStep(w)
  <2>1. Become(w, FirstMove(w, rec))
    BY <1>2, <1>7 DEF StartStep
  <2>2. CASE Become(w, Holding(w, "touch", rec))
    <3>1. Aimed(Holding(w, "touch", rec))
      BY <1>1, <1>2, <1>3, HoldingAims
    <3>2. QED  BY <1>1, <1>3, <2>2, <3>1, UnseenStep
  <2>3. CASE Become(w, Finishing(Holding(w, "finish", rec), "failed"))
    BY <1>2, <1>5, <2>3 DEF Reached, Finished
  <2>4. CASE /\ Summarized(rec)
             /\ Become(w, Finishing(Holding(w, "finish", rec), WithoutSummaries(rec)))
    <3>1. Reached(rec, WithoutSummaries(rec)) /\ WithoutSummaries(rec) \in Finished
      BY <1>2, <1>3, <2>4 DEF Reached, Summarized, NeverDead, WithoutSummaries, Finished
    <3>2. QED  BY <1>5, <2>4, <3>1
  <2>5. QED  BY <2>1, <2>2, <2>3, <2>4 DEF FirstMove
<1>8. QED  BY <1>4, <1>6, <1>7

\* touch, stepPlan and the choice of stepEvaluate.
LEMMA PlanDays ==
    ASSUME DigestInvariant, DayInvariant, NEW w \in Workers,
           Touch(w) \/ PlanPage(w) \/ Choose(w) \/ ChooseNone(w)
    PROVE  DayStep
<1> DEFINE held == worker[w].seen
<1>1. /\ worker[w].pc \in {"touch", "work", "choose"} /\ Busy(w)
      /\ worker[w].pc \in Early /\ worker[w].pc \in Writing
  BY DEF Touch, PlanPage, Choose, ChooseNone, Busy, Early, Writing
<1>2. /\ held \in RunRecord /\ Aimed(worker[w]) /\ Invocations
      /\ worker[w].msg \in Addressed /\ worker[w].out \in Seq(Addressed)
      /\ worker[w] \in Invocation /\ ~worker[w].rescue
      /\ worker[w].fresh => held.run # NoRun /\ NeverDead(held) /\ Plausible(held)
  BY <1>1, DayAtWork DEF Aimed, Reached
<1>3. worker[w].pc = "choose" => held.phase = "evaluate"
  BY <1>1, AtWork
<1> HIDE DEF held
<1>4. CASE Touch(w)
  <2>1. /\ Save(w, held, Holding(w, "work", held)) /\ UNCHANGED stepOnly
    BY <1>4 DEF Touch, held
  <2>2. worker[w].fresh => Aimed(Holding(w, "work", held))
    BY <1>1, <1>2, HoldingAims
  <2>3. worker[w].fresh => Day!Ahead(held, held) /\ Day!Noted(held, held)
    BY <1>2 DEF Day!Ahead, Day!Noted, NeverDead, RunRecord
  <2>4. QED  BY <1>1, <1>2, <2>1, <2>2, <2>3, SaveAdvances DEF held
<1>5. CASE PlanPage(w)
  <2>1. held.phase = "plan" /\ held \in RunRecord /\ UNCHANGED stepOnly
    BY <1>2, <1>5 DEF PlanPage, held
  <2>2. ASSUME NEW next \in RunRecord, SaveAndSend(w, next), next.run = held.run,
               next.status = held.status, next.kept = held.kept,
               next.exhausted = held.exhausted,
               \/ next.phase = "plan" /\ next.cursor >= held.cursor
               \/ next.phase = "evaluate"
        PROVE  DayStep
    <3>1. Day!Ahead(next, held) /\ Day!Noted(next, held)
      BY <2>1, <2>2 DEF Day!Ahead, Day!Order, Day!Noted
    <3>2. QED  BY <1>1, <2>1, <2>2, <3>1, SaveAndSendAdvances DEF held
  <2>3. CASE SaveAndSend(w, [held EXCEPT !.cursor = @ + 1])
    <3> DEFINE next == [held EXCEPT !.cursor = @ + 1]
    <3>1. /\ next \in RunRecord /\ next.run = held.run /\ next.status = held.status
          /\ next.kept = held.kept /\ next.exhausted = held.exhausted
          /\ next.phase = "plan" /\ next.cursor >= held.cursor
      BY <2>1 DEF RunRecord
    <3> HIDE DEF next
    <3>2. QED  BY <2>2, <2>3, <3>1 DEF next
  <2>4. ASSUME NEW n \in 0 .. MaxRefs,
               SaveAndSend(w, [held EXCEPT !.phase = "evaluate", !.cursor = 0, !.size = n])
        PROVE  DayStep
    <3> DEFINE next == [held EXCEPT !.phase = "evaluate", !.cursor = 0, !.size = n]
    <3>1. n \in Nat /\ "evaluate" \in Phases
      BY BoundsAssumption DEF Phases
    <3>2. /\ next \in RunRecord /\ next.run = held.run /\ next.status = held.status
          /\ next.kept = held.kept /\ next.exhausted = held.exhausted
          /\ next.phase = "evaluate"
      BY <2>1, <3>1 DEF RunRecord
    <3> HIDE DEF next
    <3>3. QED  BY <2>2, <2>4, <3>2 DEF next
  <2>5. QED  BY <1>5, <2>3, <2>4 DEF PlanPage, held
<1>6. CASE Choose(w)
  <2>1. PICK n \in 1 .. MaxPicks :
          SaveAndSend(w, [held EXCEPT !.phase = "summarize", !.cursor = 0, !.size = n])
    BY <1>6 DEF Choose, held
  <2> DEFINE next == [held EXCEPT !.phase = "summarize", !.cursor = 0, !.size = n]
  <2>2. held.phase = "evaluate" /\ UNCHANGED stepOnly
    BY <1>3, <1>6 DEF Choose
  <2>3. n \in Nat /\ "summarize" \in Phases
    BY BoundsAssumption DEF Phases
  <2>4. /\ next \in RunRecord /\ next.run = held.run /\ next.status = held.status
        /\ next.kept = held.kept /\ next.exhausted = held.exhausted
        /\ next.phase = "summarize"
    BY <1>2, <2>3 DEF RunRecord
  <2> HIDE DEF next
  <2>5. Day!Ahead(next, held) /\ Day!Noted(next, held)
    BY <2>2, <2>4 DEF Day!Ahead, Day!Order, Day!Noted
  <2>6. QED  BY <1>1, <2>1, <2>2, <2>4, <2>5, SaveAndSendAdvances DEF held, next
<1>7. CASE ChooseNone(w)
  <2> DEFINE status == WithoutSummaries(held)
  <2>1. /\ Become(w, Finishing(worker[w], status))
        /\ UNCHANGED <<record, minted, queue>> /\ worker[w].pc = "choose"
    BY <1>7 DEF ChooseNone, onlyWorker, clockVars, held
  <2>2. status \in Finished /\ (worker[w].fresh => Reached(held, status))
    BY <1>2, <1>3, <2>1 DEF WithoutSummaries, Finished, Reached, Plausible
  <2> HIDE DEF status
  <2>3. Aimed(Finishing(worker[w], status))
    BY <1>2, <2>2, FinishingAims DEF held
  <2>4. QED  BY <2>1, <2>3, UnseenStep DEF DayInvariant
<1>8. QED  BY <1>4, <1>5, <1>6, <1>7

\* stepEvaluate: a delivery that is not the last exhausts nothing.
LEMMA EvaluateDays ==
    ASSUME DigestInvariant, DayInvariant, NEW w \in Workers, Evaluate(w)
    PROVE  DayStep
<1> DEFINE held == worker[w].seen
<1>1. /\ worker[w].pc = "work" /\ held.phase = "evaluate" /\ Busy(w)
      /\ worker[w].pc \in Early /\ UNCHANGED stepOnly
  BY DEF Evaluate, Busy, Early
<1>2. /\ held \in RunRecord /\ Aimed(worker[w]) /\ Invocations
      /\ worker[w].fresh => held.run # NoRun
  BY <1>1, DayAtWork DEF Aimed, Reached, Writing
<1>3. PICK e \in Evaluations(held, Last(w)) :
        LET rec == [held EXCEPT !.cursor = e.cursor, !.exhausted = e.exhausted]
        IN  IF e.done THEN Save(w, rec, Holding(w, "choose", rec))
                      ELSE SaveAndSend(w, rec)
  BY DEF Evaluate
<1> DEFINE rec == [held EXCEPT !.cursor = e.cursor, !.exhausted = e.exhausted]
<1> HIDE DEF held
<1>4. /\ e.cursor \in Nat /\ e.cursor >= held.cursor /\ e.exhausted \in BOOLEAN
      /\ held.exhausted => e.exhausted
  BY <1>2 DEF Evaluations, RunRecord
<1>5. /\ rec \in RunRecord /\ rec.phase = "evaluate" /\ rec.run = held.run
      /\ rec.cursor = e.cursor /\ rec.kept = held.kept /\ rec.status = held.status
      /\ rec.exhausted = e.exhausted
  BY <1>1, <1>2, <1>4 DEF RunRecord
<1>6. Save(w, rec, Holding(w, "choose", rec)) \/ SaveAndSend(w, rec)
  BY <1>3 DEF held
<1> HIDE DEF rec
<1>7. Day!Ahead(rec, held) /\ Day!Noted(rec, held)
  BY <1>1, <1>4, <1>5 DEF Day!Ahead, Day!Noted
<1>8. worker[w].fresh => Aimed(Holding(w, "choose", rec))
  BY <1>1, <1>2, <1>5, HoldingAims
<1>9. QED
  BY <1>1, <1>5, <1>6, <1>7, <1>8, SaveAdvances, SaveAndSendAdvances DEF held

\* stepSummarize: the summary that is kept takes the run to its issue.
LEMMA SummarizeDays ==
    ASSUME DigestInvariant, DayInvariant, NEW w \in Workers, Summarize(w)
    PROVE  DayStep
<1> DEFINE held == worker[w].seen
<1>1. /\ worker[w].pc = "work" /\ held.phase = "summarize" /\ Busy(w)
      /\ worker[w].pc \in Early /\ UNCHANGED stepOnly
  BY DEF Summarize, Busy, Early
<1>2. /\ held \in RunRecord /\ Aimed(worker[w]) /\ Invocations
      /\ worker[w].fresh => held.run # NoRun
  BY <1>1, DayAtWork DEF Aimed, Reached, Writing
<1>3. PICK good \in BOOLEAN :
        LET counted == [held EXCEPT !.cursor = @ + 1, !.kept = @ \/ good,
                                    !.exhausted = @ \/ Last(w)]
            rec == [counted EXCEPT !.phase = PhaseAfter(counted)]
        IN  IF Summarized(rec)
            THEN Save(w, rec, Finishing(Holding(w, "finish", rec), WithoutSummaries(rec)))
            ELSE SaveAndSend(w, rec)
  BY DEF Summarize
<1> DEFINE n == held.cursor + 1
           k == held.kept \/ good
           x == held.exhausted \/ Last(w)
           counted == [held EXCEPT !.cursor = n, !.kept = k, !.exhausted = x]
           rec == [counted EXCEPT !.phase = PhaseAfter(counted)]
<1>4. /\ IF Summarized(rec)
         THEN Save(w, rec, Finishing(Holding(w, "finish", rec), WithoutSummaries(rec)))
         ELSE SaveAndSend(w, rec)
      /\ held.cursor \in Nat
  BY <1>2, <1>3 DEF RunRecord
<1> HIDE DEF held
<1>5. /\ n \in Nat /\ k \in BOOLEAN /\ x \in BOOLEAN /\ n >= held.cursor
      /\ (held.kept => k) /\ (held.exhausted => x)
  BY <1>4
<1> HIDE DEF n, k, x
<1>6. /\ counted \in RunRecord /\ counted.cursor = n /\ counted.run = held.run
      /\ counted.status = held.status /\ counted.kept = k /\ counted.exhausted = x
      /\ counted.size = held.size
  BY <1>2, <1>5, Zenon DEF RunRecord
<1>7. PhaseAfter(counted) \in {"summarize", "publish"}
  BY DEF PhaseAfter
<1> HIDE DEF counted
<1>8. /\ rec \in RunRecord /\ rec.cursor = n /\ rec.run = held.run
      /\ rec.status = held.status /\ rec.kept = k /\ rec.exhausted = x
      /\ rec.size = held.size /\ rec.phase = PhaseAfter(counted)
  BY <1>6, <1>7 DEF RunRecord, Phases
<1> HIDE DEF rec
<1>9. rec.phase = "publish" => rec.kept
  BY <1>6, <1>8 DEF PhaseAfter
<1>10. Day!Ahead(rec, held)
  BY <1>1, <1>5, <1>7, <1>8 DEF Day!Ahead, Day!Order
<1>11. Day!Noted(rec, held)
  BY <1>1, <1>5, <1>8, <1>9 DEF Day!Noted
<1>12. CASE ~Summarized(rec)
  BY <1>1, <1>4, <1>8, <1>10, <1>11, <1>12, SaveAndSendAdvances DEF held
<1>13. CASE Summarized(rec)
  <2> DEFINE status == WithoutSummaries(rec)
  <2>1. ~rec.kept
    <3>1. rec.phase = "summarize" /\ rec.cursor >= rec.size
      BY <1>13 DEF Summarized
    <3>2. held.cursor < held.size
      BY <1>1, <1>2, AtWork DEF Summarized, Writing, RunRecord, held
    <3>3. rec.cursor = rec.size
      BY <1>2, <1>8, <3>1, <3>2 DEF RunRecord, n
    <3>4. QED  BY <1>6, <1>8, <3>1, <3>3 DEF PhaseAfter
  <2>2. status \in Finished /\ (worker[w].fresh => Reached(rec, status))
    BY <1>2, <1>8, <1>13, <2>1 DEF WithoutSummaries, Finished, Reached, Summarized
  <2>3. Save(w, rec, Finishing(Holding(w, "finish", rec), status))
    BY <1>4, <1>13
  <2> HIDE DEF status
  <2>4. worker[w].fresh => Aimed(Finishing(Holding(w, "finish", rec), status))
    BY <1>1, <1>2, <1>8, <2>2, HeldFinishingAims
  <2>5. QED  BY <1>1, <1>8, <1>10, <1>11, <2>3, <2>4, SaveAdvances DEF held
<1>14. QED  BY <1>12, <1>13

\* stepPublish and removeDailyDigests do not touch the record.
LEMMA PublishDays ==
    ASSUME DigestInvariant, DayInvariant, NEW w \in Workers,
           \/ StoreIssue(w) \/ ListIssues(w) \/ DeleteIssue(w) \/ ReplaceHistory(w)
           \/ FinishLost(w)
    PROVE  DayStep
<1>1. /\ Busy(w) /\ UNCHANGED <<record, minted, queue>>
      /\ worker[w].pc \in Writing
  BY DEF StoreIssue, ListIssues, DeleteIssue, ReplaceHistory, FinishLost, Busy, Writing,
     onlyWorker, clockVars
<1>2. /\ worker[w] \in Invocation /\ Aimed(worker[w]) /\ worker[w].msg \in Addressed
      /\ queue' \subseteq Addressed
  BY <1>1, DayAtWork DEF DayInvariant
<1>3. ASSUME NEW l \in Invocation, Aimed(l), Become(w, l) PROVE DayStep
  BY <1>1, <1>2, <1>3, UnseenStep
<1>4. ASSUME NEW step \in {"ack", "retry"}, Become(w, Only(w, step)) PROVE DayStep
  BY <1>1, <1>2, <1>4, OnlyAims, UnseenStep
<1>5. CASE StoreIssue(w)
  <2> DEFINE l == [worker[w] EXCEPT !.pc = "list", !.goal = "published"]
  <2>1. /\ l \in Invocation /\ l.pc = "list" /\ l.goal = "published"
        /\ l.msg = worker[w].msg /\ l.out = worker[w].out /\ l.seen = worker[w].seen
        /\ l.fresh = worker[w].fresh /\ l.rescue = worker[w].rescue
    BY <1>2 DEF Invocation, RemoveSteps, Goals, Finished
  <2>2. ~worker[w].rescue /\ worker[w].seen.phase = "publish" /\ Become(w, l)
    BY <1>5, DayAtWork DEF StoreIssue, Early
  <2> HIDE DEF l
  <2>3. Aimed(l)
    BY <1>1, <1>2, <2>1, <2>2 DEF Aimed, Early, Reached
  <2>4. QED  BY <1>3, <2>1, <2>2, <2>3
<1>6. CASE ReplaceHistory(w) \/ (FinishLost(w) /\ worker[w].goal = "failed")
  <2>1. PICK step \in {"finish", "recheck"} :
          /\ Become(w, [worker[w] EXCEPT !.pc = step])
          /\ step = "finish" => worker[w].goal \in Finished
    BY <1>2, <1>6 DEF ReplaceHistory, FinishLost, Goto, Aimed, Finished
  <2> DEFINE l == [worker[w] EXCEPT !.pc = step]
  <2>2. /\ l \in Invocation /\ l.pc = step /\ l.goal = worker[w].goal
        /\ l.msg = worker[w].msg /\ l.out = worker[w].out /\ l.seen = worker[w].seen
        /\ l.fresh = worker[w].fresh /\ l.rescue = worker[w].rescue
    BY <1>2 DEF Invocation, TrySteps, LastSteps
  <2>3. Become(w, l)
    BY <2>1
  <2> HIDE DEF l
  <2>4. Aimed(l)
    BY <1>1, <1>2, <2>1, <2>2 DEF Aimed, Early
  <2>5. QED  BY <1>3, <2>2, <2>3, <2>4
<1>7. CASE FinishLost(w) /\ worker[w].goal # "failed"
  BY <1>4, <1>7 DEF FinishLost
<1>8. CASE ListIssues(w) \/ DeleteIssue(w)
  <2>1. PICK ds \in SUBSET Days : Become(w, Removing(w, ds))
    <3>1. worker[w].doomed \subseteq Days
      BY <1>2, InvocationFields
    <3>2. QED  BY <1>8, <3>1 DEF ListIssues, DeleteIssue
  <2>2. CASE ds = {} /\ ~Publishing(w)
    BY <1>4, <2>1, <2>2 DEF Removing
  <2>3. CASE ds # {} \/ Publishing(w)
    <3>1. PICK step \in {"delete", "history"} :
            /\ Become(w, [worker[w] EXCEPT !.pc = step, !.doomed = ds])
            /\ step = "history" => worker[w].goal = "published"
      BY <2>1, <2>3 DEF Removing, Publishing
    <3> DEFINE l == [worker[w] EXCEPT !.pc = step, !.doomed = ds]
    <3>2. /\ l \in Invocation /\ l.pc = step /\ l.goal = worker[w].goal
          /\ l.msg = worker[w].msg /\ l.out = worker[w].out /\ l.seen = worker[w].seen
          /\ l.fresh = worker[w].fresh /\ l.rescue = worker[w].rescue
      BY <1>2 DEF Invocation, TrySteps, RemoveSteps
    <3>3. Become(w, l)
      BY <3>1
    <3> HIDE DEF l
    <3>4. Aimed(l)
      BY <1>1, <1>2, <3>1, <3>2 DEF Aimed, Early
    <3>5. QED  BY <1>3, <3>2, <3>3, <3>4
  <2>4. QED  BY <2>2, <2>3
<1>9. QED  BY <1>5, <1>6, <1>7, <1>8

\* finishPublished, finishEmpty and failDay.
LEMMA FinishDays ==
    ASSUME DigestInvariant, DayInvariant, NEW w \in Workers, Finish(w)
    PROVE  DayStep
<1> DEFINE held   == worker[w].seen
           status == worker[w].goal
           rec    == [held EXCEPT !.status = status]
           d      == DayOf(w)
<1>1. /\ worker[w].pc = "finish" /\ worker[w].fresh /\ Busy(w)
      /\ UNCHANGED <<minted, queue>>
      /\ \E step \in {"ack", "list"} : Write(w, rec, Only(w, step))
  BY DEF Finish, Busy, stepOnly, clockVars
<1>2. /\ held \in RunRecord /\ held = record[d] /\ d \in Days
      /\ worker[w].msg \in Addressed /\ Plausible(held) /\ NeverDead(held)
      /\ Aimed(worker[w])
  BY <1>1, DayAtWork
<1>3. status \in Finished /\ Reached(held, status) /\ (worker[w].rescue => status = "failed")
  BY <1>1, <1>2 DEF Aimed, Writing
<1>4. ~worker[w].rescue => held.status = "running"
  BY <1>1 DEF DigestInvariant, Invocations, Sound, Placed, Writing
<1> HIDE DEF held, status, d
<1>5. /\ rec \in RunRecord /\ Plausible(rec)
      /\ AsSeen(rec) = [AsSeen(held) EXCEPT !.status = status]
  <2>1. /\ rec \in RunRecord /\ rec.run = held.run /\ rec.status = status
        /\ rec.phase = held.phase /\ rec.cursor = held.cursor /\ rec.kept = held.kept
        /\ rec.exhausted = held.exhausted
    BY <1>2, <1>3 DEF RunRecord
  <2> HIDE DEF rec
  <2>2. Plausible(rec)
    BY <1>2, <1>3, <2>1 DEF Plausible, Reached, Finished
  <2>3. AsSeen(rec) = [AsSeen(held) EXCEPT !.status = status]
    BY <2>1 DEF AsSeen
  <2>4. QED  BY <2>1, <2>2, <2>3
<1>6. \E step \in {"ack", "list"} : Write(w, rec, Only(w, step)) /\ Aimed(Only(w, step))
  BY <1>1, <1>2, OnlyAims DEF held, status
<1> HIDE DEF rec
<1>7. /\ DayInvariant' /\ daySeen[d] = AsSeen(held)
      /\ daySeen' = [daySeen EXCEPT ![d] = AsSeen(rec)]
  BY <1>1, <1>2, <1>5, <1>6, WrittenDay DEF DayInvariant, d
<1>8. Day!Settle(d, status)
  BY <1>1, <1>5, <1>7 DEF Day!Settle
<1>9. /\ AsSeen(held).status = held.status /\ AsSeen(held).phase = held.phase
      /\ AsSeen(held).kept = held.kept /\ AsSeen(held).exhausted = held.exhausted
  BY DEF AsSeen
<1>10. CASE status = "published"
  <2>1. Day!Publish(d)
    BY <1>2, <1>3, <1>4, <1>7, <1>8, <1>9, <1>10
       DEF Day!Publish, Day!Running, Reached, NeverDead
  <2>2. QED  BY <1>2, <1>7, <2>1 DEF DayStep, Day!Next
<1>11. CASE status = "empty"
  <2>1. Day!StayEmpty(d)
    BY <1>3, <1>4, <1>7, <1>8, <1>9, <1>11 DEF Day!StayEmpty, Day!Running, Reached
  <2>2. QED  BY <1>2, <1>7, <2>1 DEF DayStep, Day!Next
<1>12. CASE status = "failed"
  <2>1. Day!Fail(d)
    BY <1>2, <1>3, <1>7, <1>8, <1>9, <1>12 DEF Day!Fail, Reached, Plausible
  <2>2. QED  BY <1>2, <1>7, <2>1 DEF DayStep, Day!Next
<1>13. QED
  BY <1>3, <1>10, <1>11, <1>12 DEF Finished

\* The catch block: the run of the day, or the one that the message names.
LEMMA RescueDays ==
    ASSUME DigestInvariant, DayInvariant, NEW w \in Workers, Rescue(w)
    PROVE  DayStep
<1>1. /\ Busy(w) /\ worker[w].pc \in Early /\ UNCHANGED <<record, minted, queue>>
      /\ Found(w).run \in Rescuable(w)
      /\ Become(w, [Finishing(Holding(w, "finish", Found(w)), "failed") EXCEPT !.rescue = TRUE])
  BY DEF Rescue, Busy, Early, onlyWorker, clockVars
<1>2. /\ Invocations /\ Aimed(worker[w]) /\ worker[w].msg \in Addressed
      /\ Found(w) \in RunRecord
  BY <1>1, DayAtWork DEF Found
<1>3. Reached(Found(w), "failed")
  BY <1>1, <1>2, NoRunAssumption DEF Rescuable, Reached, Addressed
<1>4. Aimed([Finishing(Holding(w, "finish", Found(w)), "failed") EXCEPT !.rescue = TRUE])
  BY <1>1, <1>2, <1>3, HeldFinishingAims DEF Finished
<1>5. QED
  BY <1>1, <1>4, UnseenStep DEF DayInvariant

-----------------------------------------------------------------------------
\* Before the first request every day is as DayRecord begins.
LEMMA DayInit == Init => DayInvariant /\ Day!Init
<1> SUFFICES ASSUME Init PROVE DayInvariant /\ Day!Init
  OBVIOUS
<1>1. Aimed(Idle)
  <2>1. <<>> \in Seq(Addressed)
    OBVIOUS
  <2>2. QED  BY <2>1 DEF Aimed, Early, Idle
<1>2. /\ NoRecord.run = NoRun /\ NoRecord.status = "none" /\ NoRecord.kept = FALSE
      /\ AsSeen(NoRecord) = Day!Nothing
  BY DEF NoRecord, BlankRecord, AsSeen, Day!Nothing, Day!AtStart
<1>3. DayInvariant
  BY <1>1, <1>2 DEF Init, DayInvariant, Plausible
<1>4. Day!Init
  BY <1>2 DEF Init, Day!Init, daySeen
<1>5. QED
  BY <1>3, <1>4

\* Every step is one of DayRecord or is not seen.
LEMMA DaySteps == DigestInvariant /\ DayInvariant /\ [Next]_vars => DayStep
<1> SUFFICES ASSUME DigestInvariant, DayInvariant, [Next]_vars PROVE DayStep
  OBVIOUS
<1>1. CASE UNCHANGED vars
  BY <1>1 DEF vars, DayStep, DayInvariant, Day!vars, daySeen
<1>2. CASE \/ \E d \in Days : Request(d) \/ GoStale(d)
           \/ \E w \in Workers, m \in queue : Deliver(w, m) \/ DeliverTwice(w, m)
  BY <1>2, OutsideDays
<1>3. ASSUME NEW w \in Workers, Step(w) PROVE DayStep
  BY <1>3, EndingDays, StartDays, DispatchDays, PlanDays, EvaluateDays, SummarizeDays,
     PublishDays, FinishDays, RescueDays DEF Step
<1>4. ASSUME NEW w \in Workers, Mishap(w) PROVE DayStep
  BY <1>4, EndingDays DEF Mishap
<1>5. QED
  BY <1>1, <1>2, <1>3, <1>4 DEF Next

(***************************************************************************)
(* The refinement: however its messages are repeated and its invocations   *)
(* overlap, crash or throw, the record of a day is that of DayRecord       *)
(* (DayKept: putRun of daily/run-store.ts, dispatch and the steps of       *)
(* daily/deliver.ts).                                                      *)
(***************************************************************************)
THEOREM DayIsKept == Spec => DayKept
<1>1. DigestInvariant /\ DayInvariant /\ [Next]_vars
        => DayInvariant' /\ [Day!Next]_(Day!vars)
  BY DaySteps DEF DayStep
<1>2. Init => DayInvariant /\ Day!Init
  BY DayInit
<1>3. QED
  BY <1>1, <1>2, DigestInvariantHolds, PTL DEF Spec, DayKept, Day!Spec
=============================================================================
