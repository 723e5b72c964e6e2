--------------------------- MODULE PipelineProofs ---------------------------
(***************************************************************************)
(* Theorems about the pipeline, for any sets of jobs, workers and clients: *)
(* where a job is, what the scheduler and the tracker say of it, its       *)
(* record, its token, and that the promise of JobLifecycle is kept.        *)
(***************************************************************************)
EXTENDS PipelineProperties, FiniteSetTheorems, TLAPS

\* The job and the outcome of a thread are there in the sections that use them.
CarriersTyped ==
  /\ \A w \in Worker :
       /\ wpc[w] \in RunPc \cup {"sweepPersist"} => wjob[w] \in Job
       /\ wpc[w] \in {"leave", "settle", "mark", "persistEnd"} => outcome[w] \in Terminal
  /\ \A c \in Client : cpc[c] \notin {"ready", "join"} => cjob[c] \in Job

Typed == TypeOK /\ CarriersTyped

LEMMA TypedInit == Init => Typed
<1> SUFFICES ASSUME Init PROVE TypeOK /\ CarriersTyped
  BY DEF Typed
<1>1. TypeOK
  <2>1. dbSlot \in {"none", "built", "attached"}
    BY PipelineAssumption DEF Init
  <2> QED
    BY <2>1 DEF Init, TypeOK, JobState, Terminal, ClientPc, WorkerPc
<1>2. CarriersTyped
  BY DEF Init, CarriersTyped, RunPc
<1> QED
  BY <1>1, <1>2

LEMMA TypedSubmit ==
  ASSUME Typed, NEW c \in Client, SubmitCheck(c) \/ SubmitNext(c)
  PROVE  Typed'
<1> USE PipelineAssumption
    DEF Typed, TypeOK, CarriersTyped, JobState, Terminal, ClientPc, SubmitPc, WithdrawPc,
        WorkerPc, RunPc, Entry, SubmitStep, poolVars, queueVars, schedVars, dbVars,
        workerVars, clientVars
<1>1. CASE SubmitCheck(c)
  BY <1>1 DEF SubmitCheck
<1>2. CASE Register(c)
  BY <1>2 DEF Register
<1>3. CASE Track(c)
  BY <1>3 DEF Track
<1>4. CASE Describe(c)
  BY <1>4 DEF Describe
<1>5. CASE PersistNew(c)
  BY <1>5 DEF PersistNew, Persist
<1>6. CASE Push(c)
  BY <1>6 DEF Push
<1> QED
  BY <1>1, <1>2, <1>3, <1>4, <1>5, <1>6 DEF SubmitNext

LEMMA TypedCancel ==
  ASSUME Typed, NEW c \in Client, CancelCheck(c) \/ CancelNext(c)
  PROVE  Typed'
<1> USE PipelineAssumption
    DEF Typed, TypeOK, CarriersTyped, JobState, Terminal, ClientPc, SubmitPc, WithdrawPc,
        WorkerPc, RunPc, Entry, CancelStep, poolVars, queueVars, schedVars, dbVars,
        workerVars, clientVars
<1>1. CASE CancelCheck(c)
  BY <1>1 DEF CancelCheck
<1>2. CASE Dequeue(c)
  BY <1>2 DEF Dequeue, RemoveFirst
<1>3. CASE NotQueued(c)
  BY <1>3 DEF NotQueued
<1>4. CASE CancelTrack(c)
  BY <1>4 DEF CancelTrack, UpdateState
<1>5. CASE CancelMark(c)
  BY <1>5 DEF CancelMark, MarkDead
<1>6. CASE CancelPersist(c)
  BY <1>6 DEF CancelPersist, Persist
<1>7. CASE Flip(c)
  BY <1>7 DEF Flip
<1> QED
  BY <1>1, <1>2, <1>3, <1>4, <1>5, <1>6, <1>7 DEF CancelNext

LEMMA TypedHandle ==
  ASSUME Typed, NEW c \in Client, Start(c) \/ Stop(c) \/ Joined(c) \/ AttachDb(c)
  PROVE  Typed'
<1> USE PipelineAssumption
    DEF Typed, TypeOK, CarriersTyped, JobState, Terminal, ClientPc, SubmitPc, WithdrawPc,
        WorkerPc, RunPc, Entry, poolVars, queueVars, schedVars, dbVars, workerVars,
        clientVars
<1>1. CASE Start(c)
  BY <1>1 DEF Start
<1>2. CASE Stop(c)
  BY <1>2 DEF Stop
<1>3. CASE Joined(c)
  BY <1>3 DEF Joined
<1>4. CASE AttachDb(c)
  BY <1>4 DEF AttachDb
<1> QED
  BY <1>1, <1>2, <1>3, <1>4

\* try_take: what SweepOne and PopReady do to any list of entries.
LEMMA TypedSweep ==
  ASSUME Typed, NEW w \in Worker, NEW L \in SUBSET Entry, SweepOne(w, L) \/ PopReady(w, L)
  PROVE  Typed'
<1> USE PipelineAssumption
    DEF Typed, TypeOK, CarriersTyped, JobState, Terminal, ClientPc, SubmitPc, WithdrawPc,
        WorkerPc, RunPc, Entry, Goto, poolVars, queueVars, schedVars, dbVars, clientVars
<1>1. CASE SweepOne(w, L)
  BY <1>1 DEF SweepOne, RemoveFirst, UpdateState, MarkDead, IsFirst
<1>2. CASE PopReady(w, L)
  <2>1. /\ queue' \subseteq queue
        /\ \/ wjob' = wjob /\ (Goto(w, "exited") \/ Goto(w, "idle"))
           \/ \E e \in queue : wjob' = [wjob EXCEPT ![w] = e.job] /\ Goto(w, "begin")
    BY <1>2 DEF PopReady
  <2>2. /\ todo' = [todo EXCEPT ![w] = {}]
        /\ UNCHANGED <<poolVars, nextSeq, schedVars, tracker, submitted, running, dbVars,
                       token, outcome, clientVars>>
    BY <1>2 DEF PopReady
  <2>3. CASE wjob' = wjob /\ (Goto(w, "exited") \/ Goto(w, "idle"))
    BY <2>1, <2>2, <2>3
  <2>4. CASE \E e \in queue : wjob' = [wjob EXCEPT ![w] = e.job] /\ Goto(w, "begin")
    BY <2>1, <2>2, <2>4
  <2> QED
    BY <2>1, <2>3, <2>4
<1> QED
  BY <1>1, <1>2

LEMMA TypedLoop ==
  ASSUME Typed, NEW w \in Worker,
         LoopTest(w) \/ Take(w) \/ Resweep(w) \/ SweepPersist(w) \/ Idle(w)
  PROVE  Typed'
<1> USE PipelineAssumption
    DEF Typed, TypeOK, CarriersTyped, JobState, Terminal, ClientPc, SubmitPc, WithdrawPc,
        WorkerPc, RunPc, Entry, Goto, poolVars, queueVars, schedVars, dbVars, clientVars
<1>1. CASE LoopTest(w)
  BY <1>1 DEF LoopTest
<1>2. CASE Take(w)
  <2>1. BlockedEntries \in SUBSET Entry
    BY DEF BlockedEntries
  <2> QED
    BY <1>2, <2>1, TypedSweep DEF Take
<1>3. CASE Resweep(w)
  BY <1>3, TypedSweep DEF Resweep
<1>4. CASE SweepPersist(w)
  BY <1>4 DEF SweepPersist, Persist
<1>5. CASE Idle(w)
  BY <1>5 DEF Idle
<1> QED
  BY <1>1, <1>2, <1>3, <1>4, <1>5

LEMMA TypedRun ==
  ASSUME Typed, NEW w \in Worker, RunNext(w)
  PROVE  Typed'
<1> USE PipelineAssumption
    DEF Typed, TypeOK, CarriersTyped, JobState, Terminal, ClientPc, SubmitPc, WithdrawPc,
        WorkerPc, RunPc, Entry, RunStep, Goto, poolVars, queueVars, schedVars, dbVars,
        clientVars
<1>1. CASE Begin(w)
  BY <1>1 DEF Begin, UpdateState
<1>2. CASE PersistRun(w)
  BY <1>2 DEF PersistRun, Persist
<1>3. CASE Enroll(w)
  BY <1>3 DEF Enroll
<1>4. CASE Execute(w)
  BY <1>4 DEF Execute
<1>5. CASE Leave(w)
  BY <1>5 DEF Leave
<1>6. CASE Settle(w)
  BY <1>6 DEF Settle, UpdateState
<1>7. CASE Mark(w)
  BY <1>7 DEF Mark, MarkCompleted, MarkDead
<1>8. CASE PersistEnd(w)
  BY <1>8 DEF PersistEnd, Persist
<1> QED
  BY <1>1, <1>2, <1>3, <1>4, <1>5, <1>6, <1>7, <1>8 DEF RunNext

LEMMA TypedStep == Typed /\ [Next]_vars => Typed'
<1> SUFFICES ASSUME Typed, [Next]_vars PROVE Typed'
  OBVIOUS
<1>1. ASSUME NEW c \in Client, ClientNext(c) PROVE Typed'
  BY <1>1, TypedSubmit, TypedCancel, TypedHandle DEF ClientNext, CallNext
<1>2. ASSUME NEW w \in Worker, WorkerNext(w) PROVE Typed'
  BY <1>2, TypedLoop, TypedRun DEF WorkerNext
<1>3. CASE UNCHANGED vars
  BY <1>3 DEF vars, Typed, TypeOK, CarriersTyped, poolVars, queueVars, schedVars, dbVars,
              workerVars, clientVars
<1> QED
  BY <1>1, <1>2, <1>3 DEF Next

(* The variables keep their types, whatever the sets of jobs, workers and
   clients and the dependency lists callers give. *)
THEOREM TypeCorrect == Spec => []TypeOK
<1>1. Typed => TypeOK
  BY DEF Typed
<1> QED
  BY <1>1, TypedInit, TypedStep, PTL DEF Spec
-----------------------------------------------------------------------------
(* The inductive invariant of ownership.  OneOwner alone is not inductive:
   that a popped or swept job was Pending, and that a dead job is not
   Completed, rests on what the tracker says in every section.             *)

CarrierC(c) == cpc[c] \in SubmitPc \cup WithdrawPc

CarrierW(w) == wpc[w] \in RunPc \cup {"sweepPersist"}

\* What tracker and scheduler say of the job a worker carries.
WorkerStages ==
  \A w \in Worker :
    /\ wpc[w] = "begin" => tracker[wjob[w]] = "Pending"
    /\ wpc[w] \in {"persistRun", "enroll", "execute", "leave", "settle"}
         => tracker[wjob[w]] = "Running"
    /\ wpc[w] \in {"mark", "persistEnd"} => tracker[wjob[w]] = outcome[w]
    /\ wpc[w] = "persistEnd" => wjob[w] \in completed \cup dead
    /\ wpc[w] = "sweepPersist" => tracker[wjob[w]] = "Cancelled" /\ wjob[w] \in dead

\* What they say of the job a client carries, and of the queued jobs.
ClientStages ==
  /\ \A c \in Client :
       /\ cpc[c] \in {"register", "track"} => tracker[cjob[c]] = "unknown"
       /\ cpc[c] \in {"describe", "persistNew", "push", "cancelTrack"}
            => tracker[cjob[c]] = "Pending"
       /\ cpc[c] \in {"cancelMark", "cancelPersist"} => tracker[cjob[c]] = "Cancelled"
       /\ cpc[c] = "cancelPersist" => cjob[c] \in dead
  /\ \A e \in queue : tracker[e.job] = "Pending"

\* No job is in two places.
Exclusive ==
  /\ \A c, d \in Client : c # d /\ CarrierC(c) /\ CarrierC(d) => cjob[c] # cjob[d]
  /\ \A w, v \in Worker : w # v /\ CarrierW(w) /\ CarrierW(v) => wjob[w] # wjob[v]
  /\ \A c \in Client, w \in Worker : CarrierC(c) /\ CarrierW(w) => cjob[c] # wjob[w]
  /\ \A e, f \in queue : e.job = f.job => e = f
  /\ \A e \in queue, c \in Client : CarrierC(c) => cjob[c] # e.job
  /\ \A e \in queue, w \in Worker : CarrierW(w) => wjob[w] # e.job

\* j is in some place.
Placed(j) ==
  \/ \E e \in queue : e.job = j
  \/ \E c \in Client : CarrierC(c) /\ cjob[c] = j
  \/ \E w \in Worker : CarrierW(w) /\ wjob[w] = j

\* Every job is somewhere until the scheduler knows its outcome.
NotLost ==
  \A j \in Job : tracker[j] = "unknown" \/ j \in completed \cup dead \/ Placed(j)

\* The verdicts are the outcomes in the tracker, and what runs is ready.
Verdicts ==
  /\ \A j \in completed : tracker[j] = "Completed"
  /\ \A j \in dead : tracker[j] \in {"Failed", "Cancelled"}
  /\ \A w \in Worker : wpc[w] \in RunPc => deps[wjob[w]] \subseteq completed

\* start spawns every worker of the pool, once.
PoolOff == ~started => \A w \in Worker : wpc[w] = "off"

IInv ==
  /\ Typed /\ PoolOff
  /\ WorkerStages /\ ClientStages /\ Exclusive /\ NotLost /\ Verdicts

LEMMA OwnSubmit ==
  ASSUME IInv, NEW c \in Client, SubmitCheck(c) \/ SubmitNext(c)
  PROVE  WorkerStages' /\ ClientStages' /\ Exclusive' /\ NotLost' /\ Verdicts' /\ PoolOff'
<1> USE PipelineAssumption
    DEF IInv, Typed, TypeOK, CarriersTyped, CarrierC, CarrierW, SubmitPc, WithdrawPc,
       RunPc,
        Terminal, Entry, poolVars, queueVars, schedVars, dbVars, workerVars, clientVars
<1>1. CASE SubmitCheck(c)
  BY <1>1, SMTT(30) DEF SubmitCheck, Fresh, WorkerStages, ClientStages, Exclusive, NotLost, Placed,
     Verdicts, PoolOff
<1>2. CASE Register(c)
  BY <1>2, SMTT(30) DEF Register, SubmitStep, WorkerStages, ClientStages, Exclusive, NotLost,
     Placed, Verdicts, PoolOff
<1>3. CASE Track(c)
  <2>1. WorkerStages' /\ ClientStages' /\ Exclusive' /\ PoolOff'
    BY <1>3 DEF Track, SubmitStep, WorkerStages, ClientStages, Exclusive, PoolOff
  <2>2. NotLost'
    BY <1>3 DEF Track, SubmitStep, NotLost, Placed
  <2>3. Verdicts'
    BY <1>3 DEF Track, SubmitStep, ClientStages, Verdicts
  <2> QED
    BY <2>1, <2>2, <2>3
<1>4. CASE Describe(c)
  BY <1>4, SMTT(30) DEF Describe, SubmitStep, WorkerStages, ClientStages, Exclusive, NotLost,
     Placed, Verdicts, PoolOff
<1>5. CASE PersistNew(c)
  BY <1>5, SMTT(30) DEF PersistNew, SubmitStep, WorkerStages, ClientStages, Exclusive, NotLost,
     Placed, Verdicts, PoolOff
<1>6. CASE Push(c)
  <2>1. WorkerStages'
    BY <1>6 DEF Push, SubmitStep, WorkerStages, ClientStages, Exclusive
  <2>2. ClientStages'
    BY <1>6 DEF Push, SubmitStep, WorkerStages, ClientStages, Exclusive
  <2>3. Exclusive'
    BY <1>6 DEF Push, SubmitStep, WorkerStages, ClientStages, Exclusive
  <2>4. NotLost'
    <3>1. PICK e : e.job = cjob[c] /\ queue' = queue \cup {e}
      BY <1>6 DEF Push
    <3>2. ASSUME NEW j \in Job PROVE Placed(j) => Placed(j)'
      BY <1>6, <3>1 DEF Push, SubmitStep, Placed
    <3> QED
      BY <1>6, <3>2 DEF Push, SubmitStep, NotLost
  <2>5. Verdicts'
    BY <1>6 DEF Push, SubmitStep, WorkerStages, ClientStages, Verdicts
  <2>6. PoolOff'
    BY <1>6 DEF Push, SubmitStep, PoolOff
  <2> QED
    BY <2>1, <2>2, <2>3, <2>4, <2>5, <2>6
<1> QED
  BY <1>1, <1>2, <1>3, <1>4, <1>5, <1>6 DEF SubmitNext

LEMMA OwnCancel ==
  ASSUME IInv, NEW c \in Client, CancelCheck(c) \/ CancelNext(c)
  PROVE  WorkerStages' /\ ClientStages' /\ Exclusive' /\ NotLost' /\ Verdicts' /\ PoolOff'
<1> USE PipelineAssumption
    DEF IInv, Typed, TypeOK, CarriersTyped, CarrierC, CarrierW, SubmitPc, WithdrawPc,
       RunPc,
        Terminal, Entry, poolVars, queueVars, schedVars, dbVars, workerVars, clientVars
<1>1. CASE CancelCheck(c)
  <2>1. WorkerStages' /\ ClientStages' /\ PoolOff'
    BY <1>1 DEF CancelCheck, WorkerStages, ClientStages, PoolOff
  <2>2. Exclusive'
    BY <1>1 DEF CancelCheck, Exclusive
  <2>3. NotLost'
    BY <1>1 DEF CancelCheck, NotLost, Placed
  <2>4. Verdicts'
    BY <1>1 DEF CancelCheck, Verdicts
  <2> QED
    BY <2>1, <2>2, <2>3, <2>4
<1>2. CASE Dequeue(c)
  BY <1>2, SMTT(30) DEF Dequeue, CancelStep, RemoveFirst, JobsOf, EntriesOf, WorkerStages,
     ClientStages, Exclusive, NotLost, Placed, Verdicts, PoolOff
<1>3. CASE NotQueued(c)
  BY <1>3, SMTT(30) DEF NotQueued, CancelStep, WorkerStages, ClientStages, Exclusive, NotLost,
     Placed, Verdicts, PoolOff
<1>4. CASE CancelTrack(c)
  BY <1>4, SMTT(30) DEF CancelTrack, CancelStep, UpdateState, WorkerStages, ClientStages,
     Exclusive, NotLost, Placed, Verdicts, PoolOff
<1>5. CASE CancelMark(c)
  BY <1>5, SMTT(30) DEF CancelMark, CancelStep, MarkDead, WorkerStages, ClientStages, Exclusive,
     NotLost, Placed, Verdicts, PoolOff
<1>6. CASE CancelPersist(c)
  BY <1>6, SMTT(30) DEF CancelPersist, CancelStep, WorkerStages, ClientStages, Exclusive, NotLost,
     Placed, Verdicts, PoolOff
<1>7. CASE Flip(c)
  BY <1>7, SMTT(30) DEF Flip, CancelStep, WorkerStages, ClientStages, Exclusive, NotLost, Placed,
     Verdicts, PoolOff
<1> QED
  BY <1>1, <1>2, <1>3, <1>4, <1>5, <1>6, <1>7 DEF CancelNext

LEMMA OwnHandle ==
  ASSUME IInv, NEW c \in Client, Start(c) \/ Stop(c) \/ Joined(c) \/ AttachDb(c)
  PROVE  WorkerStages' /\ ClientStages' /\ Exclusive' /\ NotLost' /\ Verdicts' /\ PoolOff'
<1> USE PipelineAssumption
    DEF IInv, Typed, TypeOK, CarriersTyped, CarrierC, CarrierW, SubmitPc, WithdrawPc,
       RunPc,
        Terminal, Entry, poolVars, queueVars, schedVars, dbVars, workerVars, clientVars
<1>1. CASE Start(c)
  <2>1. WorkerStages'
    BY <1>1 DEF Start, WorkerStages, ClientStages, Exclusive
  <2>2. ClientStages'
    BY <1>1 DEF Start, WorkerStages, ClientStages, Exclusive
  <2>3. Exclusive'
    BY <1>1 DEF Start, WorkerStages, ClientStages, Exclusive
  <2>4. NotLost'
    BY <1>1 DEF Start, NotLost, Placed, PoolOff
  <2>5. Verdicts'
    BY <1>1 DEF Start, WorkerStages, ClientStages, Verdicts
  <2>6. PoolOff'
    BY <1>1 DEF Start, PoolOff
  <2> QED
    BY <2>1, <2>2, <2>3, <2>4, <2>5, <2>6
<1>2. CASE Stop(c)
  BY <1>2, SMTT(30) DEF Stop, WorkerStages, ClientStages, Exclusive, NotLost, Placed, Verdicts,
     PoolOff
<1>3. CASE Joined(c)
  BY <1>3, SMTT(30) DEF Joined, WorkerStages, ClientStages, Exclusive, NotLost, Placed, Verdicts,
     PoolOff
<1>4. CASE AttachDb(c)
  BY <1>4, SMTT(30) DEF AttachDb, WorkerStages, ClientStages, Exclusive, NotLost, Placed, Verdicts,
     PoolOff
<1> QED
  BY <1>1, <1>2, <1>3, <1>4

LEMMA OwnLoop ==
  ASSUME IInv, NEW w \in Worker, LoopTest(w) \/ SweepPersist(w) \/ Idle(w)
  PROVE  WorkerStages' /\ ClientStages' /\ Exclusive' /\ NotLost' /\ Verdicts' /\ PoolOff'
<1> USE PipelineAssumption
    DEF IInv, Typed, TypeOK, CarriersTyped, CarrierC, CarrierW, SubmitPc, WithdrawPc,
       RunPc,
        Terminal, Entry, poolVars, queueVars, schedVars, dbVars, workerVars, clientVars
<1>1. CASE LoopTest(w)
  <2>1. WorkerStages' /\ ClientStages'
    BY <1>1 DEF LoopTest, Goto, WorkerStages, ClientStages
  <2>2. Exclusive'
    BY <1>1 DEF LoopTest, Goto, Exclusive
  <2>3. NotLost'
    BY <1>1 DEF LoopTest, Goto, NotLost, Placed
  <2>4. Verdicts' /\ PoolOff'
    BY <1>1 DEF LoopTest, Goto, Verdicts, PoolOff
  <2> QED
    BY <2>1, <2>2, <2>3, <2>4
<1>2. CASE SweepPersist(w)
  BY <1>2, SMTT(30) DEF SweepPersist, Goto, WorkerStages, ClientStages, Exclusive, NotLost, Placed,
     Verdicts, PoolOff
<1>3. CASE Idle(w)
  BY <1>3, SMTT(30) DEF Idle, Goto, WorkerStages, ClientStages, Exclusive, NotLost, Placed,
     Verdicts, PoolOff
<1> QED
  BY <1>1, <1>2, <1>3

LEMMA OwnRun ==
  ASSUME IInv, NEW w \in Worker, RunNext(w)
  PROVE  WorkerStages' /\ ClientStages' /\ Exclusive' /\ NotLost' /\ Verdicts' /\ PoolOff'
<1> USE PipelineAssumption
    DEF IInv, Typed, TypeOK, CarriersTyped, CarrierC, CarrierW, SubmitPc, WithdrawPc,
       RunPc,
        Terminal, Entry, poolVars, queueVars, schedVars, dbVars, workerVars, clientVars
<1>1. CASE Begin(w)
  BY <1>1, SMTT(30) DEF Begin, RunStep, Goto, UpdateState, WorkerStages, ClientStages, Exclusive,
     NotLost, Placed, Verdicts, PoolOff
<1>2. CASE PersistRun(w)
  BY <1>2, SMTT(30) DEF PersistRun, RunStep, Goto, WorkerStages, ClientStages, Exclusive, NotLost,
     Placed, Verdicts, PoolOff
<1>3. CASE Enroll(w)
  BY <1>3, SMTT(30) DEF Enroll, RunStep, Goto, WorkerStages, ClientStages, Exclusive, NotLost,
     Placed, Verdicts, PoolOff
<1>4. CASE Execute(w)
  BY <1>4, SMTT(30) DEF Execute, RunStep, Goto, WorkerStages, ClientStages, Exclusive, NotLost,
     Placed, Verdicts, PoolOff
<1>5. CASE Leave(w)
  BY <1>5, SMTT(30) DEF Leave, RunStep, Goto, WorkerStages, ClientStages, Exclusive, NotLost,
     Placed, Verdicts, PoolOff
<1>6. CASE Settle(w)
  BY <1>6, SMTT(30) DEF Settle, RunStep, Goto, UpdateState, WorkerStages, ClientStages, Exclusive,
     NotLost, Placed, Verdicts, PoolOff
<1>7. CASE Mark(w)
  BY <1>7, SMTT(30) DEF Mark, RunStep, Goto, MarkCompleted, MarkDead, WorkerStages, ClientStages,
     Exclusive, NotLost, Placed, Verdicts, PoolOff
<1>8. CASE PersistEnd(w)
  BY <1>8, SMTT(30) DEF PersistEnd, RunStep, Goto, WorkerStages, ClientStages, Exclusive, NotLost,
     Placed, Verdicts, PoolOff
<1> QED
  BY <1>1, <1>2, <1>3, <1>4, <1>5, <1>6, <1>7, <1>8 DEF RunNext

(* try_take on any list of entries: the sweep hands one queued job to the
   worker as Cancelled, the pop hands it a ready one.                      *)
LEMMA OwnSweep ==
  ASSUME IInv, NEW w \in Worker, wpc[w] \in {"take", "resweep"},
         NEW L \in SUBSET Entry, SweepOne(w, L)
  PROVE  WorkerStages' /\ ClientStages' /\ Exclusive' /\ NotLost' /\ Verdicts' /\ PoolOff'
<1> USE PipelineAssumption
    DEF IInv, Typed, TypeOK, CarriersTyped, CarrierC, CarrierW, SubmitPc, WithdrawPc, RunPc,
        Terminal, Entry, poolVars, queueVars, schedVars, dbVars, clientVars
<1>1. PICK e \in queue :
        /\ queue' = queue \ {e}
        /\ tracker' = [tracker EXCEPT ![e.job] = "Cancelled"]
        /\ dead' = dead \cup {e.job} /\ completed' = completed \ {e.job}
        /\ wjob' = [wjob EXCEPT ![w] = e.job]
  <2>1. PICK f \in L :
          /\ RemoveFirst(f.job) /\ UpdateState(f.job, "Cancelled") /\ MarkDead(f.job)
          /\ wjob' = [wjob EXCEPT ![w] = f.job]
    BY DEF SweepOne
  <2>2. PICK e \in queue : e.job = f.job /\ queue' = queue \ {e}
    BY <2>1 DEF RemoveFirst, EntriesOf
  <2>3. tracker[f.job] # "unknown"
    BY <2>2 DEF ClientStages
  <2> QED
    BY <2>1, <2>2, <2>3 DEF UpdateState, MarkDead
<1>2. /\ wpc' = [wpc EXCEPT ![w] = "sweepPersist"]
      /\ UNCHANGED <<poolVars, deps, nextSeq, submitted, running, dbVars, token, outcome,
                     clientVars>>
  BY DEF SweepOne, Goto, MarkDead, RemoveFirst
<1>3. WorkerStages' /\ ClientStages'
  BY <1>1, <1>2 DEF WorkerStages, ClientStages, Exclusive
<1>4. Exclusive'
  BY <1>1, <1>2 DEF Exclusive
<1>5. NotLost'
  BY <1>1, <1>2 DEF NotLost, Placed
<1>6. Verdicts' /\ PoolOff'
  BY <1>1, <1>2 DEF Verdicts, PoolOff, ClientStages
<1> QED
  BY <1>3, <1>4, <1>5, <1>6

LEMMA OwnPop ==
  ASSUME IInv, NEW w \in Worker, wpc[w] \in {"take", "resweep"},
         NEW L \in SUBSET Entry, PopReady(w, L)
  PROVE  WorkerStages' /\ ClientStages' /\ Exclusive' /\ NotLost' /\ Verdicts' /\ PoolOff'
<1> USE PipelineAssumption
    DEF IInv, Typed, TypeOK, CarriersTyped, CarrierC, CarrierW, SubmitPc, WithdrawPc, RunPc,
        Terminal, Entry, poolVars, queueVars, schedVars, dbVars, clientVars
<1>1. UNCHANGED <<poolVars, nextSeq, schedVars, tracker, submitted, running, dbVars, token,
                  outcome, clientVars>>
  BY DEF PopReady
<1>2. CASE UNCHANGED <<queue, wjob>> /\ (Goto(w, "exited") \/ Goto(w, "idle"))
  BY <1>1, <1>2 DEF Goto, WorkerStages, ClientStages, Exclusive, NotLost, Placed, Verdicts,
                    PoolOff
<1>3. ASSUME NEW e \in queue, Ready(e.job), queue' = queue \ {e},
             wjob' = [wjob EXCEPT ![w] = e.job], Goto(w, "begin")
      PROVE  WorkerStages' /\ ClientStages' /\ Exclusive' /\ NotLost' /\ Verdicts' /\ PoolOff'
  <2>1. WorkerStages' /\ ClientStages'
    BY <1>1, <1>3 DEF Goto, WorkerStages, ClientStages
  <2>2. Exclusive'
    BY <1>1, <1>3 DEF Goto, Exclusive
  <2>3. NotLost'
    BY <1>1, <1>3 DEF Goto, NotLost, Placed
  <2>4. Verdicts' /\ PoolOff'
    BY <1>1, <1>3 DEF Goto, Verdicts, PoolOff, Ready
  <2> QED
    BY <2>1, <2>2, <2>3, <2>4
<1>4. \/ UNCHANGED <<queue, wjob>> /\ (Goto(w, "exited") \/ Goto(w, "idle"))
      \/ \E e \in queue : /\ Ready(e.job) /\ queue' = queue \ {e}
                          /\ wjob' = [wjob EXCEPT ![w] = e.job] /\ Goto(w, "begin")
  BY DEF PopReady
<1> QED
  BY <1>2, <1>3, <1>4

LEMMA OwnTake ==
  ASSUME IInv, NEW w \in Worker, Take(w) \/ Resweep(w)
  PROVE  WorkerStages' /\ ClientStages' /\ Exclusive' /\ NotLost' /\ Verdicts' /\ PoolOff'
<1>1. BlockedEntries \in SUBSET Entry /\ todo[w] \in SUBSET Entry
  BY DEF BlockedEntries, IInv, Typed, TypeOK
<1> QED
  BY <1>1, OwnSweep, OwnPop DEF Take, Resweep

LEMMA IInvInit == Init => IInv
<1> SUFFICES ASSUME Init PROVE IInv
  OBVIOUS
<1>1. Typed
  BY TypedInit
<1>2. PoolOff /\ WorkerStages /\ ClientStages /\ Exclusive /\ NotLost /\ Verdicts
  BY DEF Init, PoolOff, WorkerStages, ClientStages, Exclusive, NotLost, Verdicts, CarrierC,
         CarrierW, SubmitPc, WithdrawPc, RunPc
<1> QED
  BY <1>1, <1>2 DEF IInv

LEMMA IInvStep == IInv /\ [Next]_vars => IInv'
<1> SUFFICES ASSUME IInv, [Next]_vars PROVE IInv'
  OBVIOUS
<1>1. Typed'
  BY TypedStep DEF IInv
<1>2. ASSUME NEW c \in Client, ClientNext(c) PROVE IInv'
  BY <1>1, <1>2, OwnSubmit, OwnCancel, OwnHandle DEF ClientNext, CallNext, IInv
<1>3. ASSUME NEW w \in Worker, WorkerNext(w) PROVE IInv'
  BY <1>1, <1>3, OwnLoop, OwnTake, OwnRun DEF WorkerNext, IInv
<1>4. CASE UNCHANGED vars
  BY <1>1, <1>4 DEF vars, IInv, WorkerStages, ClientStages, Exclusive, NotLost, Placed,
              Verdicts, PoolOff, CarrierC, CarrierW, poolVars, queueVars, schedVars, dbVars,
              workerVars, clientVars
<1> QED
  BY <1>2, <1>3, <1>4 DEF Next

LEMMA IInvAlways == Spec => []IInv
  BY IInvInit, IInvStep, PTL DEF Spec
-----------------------------------------------------------------------------
(* No interleaving of submit, cancel, the sweeps and the workers loses a
   job, duplicates it or runs it in two places. *)
THEOREM OwnershipCorrect == Spec => []OneOwner
<1>1. IInv => OneOwner
  <2> SUFFICES ASSUME IInv, NEW j \in Job
               PROVE  /\ \A s, t \in Carriers(j) : s = t
                      /\ \A e, f \in EntriesOf(queue, j) : e = f
                      /\ EntriesOf(queue, j) # {} => Carriers(j) = {} /\ tracker[j] = "Pending"
                      /\ Accepted(j) /\ ~IsTerminal(j)
                           => EntriesOf(queue, j) # {} \/ Carriers(j) # {}
    BY DEF OneOwner
  <2> USE DEF IInv, Exclusive, Carriers, CarrierC, CarrierW, EntriesOf
  <2>1. \A s, t \in Carriers(j) : s = t
    OBVIOUS
  <2>2. \A e, f \in EntriesOf(queue, j) : e = f
    OBVIOUS
  <2>3. EntriesOf(queue, j) # {} => Carriers(j) = {} /\ tracker[j] = "Pending"
    BY DEF ClientStages
  <2>4. Accepted(j) /\ ~IsTerminal(j) => EntriesOf(queue, j) # {} \/ Carriers(j) # {}
    BY DEF Accepted, IsTerminal, Terminal, NotLost, Placed, Verdicts
  <2> QED
    BY <2>1, <2>2, <2>3, <2>4
<1> QED
  BY <1>1, IInvAlways, PTL

(* A worker runs a job only after all its dependencies have completed, and
   they stay completed while it runs. *)
THEOREM DependenciesCorrect == Spec => []DependenciesHonoured
<1>1. IInv => DependenciesHonoured
  BY DEF IInv, DependenciesHonoured, Verdicts
<1> QED
  BY <1>1, IInvAlways, PTL

(* Scheduler and tracker never contradict each other on an outcome. *)
THEOREM VerdictsCorrect == Spec => []VerdictsAgree
<1>1. IInv => VerdictsAgree
  <2> SUFFICES ASSUME IInv PROVE VerdictsAgree
    OBVIOUS
  <2>1. completed \cap dead = {}
    BY DEF IInv, Verdicts
  <2>2. \A j \in Job : IsTerminal(j) /\ Carriers(j) = {} => j \in completed \cup dead
    BY DEF IInv, IsTerminal, Terminal, Carriers, CarrierC, CarrierW, NotLost, Placed,
           ClientStages
  <2> QED
    BY <2>1, <2>2 DEF IInv, Verdicts, VerdictsAgree
<1> QED
  BY <1>1, IInvAlways, PTL
-----------------------------------------------------------------------------
(* How far the record of each job is, at every place the job can be. *)

NewRecorded == \A j \in Job : tracker[j] = "unknown" => db[j] = "none" /\ j \notin submitted

NoneRecorded == dbSlot = "none" => \A j \in Job : db[j] = "none"

QueueRecorded ==
  \A e \in queue : e.job \in submitted /\ db[e.job] \in {"none", "Pending"}

ClientRecorded ==
  \A c \in Client :
    /\ cpc[c] \in {"describe", "persistNew"} => db[cjob[c]] = "none"
    /\ cpc[c] \in {"persistNew", "push"} \cup WithdrawPc => cjob[c] \in submitted
    /\ cpc[c] \in {"push"} \cup WithdrawPc => db[cjob[c]] \in {"none", "Pending"}

WorkerRecorded ==
  \A w \in Worker :
    /\ CarrierW(w) => wjob[w] \in submitted
    /\ wpc[w] \in {"begin", "persistRun", "sweepPersist"}
         => db[wjob[w]] \in {"none", "Pending"}
    /\ wpc[w] \in {"enroll", "execute", "leave", "settle", "mark", "persistEnd"}
         => db[wjob[w]] \in {"none", "Running"}

SettledRecorded == \A j \in Job : Placed(j) \/ db[j] \in {"none", tracker[j]}

Recorded ==
  /\ NewRecorded /\ NoneRecorded /\ QueueRecorded
  /\ ClientRecorded /\ WorkerRecorded /\ SettledRecorded

\* A database that is there from the start has a record of every job that
\* got as far as the push.
Present ==
  dbSlot = "built" =>
    /\ \A e \in queue : db[e.job] # "none"
    /\ \A c \in Client : cpc[c] \in {"push"} \cup WithdrawPc => db[cjob[c]] # "none"
    /\ \A w \in Worker : CarrierW(w) => db[wjob[w]] # "none"

\* Who may be told to stop: the jobs some caller named, and the dependents of
\* dead jobs.
Justified ==
  /\ CancellationJustified
  /\ \A w \in Worker :
       /\ wpc[w] \in {"execute", "leave"} /\ token[w] => wjob[w] \in asked
       /\ wpc[w] \in {"leave", "settle", "mark", "persistEnd"} /\ outcome[w] = "Cancelled"
            => wjob[w] \in asked
       /\ \A e \in todo[w] : tracker[e.job] # "unknown" /\ deps[e.job] \cap dead # {}
  /\ \A c \in Client : cpc[c] \in {"dequeue", "flip"} \cup WithdrawPc => cjob[c] \in asked

JInv == TokenReachesItsJob /\ Recorded /\ Present /\ Justified

IJInv == IInv /\ JInv

LEMMA JInvInit == Init => JInv
  BY PipelineAssumption
     DEF Init, JInv, TokenReachesItsJob, Recorded, Present, Justified, CancellationJustified,
         CarrierW, RunPc, SubmitPc, WithdrawPc, Recorded, NewRecorded, NoneRecorded,
         QueueRecorded, ClientRecorded, WorkerRecorded, SettledRecorded
-----------------------------------------------------------------------------
(* The running map. *)

LEMMA TokenClient ==
  ASSUME IInv, JInv, NEW c \in Client, ClientNext(c)
  PROVE  TokenReachesItsJob'
<1> USE DEF IInv, Typed, TypeOK, CarriersTyped, CarrierC, CarrierW, SubmitPc, WithdrawPc, RunPc,
        poolVars, queueVars, schedVars, dbVars, workerVars, clientVars,
        JInv, TokenReachesItsJob
<1>1. CASE Start(c)
  BY <1>1, PipelineAssumption DEF Start, PoolOff
<1>2. CASE UNCHANGED <<running, wpc, wjob>>
  BY <1>2
<1>3. Start(c) \/ UNCHANGED <<running, wpc, wjob>>
  BY DEF ClientNext, CallNext, SubmitNext, CancelNext, SubmitCheck, Register, Track,
         Describe, PersistNew, Push, SubmitStep, CancelCheck, Dequeue, NotQueued,
         CancelTrack, CancelMark, CancelPersist, Flip, CancelStep, Stop, Joined, AttachDb
<1> QED
  BY <1>1, <1>2, <1>3

LEMMA TokenWorker ==
  ASSUME IInv, JInv, NEW w \in Worker, WorkerNext(w)
  PROVE  TokenReachesItsJob'
<1> USE PipelineAssumption
    DEF IInv, Typed, TypeOK, CarriersTyped, CarrierC, CarrierW, SubmitPc, WithdrawPc, RunPc,
        poolVars, queueVars, schedVars, dbVars, workerVars, clientVars,
        JInv, TokenReachesItsJob
<1>1. CASE Enroll(w)
  BY <1>1, SMTT(30) DEF Enroll, RunStep, Goto, Exclusive
<1>2. CASE Leave(w)
  BY <1>2, SMTT(30) DEF Leave, RunStep, Goto, Exclusive
<1>3. ASSUME NEW L \in SUBSET Entry, SweepOne(w, L) \/ PopReady(w, L),
             wpc[w] \in {"take", "resweep"}
      PROVE  TokenReachesItsJob'
  <2>1. running' = running /\ \A v \in Worker \ {w} : wjob'[v] = wjob[v]
    <3>1. CASE SweepOne(w, L)
      BY <3>1 DEF SweepOne
    <3>2. CASE PopReady(w, L)
      <4>1. running' = running
        BY <3>2 DEF PopReady
      <4>2. wjob' = wjob \/ \E e \in queue : wjob' = [wjob EXCEPT ![w] = e.job]
        BY <3>2 DEF PopReady
      <4> QED
        BY <4>1, <4>2
    <3> QED
      BY <1>3, <3>1, <3>2
  <2>2. \E pc \in {"sweepPersist", "exited", "begin", "idle"} : Goto(w, pc)
    BY <1>3 DEF SweepOne, PopReady
  <2> QED
    BY <1>3, <2>1, <2>2 DEF Goto
<1>4. CASE Begin(w) \/ PersistRun(w) \/ Execute(w) \/ Settle(w) \/ Mark(w) \/ PersistEnd(w)
  BY <1>4 DEF Begin, PersistRun, Execute, Settle, Mark, PersistEnd, RunStep, Goto
<1>5. CASE LoopTest(w) \/ SweepPersist(w) \/ Idle(w)
  BY <1>5 DEF LoopTest, SweepPersist, Idle, Goto
<1>6. BlockedEntries \in SUBSET Entry /\ todo[w] \in SUBSET Entry
  BY DEF BlockedEntries
<1> QED
  BY <1>1, <1>2, <1>3, <1>4, <1>5, <1>6 DEF WorkerNext, RunNext, Take, Resweep
-----------------------------------------------------------------------------
(* The records. *)

LEMMA RecordSubmit ==
  ASSUME IInv, JInv, NEW c \in Client, SubmitCheck(c) \/ SubmitNext(c)
  PROVE  Recorded' /\ Present'
<1> USE PipelineAssumption
    DEF IInv, Typed, TypeOK, CarriersTyped, CarrierC, CarrierW, SubmitPc, WithdrawPc, RunPc,
        poolVars, queueVars, schedVars, dbVars, workerVars, clientVars,
        JInv, Recorded, NewRecorded, NoneRecorded, QueueRecorded, ClientRecorded, WorkerRecorded,
        SettledRecorded, Present, Terminal, WorkerStages, ClientStages, Exclusive, Placed
<1>1. CASE SubmitCheck(c)
  BY <1>1, SMTT(30) DEF SubmitCheck, Fresh
<1>2. CASE Register(c)
  BY <1>2, SMTT(30) DEF Register, SubmitStep
<1>3. CASE Track(c)
  BY <1>3, SMTT(30) DEF Track, SubmitStep
<1>4. CASE Describe(c)
  BY <1>4, SMTT(30) DEF Describe, SubmitStep
<1>5. CASE PersistNew(c)
  BY <1>5, SMTT(30) DEF PersistNew, SubmitStep, Persist
<1>6. CASE Push(c)
  BY <1>6, SMTT(30) DEF Push, SubmitStep
<1> QED
  BY <1>1, <1>2, <1>3, <1>4, <1>5, <1>6 DEF SubmitNext

LEMMA RecordCancel ==
  ASSUME IInv, JInv, NEW c \in Client, CancelCheck(c) \/ CancelNext(c)
  PROVE  Recorded' /\ Present'
<1> USE PipelineAssumption
    DEF IInv, Typed, TypeOK, CarriersTyped, CarrierC, CarrierW, SubmitPc, WithdrawPc, RunPc,
        poolVars, queueVars, schedVars, dbVars, workerVars, clientVars,
        JInv, Recorded, NewRecorded, NoneRecorded, QueueRecorded, ClientRecorded, WorkerRecorded,
        SettledRecorded, Present, Terminal, WorkerStages, ClientStages, Exclusive, Placed
<1>1. CASE CancelCheck(c)
  BY <1>1, SMTT(30) DEF CancelCheck
<1>2. CASE Dequeue(c)
  BY <1>2, SMTT(30) DEF Dequeue, CancelStep, RemoveFirst, JobsOf, EntriesOf
<1>3. CASE NotQueued(c)
  BY <1>3, SMTT(30) DEF NotQueued, CancelStep
<1>4. CASE CancelTrack(c)
  BY <1>4, SMTT(30) DEF CancelTrack, CancelStep, UpdateState
<1>5. CASE CancelMark(c)
  BY <1>5, SMTT(30) DEF CancelMark, CancelStep, MarkDead
<1>6. CASE CancelPersist(c)
  <2>1. NewRecorded' /\ NoneRecorded' /\ QueueRecorded'
    BY <1>6 DEF CancelPersist, CancelStep, Persist
  <2>2. ClientRecorded'
    BY <1>6 DEF CancelPersist, CancelStep, Persist
  <2>3. WorkerRecorded'
    BY <1>6 DEF CancelPersist, CancelStep, Persist
  <2>4. SettledRecorded'
    <3>1. ASSUME NEW j \in Job, j # cjob[c], Placed(j) PROVE Placed(j)'
      BY <1>6, <3>1 DEF CancelPersist, CancelStep, Persist
    <3>2. \A j \in Job \ {cjob[c]} : db'[j] = db[j] /\ tracker'[j] = tracker[j]
      BY <1>6 DEF CancelPersist, CancelStep, Persist
    <3>3. ASSUME NEW j \in Job, j = cjob[c] PROVE db'[j] \in {"none", tracker'[j]} \/ Placed(j)'
      BY <1>6, <3>3 DEF CancelPersist, CancelStep, Persist
    <3> QED
      BY <3>1, <3>2, <3>3
  <2>5. Present'
    BY <1>6 DEF CancelPersist, CancelStep, Persist
  <2> QED
    BY <2>1, <2>2, <2>3, <2>4, <2>5
<1>7. CASE Flip(c)
  BY <1>7, SMTT(30) DEF Flip, CancelStep
<1> QED
  BY <1>1, <1>2, <1>3, <1>4, <1>5, <1>6, <1>7 DEF CancelNext

LEMMA RecordHandle ==
  ASSUME IInv, JInv, NEW c \in Client, Start(c) \/ Stop(c) \/ Joined(c) \/ AttachDb(c)
  PROVE  Recorded' /\ Present'
<1> USE PipelineAssumption
    DEF IInv, Typed, TypeOK, CarriersTyped, CarrierC, CarrierW, SubmitPc, WithdrawPc, RunPc,
        poolVars, queueVars, schedVars, dbVars, workerVars, clientVars,
        JInv, Recorded, NewRecorded, NoneRecorded, QueueRecorded, ClientRecorded, WorkerRecorded,
        SettledRecorded, Present, Terminal, WorkerStages, ClientStages, Exclusive, Placed
<1>1. CASE Start(c)
  BY <1>1, SMTT(30) DEF Start, PoolOff
<1>2. CASE Stop(c)
  BY <1>2, SMTT(30) DEF Stop, PoolOff
<1>3. CASE Joined(c)
  BY <1>3, SMTT(30) DEF Joined, PoolOff
<1>4. CASE AttachDb(c)
  BY <1>4, SMTT(30) DEF AttachDb, PoolOff
<1> QED
  BY <1>1, <1>2, <1>3, <1>4

LEMMA RecordLoop ==
  ASSUME IInv, JInv, NEW w \in Worker, LoopTest(w) \/ SweepPersist(w) \/ Idle(w)
  PROVE  Recorded' /\ Present'
<1> USE PipelineAssumption
    DEF IInv, Typed, TypeOK, CarriersTyped, CarrierC, CarrierW, SubmitPc, WithdrawPc, RunPc,
        poolVars, queueVars, schedVars, dbVars, workerVars, clientVars,
        JInv, Recorded, NewRecorded, NoneRecorded, QueueRecorded, ClientRecorded, WorkerRecorded,
        SettledRecorded, Present, Terminal, WorkerStages, ClientStages, Exclusive, Placed
<1>1. CASE LoopTest(w)
  BY <1>1, SMTT(30) DEF LoopTest, Goto
<1>2. CASE SweepPersist(w)
  <2>1. NewRecorded' /\ NoneRecorded' /\ QueueRecorded'
    BY <1>2 DEF SweepPersist, Goto, Persist
  <2>2. ClientRecorded'
    BY <1>2 DEF SweepPersist, Goto, Persist
  <2>3. WorkerRecorded'
    BY <1>2 DEF SweepPersist, Goto, Persist
  <2>4. SettledRecorded'
    <3>1. ASSUME NEW j \in Job, j # wjob[w], Placed(j) PROVE Placed(j)'
      BY <1>2, <3>1 DEF SweepPersist, Goto, Persist
    <3>2. \A j \in Job \ {wjob[w]} : db'[j] = db[j] /\ tracker'[j] = tracker[j]
      BY <1>2 DEF SweepPersist, Goto, Persist
    <3>3. ASSUME NEW j \in Job, j = wjob[w] PROVE db'[j] \in {"none", tracker'[j]} \/ Placed(j)'
      BY <1>2, <3>3 DEF SweepPersist, Goto, Persist
    <3> QED
      BY <3>1, <3>2, <3>3
  <2>5. Present'
    BY <1>2 DEF SweepPersist, Goto, Persist
  <2> QED
    BY <2>1, <2>2, <2>3, <2>4, <2>5
<1>3. CASE Idle(w)
  BY <1>3, SMTT(30) DEF Idle, Goto
<1> QED
  BY <1>1, <1>2, <1>3

LEMMA RecordRun ==
  ASSUME IInv, JInv, NEW w \in Worker, RunNext(w)
  PROVE  Recorded' /\ Present'
<1> USE PipelineAssumption
    DEF IInv, Typed, TypeOK, CarriersTyped, CarrierC, CarrierW, SubmitPc, WithdrawPc, RunPc,
        poolVars, queueVars, schedVars, dbVars, workerVars, clientVars,
        JInv, Recorded, NewRecorded, NoneRecorded, QueueRecorded, ClientRecorded, WorkerRecorded,
        SettledRecorded, Present, Terminal, WorkerStages, ClientStages, Exclusive, Placed
<1>1. CASE Begin(w)
  BY <1>1, SMTT(30) DEF Begin, RunStep, Goto, UpdateState
<1>2. CASE PersistRun(w)
  <2>1. NewRecorded' /\ NoneRecorded' /\ QueueRecorded'
    BY <1>2 DEF PersistRun, RunStep, Goto, Persist
  <2>2. ClientRecorded'
    BY <1>2 DEF PersistRun, RunStep, Goto, Persist
  <2>3. WorkerRecorded'
    BY <1>2 DEF PersistRun, RunStep, Goto, Persist
  <2>4. SettledRecorded'
    <3>1. ASSUME NEW j \in Job, j # wjob[w], Placed(j) PROVE Placed(j)'
      BY <1>2, <3>1 DEF PersistRun, RunStep, Goto, Persist
    <3>2. \A j \in Job \ {wjob[w]} : db'[j] = db[j] /\ tracker'[j] = tracker[j]
      BY <1>2 DEF PersistRun, RunStep, Goto, Persist
    <3>3. ASSUME NEW j \in Job, j = wjob[w] PROVE db'[j] \in {"none", tracker'[j]} \/ Placed(j)'
      BY <1>2, <3>3 DEF PersistRun, RunStep, Goto, Persist
    <3> QED
      BY <3>1, <3>2, <3>3
  <2>5. Present'
    BY <1>2 DEF PersistRun, RunStep, Goto, Persist
  <2> QED
    BY <2>1, <2>2, <2>3, <2>4, <2>5
<1>3. CASE Enroll(w)
  BY <1>3, SMTT(30) DEF Enroll, RunStep, Goto
<1>4. CASE Execute(w)
  BY <1>4, SMTT(30) DEF Execute, RunStep, Goto
<1>5. CASE Leave(w)
  BY <1>5, SMTT(30) DEF Leave, RunStep, Goto
<1>6. CASE Settle(w)
  BY <1>6, SMTT(30) DEF Settle, RunStep, Goto, UpdateState
<1>7. CASE Mark(w)
  BY <1>7, SMTT(30) DEF Mark, RunStep, Goto, MarkCompleted, MarkDead
<1>8. CASE PersistEnd(w)
  <2>1. NewRecorded' /\ NoneRecorded' /\ QueueRecorded'
    BY <1>8 DEF PersistEnd, RunStep, Goto, Persist
  <2>2. ClientRecorded'
    BY <1>8 DEF PersistEnd, RunStep, Goto, Persist
  <2>3. WorkerRecorded'
    BY <1>8 DEF PersistEnd, RunStep, Goto, Persist
  <2>4. SettledRecorded'
    <3>1. ASSUME NEW j \in Job, j # wjob[w], Placed(j) PROVE Placed(j)'
      BY <1>8, <3>1 DEF PersistEnd, RunStep, Goto, Persist
    <3>2. \A j \in Job \ {wjob[w]} : db'[j] = db[j] /\ tracker'[j] = tracker[j]
      BY <1>8 DEF PersistEnd, RunStep, Goto, Persist
    <3>3. ASSUME NEW j \in Job, j = wjob[w] PROVE db'[j] \in {"none", tracker'[j]} \/ Placed(j)'
      BY <1>8, <3>3 DEF PersistEnd, RunStep, Goto, Persist
    <3> QED
      BY <3>1, <3>2, <3>3
  <2>5. Present'
    BY <1>8 DEF PersistEnd, RunStep, Goto, Persist
  <2> QED
    BY <2>1, <2>2, <2>3, <2>4, <2>5
<1> QED
  BY <1>1, <1>2, <1>3, <1>4, <1>5, <1>6, <1>7, <1>8 DEF RunNext

LEMMA RecordSweep ==
  ASSUME IInv, JInv, NEW w \in Worker, wpc[w] \in {"take", "resweep"},
         NEW L \in SUBSET Entry, SweepOne(w, L)
  PROVE  Recorded' /\ Present'
<1> USE PipelineAssumption
    DEF IInv, Typed, TypeOK, CarriersTyped, CarrierC, CarrierW, SubmitPc, WithdrawPc, RunPc,
        Entry, poolVars, queueVars, schedVars, dbVars, clientVars, JInv, Recorded, Present
<1>1. PICK e \in queue :
        /\ queue' = queue \ {e}
        /\ tracker' = [tracker EXCEPT ![e.job] = "Cancelled"]
        /\ wjob' = [wjob EXCEPT ![w] = e.job]
  <2>1. PICK f \in L :
          /\ RemoveFirst(f.job) /\ UpdateState(f.job, "Cancelled")
          /\ wjob' = [wjob EXCEPT ![w] = f.job]
    BY DEF SweepOne
  <2>2. PICK e \in queue : e.job = f.job /\ queue' = queue \ {e}
    BY <2>1 DEF RemoveFirst, EntriesOf
  <2>3. tracker[f.job] # "unknown"
    BY <2>2 DEF ClientStages
  <2> QED
    BY <2>1, <2>2, <2>3 DEF UpdateState
<1>2. /\ wpc' = [wpc EXCEPT ![w] = "sweepPersist"]
      /\ UNCHANGED <<submitted, dbVars, clientVars>>
  BY DEF SweepOne, Goto
<1>3. NewRecorded' /\ NoneRecorded' /\ QueueRecorded' /\ ClientRecorded' /\ Present'
  BY <1>1, <1>2 DEF NewRecorded, NoneRecorded, QueueRecorded, ClientRecorded, ClientStages
<1>4. WorkerRecorded'
  BY <1>1, <1>2 DEF WorkerRecorded, QueueRecorded
<1>5. SettledRecorded'
  BY <1>1, <1>2 DEF SettledRecorded, Placed
<1> QED
  BY <1>3, <1>4, <1>5

LEMMA RecordPop ==
  ASSUME IInv, JInv, NEW w \in Worker, wpc[w] \in {"take", "resweep"},
         NEW L \in SUBSET Entry, PopReady(w, L)
  PROVE  Recorded' /\ Present'
<1> USE PipelineAssumption
    DEF IInv, Typed, TypeOK, CarriersTyped, CarrierC, CarrierW, SubmitPc, WithdrawPc, RunPc,
        Entry, poolVars, queueVars, schedVars, dbVars, clientVars, JInv, Recorded, Present
<1>1. UNCHANGED <<tracker, submitted, dbVars, clientVars>>
  BY DEF PopReady
<1>2. CASE UNCHANGED <<queue, wjob>> /\ (Goto(w, "exited") \/ Goto(w, "idle"))
  BY <1>1, <1>2 DEF Goto, NewRecorded, NoneRecorded, QueueRecorded, ClientRecorded,
                    WorkerRecorded, SettledRecorded, Placed
<1>3. ASSUME NEW e \in queue, queue' = queue \ {e},
             wjob' = [wjob EXCEPT ![w] = e.job], Goto(w, "begin")
      PROVE  Recorded' /\ Present'
  <2>1. NewRecorded' /\ NoneRecorded' /\ QueueRecorded' /\ ClientRecorded' /\ Present'
    BY <1>1, <1>3 DEF Goto, NewRecorded, NoneRecorded, QueueRecorded, ClientRecorded
  <2>2. WorkerRecorded'
    BY <1>1, <1>3 DEF Goto, WorkerRecorded, QueueRecorded
  <2>3. SettledRecorded'
    BY <1>1, <1>3 DEF Goto, SettledRecorded, Placed
  <2> QED
    BY <2>1, <2>2, <2>3
<1>4. \/ UNCHANGED <<queue, wjob>> /\ (Goto(w, "exited") \/ Goto(w, "idle"))
      \/ \E e \in queue : /\ queue' = queue \ {e}
                          /\ wjob' = [wjob EXCEPT ![w] = e.job] /\ Goto(w, "begin")
  BY DEF PopReady
<1> QED
  BY <1>2, <1>3, <1>4
-----------------------------------------------------------------------------
(* Cancellations. *)

LEMMA JustifiedSubmit ==
  ASSUME IInv, JInv, NEW c \in Client, SubmitCheck(c) \/ SubmitNext(c)
  PROVE  Justified'
<1> USE PipelineAssumption
    DEF IInv, Typed, TypeOK, CarriersTyped, CarrierC, CarrierW, SubmitPc, WithdrawPc, RunPc,
        poolVars, queueVars, schedVars, dbVars, workerVars, clientVars,
        JInv, Justified, CancellationJustified, Terminal
<1>1. CASE SubmitCheck(c)
  BY <1>1, SMTT(30) DEF SubmitCheck, Fresh, ClientStages
<1>2. CASE Register(c)
  BY <1>2, SMTT(30) DEF Register, SubmitStep, ClientStages
<1>3. CASE Track(c)
  BY <1>3, SMTT(30) DEF Track, SubmitStep, ClientStages
<1>4. CASE Describe(c)
  BY <1>4, SMTT(30) DEF Describe, SubmitStep, ClientStages
<1>5. CASE PersistNew(c)
  BY <1>5, SMTT(30) DEF PersistNew, SubmitStep, Persist, ClientStages
<1>6. CASE Push(c)
  BY <1>6, SMTT(30) DEF Push, SubmitStep, ClientStages
<1> QED
  BY <1>1, <1>2, <1>3, <1>4, <1>5, <1>6 DEF SubmitNext

LEMMA JustifiedCancel ==
  ASSUME IInv, JInv, NEW c \in Client, CancelCheck(c) \/ CancelNext(c)
  PROVE  Justified'
<1> USE PipelineAssumption
    DEF IInv, Typed, TypeOK, CarriersTyped, CarrierC, CarrierW, SubmitPc, WithdrawPc, RunPc,
        poolVars, queueVars, schedVars, dbVars, workerVars, clientVars,
        JInv, Justified, CancellationJustified, Terminal
<1>1. CASE CancelCheck(c)
  BY <1>1, SMTT(30) DEF CancelCheck, ClientStages, TokenReachesItsJob
<1>2. CASE Dequeue(c)
  BY <1>2, SMTT(30) DEF Dequeue, CancelStep, RemoveFirst, JobsOf, EntriesOf, ClientStages,
     TokenReachesItsJob
<1>3. CASE NotQueued(c)
  BY <1>3, SMTT(30) DEF NotQueued, CancelStep, ClientStages, TokenReachesItsJob
<1>4. CASE CancelTrack(c)
  BY <1>4, SMTT(30) DEF CancelTrack, CancelStep, UpdateState, ClientStages, TokenReachesItsJob
<1>5. CASE CancelMark(c)
  BY <1>5, SMTT(30) DEF CancelMark, CancelStep, MarkDead, ClientStages, TokenReachesItsJob
<1>6. CASE CancelPersist(c)
  BY <1>6, SMTT(30) DEF CancelPersist, CancelStep, Persist, ClientStages, TokenReachesItsJob
<1>7. CASE Flip(c)
  BY <1>7, SMTT(30) DEF Flip, CancelStep, ClientStages, TokenReachesItsJob
<1> QED
  BY <1>1, <1>2, <1>3, <1>4, <1>5, <1>6, <1>7 DEF CancelNext

LEMMA JustifiedHandle ==
  ASSUME IInv, JInv, NEW c \in Client, Start(c) \/ Stop(c) \/ Joined(c) \/ AttachDb(c)
  PROVE  Justified'
<1> USE PipelineAssumption
    DEF IInv, Typed, TypeOK, CarriersTyped, CarrierC, CarrierW, SubmitPc, WithdrawPc, RunPc,
        poolVars, queueVars, schedVars, dbVars, workerVars, clientVars,
        JInv, Justified, CancellationJustified, Terminal
<1>1. CASE Start(c)
  BY <1>1, SMTT(30) DEF Start
<1>2. CASE Stop(c)
  BY <1>2, SMTT(30) DEF Stop
<1>3. CASE Joined(c)
  BY <1>3, SMTT(30) DEF Joined
<1>4. CASE AttachDb(c)
  BY <1>4, SMTT(30) DEF AttachDb
<1> QED
  BY <1>1, <1>2, <1>3, <1>4

LEMMA JustifiedLoop ==
  ASSUME IInv, JInv, NEW w \in Worker, LoopTest(w) \/ SweepPersist(w) \/ Idle(w)
  PROVE  Justified'
<1> USE PipelineAssumption
    DEF IInv, Typed, TypeOK, CarriersTyped, CarrierC, CarrierW, SubmitPc, WithdrawPc, RunPc,
        poolVars, queueVars, schedVars, dbVars, workerVars, clientVars,
        JInv, Justified, CancellationJustified, Terminal
<1>1. CASE LoopTest(w)
  BY <1>1, SMTT(30) DEF LoopTest, Goto
<1>2. CASE SweepPersist(w)
  BY <1>2, SMTT(30) DEF SweepPersist, Goto, Persist
<1>3. CASE Idle(w)
  BY <1>3, SMTT(30) DEF Idle, Goto
<1> QED
  BY <1>1, <1>2, <1>3

LEMMA JustifiedRun ==
  ASSUME IInv, JInv, NEW w \in Worker, RunNext(w)
  PROVE  Justified'
<1> USE PipelineAssumption
    DEF IInv, Typed, TypeOK, CarriersTyped, CarrierC, CarrierW, SubmitPc, WithdrawPc, RunPc,
        poolVars, queueVars, schedVars, dbVars, workerVars, clientVars,
        JInv, Justified, CancellationJustified, Terminal
<1>1. CASE Begin(w)
  BY <1>1, SMTT(30) DEF Begin, RunStep, Goto, UpdateState, WorkerStages
<1>2. CASE PersistRun(w)
  BY <1>2, SMTT(30) DEF PersistRun, RunStep, Goto, Persist, WorkerStages
<1>3. CASE Enroll(w)
  BY <1>3, SMTT(30) DEF Enroll, RunStep, Goto, WorkerStages
<1>4. CASE Execute(w)
  BY <1>4, SMTT(30) DEF Execute, RunStep, Goto, WorkerStages
<1>5. CASE Leave(w)
  BY <1>5, SMTT(30) DEF Leave, RunStep, Goto, WorkerStages
<1>6. CASE Settle(w)
  BY <1>6, SMTT(30) DEF Settle, RunStep, Goto, UpdateState, WorkerStages
<1>7. CASE Mark(w)
  BY <1>7, SMTT(30) DEF Mark, RunStep, Goto, MarkCompleted, MarkDead, WorkerStages
<1>8. CASE PersistEnd(w)
  BY <1>8, SMTT(30) DEF PersistEnd, RunStep, Goto, Persist, WorkerStages
<1> QED
  BY <1>1, <1>2, <1>3, <1>4, <1>5, <1>6, <1>7, <1>8 DEF RunNext

LEMMA JustifiedTake ==
  ASSUME IInv, JInv, NEW w \in Worker, wpc[w] \in {"take", "resweep"},
         NEW L \in SUBSET Entry, SweepOne(w, L) \/ PopReady(w, L),
         \A e \in L : tracker[e.job] # "unknown" /\ deps[e.job] \cap dead # {}
  PROVE  Justified'
<1> USE PipelineAssumption
    DEF IInv, Typed, TypeOK, CarriersTyped, RunPc, Entry, poolVars, queueVars, schedVars,
        dbVars, clientVars, JInv, Justified, CancellationJustified
<1>1. CASE SweepOne(w, L)
  <2>1. PICK e \in L :
          /\ tracker' = [tracker EXCEPT ![e.job] = "Cancelled"]
          /\ dead' = dead \cup {e.job}
          /\ todo' = [todo EXCEPT ![w] = {f \in L : Before(e, f)}]
    BY <1>1 DEF SweepOne, UpdateState, MarkDead
  <2>2. /\ wpc' = [wpc EXCEPT ![w] = "sweepPersist"]
        /\ \A v \in Worker \ {w} : wjob'[v] = wjob[v]
        /\ UNCHANGED <<deps, token, outcome, clientVars>>
    BY <1>1 DEF SweepOne, MarkDead, Goto
  <2> QED
    BY <2>1, <2>2
<1>2. CASE PopReady(w, L)
  <2>1. UNCHANGED <<tracker, schedVars, token, outcome, clientVars>>
    BY <1>2 DEF PopReady
  <2>2. todo' = [todo EXCEPT ![w] = {}]
    BY <1>2 DEF PopReady
  <2>3. \E pc \in {"exited", "begin", "idle"} : Goto(w, pc)
    BY <1>2 DEF PopReady
  <2>4. wjob' = wjob \/ \E e \in queue : wjob' = [wjob EXCEPT ![w] = e.job]
    BY <1>2 DEF PopReady
  <2> QED
    BY <2>1, <2>2, <2>3, <2>4 DEF Goto
<1> QED
  BY <1>1, <1>2

LEMMA JInvStep == IJInv /\ [Next]_vars => JInv'
<1> SUFFICES ASSUME IInv, JInv, [Next]_vars PROVE JInv'
  BY DEF IJInv
<1>1. ASSUME NEW c \in Client, ClientNext(c) PROVE JInv'
  BY <1>1, TokenClient, RecordSubmit, RecordCancel, RecordHandle, JustifiedSubmit,
     JustifiedCancel, JustifiedHandle DEF ClientNext, CallNext, JInv
<1>2. ASSUME NEW w \in Worker, WorkerNext(w) PROVE JInv'
  <2>1. TokenReachesItsJob'
    BY <1>2, TokenWorker
  <2>2. CASE Take(w)
    <3>1. /\ BlockedEntries \in SUBSET Entry
          /\ \A e \in BlockedEntries : tracker[e.job] # "unknown" /\ deps[e.job] \cap dead # {}
      BY DEF BlockedEntries, BlockedForever, IInv, Typed, TypeOK, ClientStages
    <3> QED
      BY <2>1, <2>2, <3>1, RecordSweep, RecordPop, JustifiedTake DEF Take, JInv
  <2>3. CASE Resweep(w)
    <3>1. /\ todo[w] \in SUBSET Entry
          /\ \A e \in todo[w] : tracker[e.job] # "unknown" /\ deps[e.job] \cap dead # {}
      BY DEF IInv, Typed, TypeOK, JInv, Justified
    <3> QED
      BY <2>1, <2>3, <3>1, RecordSweep, RecordPop, JustifiedTake DEF Resweep, JInv
  <2>4. CASE RunNext(w)
    BY <2>1, <2>4, RecordRun, JustifiedRun DEF JInv
  <2>5. CASE LoopTest(w) \/ SweepPersist(w) \/ Idle(w)
    BY <2>1, <2>5, RecordLoop, JustifiedLoop DEF JInv
  <2> QED
    BY <1>2, <2>2, <2>3, <2>4, <2>5 DEF WorkerNext
<1>3. CASE UNCHANGED vars
  <2> USE <1>3 DEF vars, poolVars, queueVars, schedVars, dbVars, workerVars, clientVars, JInv
  <2>1. TokenReachesItsJob' /\ Justified'
    BY DEF TokenReachesItsJob, Justified, CancellationJustified
  <2>2. Recorded' /\ Present'
    BY DEF Recorded, Present, NewRecorded, NoneRecorded, QueueRecorded, ClientRecorded,
           WorkerRecorded, SettledRecorded, Placed, CarrierC, CarrierW
  <2> QED
    BY <2>1, <2>2
<1> QED
  BY <1>1, <1>2, <1>3 DEF Next

LEMMA IJInvAlways == Spec => []IJInv
<1>1. Init => IJInv
  BY IInvInit, JInvInit DEF IJInv
<1>2. IJInv /\ [Next]_vars => IJInv'
  BY IInvStep, JInvStep DEF IJInv
<1> QED
  BY <1>1, <1>2, PTL DEF Spec
-----------------------------------------------------------------------------
(* The running map leads cancel to the run of the job and to no other run. *)
THEOREM TokenCorrect == Spec => []TokenReachesItsJob
<1>1. IJInv => TokenReachesItsJob
  BY DEF IJInv, JInv
<1> QED
  BY <1>1, IJInvAlways, PTL

(* Nothing is cancelled but on request or for a dead dependency. *)
THEOREM CancellationCorrect == Spec => []CancellationJustified
<1>1. IJInv => CancellationJustified
  BY DEF IJInv, JInv, Justified
<1> QED
  BY <1>1, IJInvAlways, PTL

(* Whatever the interleaving, a crash finds an unfinished record of every
   unfinished job that has been queued, and no record shows an outcome that
   its job does not have. *)
THEOREM RecordsCorrect == Spec => []UnfinishedRecorded
<1>1. IJInv => UnfinishedRecorded
  <2> SUFFICES ASSUME IJInv, dbSlot = "built", NEW j \in Job
               PROVE  /\ tracker[j] \in {"Pending", "Running"}
                           /\ ~(\E c \in Client : cjob[c] = j /\ cpc[c] \in SubmitPc)
                         => db[j] \in {"Pending", "Running"}
                      /\ db[j] \in Terminal => db[j] = tracker[j]
    BY DEF UnfinishedRecorded
  <2> USE DEF IJInv, JInv, Recorded, Terminal, CarrierC, CarrierW, SubmitPc, WithdrawPc,
              RunPc
  <2>1. ASSUME tracker[j] \in {"Pending", "Running"},
               ~(\E c \in Client : cjob[c] = j /\ cpc[c] \in SubmitPc)
        PROVE  db[j] \in {"Pending", "Running"}
    <3>1. Placed(j)
      BY <2>1 DEF IInv, NotLost, Verdicts
    <3>2. db[j] \in {"none", "Pending", "Running"}
      BY <2>1, <3>1 DEF Placed, QueueRecorded, ClientRecorded, WorkerRecorded
    <3>3. db[j] # "none"
      BY <2>1, <3>1 DEF Placed, Present
    <3> QED
      BY <3>2, <3>3
  <2>2. ASSUME db[j] \in Terminal PROVE db[j] = tracker[j]
    <3>1. ~Placed(j)
      BY <2>2 DEF Placed, NewRecorded, QueueRecorded, ClientRecorded, WorkerRecorded,
                  IInv, ClientStages
    <3> QED
      BY <2>2, <3>1 DEF SettledRecorded
  <2> QED
    BY <2>1, <2>2
<1> QED
  BY <1>1, IJInvAlways, PTL

(* What stop leaves behind is queued and recorded as Pending. *)
THEOREM StopCorrect == Spec => []StopLeavesJobsQueued
<1>1. IJInv => StopLeavesJobsQueued
  <2> SUFFICES ASSUME IJInv, \A w \in Worker : wpc[w] = "exited", NEW j \in Job
               PROVE  /\ tracker[j] # "Running"
                      /\ tracker[j] = "Pending" /\ Carriers(j) = {}
                           => EntriesOf(queue, j) # {} /\ (dbSlot = "built" => db[j] = "Pending")
    BY DEF StopLeavesJobsQueued
  <2> USE DEF IJInv, JInv, IInv, CarrierC, CarrierW, SubmitPc, WithdrawPc, RunPc
  <2>1. tracker[j] \in {"Pending", "Running"} => Placed(j)
    BY DEF NotLost, Verdicts
  <2>2. tracker[j] # "Running"
    BY <2>1 DEF Placed, ClientStages
  <2>3. ASSUME tracker[j] = "Pending", Carriers(j) = {}
        PROVE  \E e \in queue : e.job = j
    BY <2>1, <2>3 DEF Placed, Carriers
  <2>4. ASSUME tracker[j] = "Pending", Carriers(j) = {}, dbSlot = "built"
        PROVE  db[j] = "Pending"
    BY <2>3, <2>4 DEF Recorded, QueueRecorded, Present
  <2> QED
    BY <2>2, <2>3, <2>4 DEF EntriesOf
<1> QED
  BY <1>1, IJInvAlways, PTL

(* No step of any thread takes a record back. *)
THEOREM RecordsForward == Spec => RecordsMoveForward
<1>1. IJInv /\ [Next]_vars => [\A j \in Job : Follows(db[j], db'[j])]_vars
  <2> SUFFICES ASSUME IJInv, Next PROVE \A j \in Job : Follows(db[j], db'[j])
    OBVIOUS
  <2> USE DEF Follows, IJInv, IInv, JInv, Typed, TypeOK, CarriersTyped, Recorded, dbVars,
              CarrierC, CarrierW, SubmitPc, WithdrawPc, RunPc, Terminal
  <2>1. ASSUME NEW c \in Client, ClientNext(c)
        PROVE  \A j \in Job : Follows(db[j], db'[j])
    <3>1. CASE PersistNew(c)
      BY <3>1 DEF PersistNew, SubmitStep, Persist, ClientRecorded
    <3>2. CASE CancelPersist(c)
      BY <3>2 DEF CancelPersist, CancelStep, Persist, ClientRecorded
    <3>3. CASE UNCHANGED db
      BY <3>3
    <3>4. PersistNew(c) \/ CancelPersist(c) \/ UNCHANGED db
      BY <2>1 DEF ClientNext, CallNext, SubmitNext, CancelNext, SubmitCheck, Register, Track,
                  Describe, Push, CancelCheck, Dequeue, NotQueued, CancelTrack, CancelMark,
                  Flip, Start, Stop, Joined, AttachDb
    <3> QED
      BY <3>1, <3>2, <3>3, <3>4
  <2>2. ASSUME NEW w \in Worker, WorkerNext(w)
        PROVE  \A j \in Job : Follows(db[j], db'[j])
    <3>1. CASE PersistRun(w)
      BY <3>1 DEF PersistRun, RunStep, Persist, WorkerRecorded
    <3>2. CASE PersistEnd(w)
      BY <3>2 DEF PersistEnd, RunStep, Persist, WorkerRecorded
    <3>3. CASE SweepPersist(w)
      BY <3>3 DEF SweepPersist, Persist, WorkerRecorded
    <3>4. CASE UNCHANGED db
      BY <3>4
    <3>5. PersistRun(w) \/ PersistEnd(w) \/ SweepPersist(w) \/ UNCHANGED db
      BY <2>2 DEF WorkerNext, RunNext, LoopTest, Take, Resweep, SweepOne, PopReady, Idle,
                  Begin, Enroll, Execute, Leave, Settle, Mark
    <3> QED
      BY <3>1, <3>2, <3>3, <3>4, <3>5
  <2> QED
    BY <2>1, <2>2 DEF Next
<1> QED
  BY <1>1, IJInvAlways, PTL DEF Spec, RecordsMoveForward
-----------------------------------------------------------------------------
(* The pipeline implements JobLifecycle: every step but six leaves the     *)
(* lifecycle of all jobs alone.  Track accepts a job, Begin starts it,     *)
(* Settle finishes it, CancelTrack and the sweep of Take and Resweep       *)
(* withdraw it.                                                            *)


\* The state and the needs of a job as the lifecycle sees them.
Needs == [j \in Job |-> IF tracker[j] = "unknown" THEN {} ELSE deps[j]]

\* No two workers run the same job, so the running jobs other than the one a
\* worker is about to start are at most one for each other worker.
LEMMA FreeWorker ==
  ASSUME IInv, NEW w \in Worker, wpc[w] = "begin"
  PROVE  Cardinality({j \in Job : tracker[j] = "Running"}) < Cardinality(Worker)
<1> DEFINE Rest == Worker \ {w}
           Carried == {wjob[v] : v \in Rest}
           Running == {j \in Job : tracker[j] = "Running"}
<1>1. Running \subseteq Carried
  <2> SUFFICES ASSUME NEW j \in Job, tracker[j] = "Running"
               PROVE  \E v \in Rest : wjob[v] = j
    OBVIOUS
  <2>1. Placed(j)
    BY DEF IInv, NotLost, Verdicts
  <2>2. ~ \E e \in queue : e.job = j
    BY DEF IInv, ClientStages
  <2>3. ~ \E c \in Client : CarrierC(c) /\ cjob[c] = j
    BY DEF IInv, ClientStages, CarrierC, SubmitPc, WithdrawPc
  <2>4. wjob[w] # j
    BY DEF IInv, WorkerStages
  <2> QED
    BY <2>1, <2>2, <2>3, <2>4 DEF Placed
<1>2. IsFiniteSet(Rest) /\ Cardinality(Rest) = Cardinality(Worker) - 1
  BY FS_RemoveElement, WorkersAssumption
<1>3. [v \in Rest |-> wjob[v]] \in Surjection(Rest, Carried)
  BY DEF Surjection
<1>4. IsFiniteSet(Carried) /\ Cardinality(Carried) <= Cardinality(Rest)
  BY <1>2, <1>3, FS_Surjection
<1>5. Cardinality(Running) <= Cardinality(Carried)
  BY <1>1, <1>4, FS_Subset
<1>6. /\ Cardinality(Running) \in Nat /\ Cardinality(Carried) \in Nat
      /\ Cardinality(Worker) \in Nat
  BY <1>1, <1>4, FS_Subset, FS_CardinalityType, WorkersAssumption
<1> QED
  BY <1>2, <1>4, <1>5, <1>6
-----------------------------------------------------------------------------
(* What the steps of the pipeline do to the lifecycle.  The step of each
   action is named by the tracker and the needs before and after it.       *)

\* A step that writes neither the tracker nor the dependencies of a tracked
\* job is no step of the lifecycle.
LEMMA Stutter ==
  ASSUME Typed, Typed', UNCHANGED tracker,
         \A j \in Job : tracker[j] = "unknown" \/ deps'[j] = deps[j]
  PROVE  UNCHANGED <<tracker, Needs>>
  BY DEF Needs

\* A queued or carried job that goes from Pending to Cancelled is withdrawn.
LEMMA WithdrawStep ==
  ASSUME Typed, Typed', UNCHANGED deps, NEW j \in Job, tracker[j] = "Pending",
         tracker' = [tracker EXCEPT ![j] = "Cancelled"]
  PROVE  Lifecycle!Withdraw(j)
<1>1. \A k \in Job : Needs'[k] = Needs[k]
  BY DEF Needs, Typed, TypeOK
<1> QED
  BY <1>1 DEF Needs, Lifecycle!Withdraw

LEMMA TrackStep ==
  ASSUME IInv, NEW c \in Client, Track(c)
  PROVE  Lifecycle!Next
<1>1. /\ cjob[c] \in Job /\ tracker[cjob[c]] = "unknown"
      /\ tracker' = [tracker EXCEPT ![cjob[c]] = "Pending"]
      /\ UNCHANGED deps /\ deps[cjob[c]] \in SUBSET Job
  BY DEF Track, SubmitStep, schedVars, IInv, Typed, TypeOK, CarriersTyped, ClientStages
<1>2. Needs' = [Needs EXCEPT ![cjob[c]] = deps[cjob[c]]]
  BY <1>1 DEF Needs, IInv, Typed, TypeOK
<1> QED
  BY <1>1, <1>2 DEF Needs, Lifecycle!Accept, Lifecycle!Next

LEMMA BeginStep ==
  ASSUME IInv, NEW w \in Worker, Begin(w)
  PROVE  Lifecycle!Next
<1>1. /\ wjob[w] \in Job /\ wpc[w] = "begin" /\ tracker[wjob[w]] = "Pending"
      /\ tracker' = [tracker EXCEPT ![wjob[w]] = "Running"]
      /\ UNCHANGED deps
  BY DEF Begin, RunStep, UpdateState, schedVars, IInv, Typed, CarriersTyped, RunPc,
         WorkerStages
<1>2. \A d \in deps[wjob[w]] : tracker[d] = "Completed"
  BY <1>1 DEF IInv, Verdicts, RunPc
<1>3. Cardinality(Lifecycle!RunningJobs) < Cardinality(Worker)
  BY <1>1, FreeWorker DEF Lifecycle!RunningJobs
<1>4. Lifecycle!Cardinality(Lifecycle!RunningJobs) = Cardinality(Lifecycle!RunningJobs)
  BY DEF Lifecycle!Cardinality, Cardinality
<1> QED
  BY <1>1, <1>2, <1>3, <1>4 DEF Lifecycle!Start, Lifecycle!Next, JobState, IInv, Typed, TypeOK

LEMMA SettleStep ==
  ASSUME IInv, NEW w \in Worker, Settle(w)
  PROVE  Lifecycle!Next
<1>1. /\ wjob[w] \in Job /\ tracker[wjob[w]] = "Running" /\ outcome[w] \in Terminal
      /\ tracker' = [tracker EXCEPT ![wjob[w]] = outcome[w]]
      /\ UNCHANGED deps
  BY DEF Settle, RunStep, UpdateState, schedVars, IInv, Typed, CarriersTyped, RunPc,
         WorkerStages
<1> QED
  BY <1>1 DEF Lifecycle!Next, Lifecycle!Finish, Lifecycle!Outcome, Terminal, IInv, Typed, TypeOK

\* A sweep withdraws a queued job; a pop leaves the lifecycle alone.
LEMMA TakeStep ==
  ASSUME IInv, NEW w \in Worker, NEW L \in SUBSET Entry
  PROVE  /\ SweepOne(w, L) => UNCHANGED deps /\ \E j \in Job : /\ tracker[j] = "Pending"
                                        /\ tracker' = [tracker EXCEPT ![j] = "Cancelled"]
         /\ PopReady(w, L) => UNCHANGED <<tracker, deps>>
<1>1. ASSUME SweepOne(w, L)
      PROVE  UNCHANGED deps /\ \E j \in Job : /\ tracker[j] = "Pending"
                                              /\ tracker' = [tracker EXCEPT ![j] = "Cancelled"]
  <2>1. PICK e \in L : RemoveFirst(e.job) /\ UpdateState(e.job, "Cancelled") /\ MarkDead(e.job)
    BY <1>1 DEF SweepOne
  <2>2. e.job \in Job /\ tracker[e.job] = "Pending"
    BY <2>1 DEF RemoveFirst, EntriesOf, IInv, ClientStages, Entry
  <2> QED
    BY <2>1, <2>2 DEF UpdateState, MarkDead
<1>2. PopReady(w, L) => UNCHANGED <<tracker, deps>>
  BY DEF PopReady, schedVars
<1> QED
  BY <1>1, <1>2

LEMMA ClientRefines ==
  ASSUME IInv, IInv', NEW c \in Client, ClientNext(c)
  PROVE  Lifecycle!Next \/ UNCHANGED <<tracker, Needs>>
<1> USE DEF IInv
<1>1. CASE Track(c)
  BY <1>1, TrackStep
<1>2. CASE CancelTrack(c)
  <2>1. /\ cjob[c] \in Job /\ tracker[cjob[c]] = "Pending" /\ UNCHANGED deps
        /\ tracker' = [tracker EXCEPT ![cjob[c]] = "Cancelled"]
    BY <1>2 DEF CancelTrack, CancelStep, UpdateState, schedVars, ClientStages, Typed,
                CarriersTyped
  <2> QED
    BY <2>1, WithdrawStep DEF Lifecycle!Next
<1>3. CASE Register(c)
  <2>1. /\ tracker[cjob[c]] = "unknown" /\ UNCHANGED tracker
        /\ \A j \in Job \ {cjob[c]} : deps'[j] = deps[j]
    BY <1>3 DEF Register, SubmitStep, ClientStages, Typed, TypeOK
  <2> QED
    BY <2>1, Stutter
<1>4. CASE UNCHANGED <<tracker, deps>>
  BY <1>4, Stutter
<1>5. Track(c) \/ CancelTrack(c) \/ Register(c) \/ UNCHANGED <<tracker, deps>>
  BY DEF ClientNext, CallNext, SubmitNext, CancelNext, SubmitCheck, Describe, PersistNew,
         Push, CancelCheck, Dequeue, NotQueued, CancelMark, MarkDead, CancelPersist, Flip,
         Start, Stop, Joined, AttachDb, schedVars
<1> QED
  BY <1>1, <1>2, <1>3, <1>4, <1>5

LEMMA WorkerRefines ==
  ASSUME IInv, IInv', NEW w \in Worker, WorkerNext(w)
  PROVE  Lifecycle!Next \/ UNCHANGED <<tracker, Needs>>
<1> USE DEF IInv
<1>1. CASE Begin(w)
  BY <1>1, BeginStep
<1>2. CASE Settle(w)
  BY <1>2, SettleStep
<1>3. ASSUME NEW L \in SUBSET Entry, SweepOne(w, L) \/ PopReady(w, L)
      PROVE  Lifecycle!Next \/ UNCHANGED <<tracker, Needs>>
  BY <1>3, TakeStep, WithdrawStep, Stutter DEF Lifecycle!Next
<1>4. CASE Take(w) \/ Resweep(w)
  <2>1. BlockedEntries \in SUBSET Entry /\ todo[w] \in SUBSET Entry
    BY DEF BlockedEntries, Typed, TypeOK
  <2> QED
    BY <1>3, <1>4, <2>1 DEF Take, Resweep
<1>5. CASE UNCHANGED <<tracker, deps>>
  BY <1>5, Stutter
<1>6. \/ Begin(w) \/ Settle(w) \/ Take(w) \/ Resweep(w)
      \/ UNCHANGED <<tracker, deps>>
  BY DEF WorkerNext, RunNext, LoopTest, SweepPersist, Idle, PersistRun, Enroll, Execute,
         Leave, Mark, MarkCompleted, MarkDead, PersistEnd, schedVars
<1> QED
  BY <1>1, <1>2, <1>4, <1>5, <1>6

(* The pipeline implements JobLifecycle: outcomes are final, a job starts
   only after all it needs has completed, and never more jobs run than there
   are workers. *)
THEOREM RefinementCorrect == Spec => RefinesLifecycle
<1>1. Init => Lifecycle!Init
  BY DEF Init, Lifecycle!Init
<1>2. IInv /\ IInv' /\ [Next]_vars => [Lifecycle!Next]_(Lifecycle!lifecycleVars)
  <2> SUFFICES ASSUME IInv, IInv', [Next]_vars
               PROVE  Lifecycle!Next \/ UNCHANGED <<tracker, Needs>>
    BY DEF Lifecycle!lifecycleVars, Needs
  <2>1. CASE Next
    BY <2>1, ClientRefines, WorkerRefines DEF Next
  <2>2. CASE UNCHANGED vars
    BY <2>2 DEF vars, schedVars, Needs
  <2> QED
    BY <2>1, <2>2
<1> QED
  BY <1>1, <1>2, IInvAlways, PTL DEF Spec, RefinesLifecycle, Lifecycle!Spec
=============================================================================
