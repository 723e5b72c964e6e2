------------------------------ MODULE Pipeline ------------------------------
(***************************************************************************)
(* The processing pipeline of tpt-av-asset-pipeline: client threads that   *)
(* submit and cancel jobs, one of which starts and stops the pool, and the *)
(* worker threads that sweep, dispatch and run the jobs.                   *)
(*                                                                         *)
(* A step of a thread is one critical section of the code, or one atomic   *)
(* operation: everything between two acquisitions of a mutex of Shared     *)
(* runs unobserved.  The pcs name the section a thread is about to enter.  *)
(*                                                                         *)
(* A definition named X_Y is a mutation of X, not part of the model: X as  *)
(* it would read with a bug, to show that a property can fail.             *)
(***************************************************************************)
EXTENDS QueueEntries, FiniteSets

CONSTANTS
  Worker,       \* the worker threads of the pool
  Client,       \* the threads that hold a handle
  Owner,        \* the client that holds the &mut handle of start and stop
  DepChoices,   \* DepChoices[j]: the dependency lists a caller may give j
  DbAtStart,    \* how a pipeline may be built: "none" by new, "built" by with_db
  NoJob, NoWorker

ASSUME PipelineAssumption ==
  /\ Owner \in Client
  /\ Worker \cap Client = {}
  /\ DepChoices \in [Job -> SUBSET SUBSET Job]
  /\ DbAtStart \subseteq {"none", "built"}
  /\ NoJob \notin Job
  /\ NoWorker \notin Worker

ASSUME WorkersAssumption == IsFiniteSet(Worker)

VARIABLES
  shutdown,     \* Shared.shutdown
  started,      \* ProcessingPipeline.started
  queue,        \* Shared.queue, as the set of its entries
  nextSeq,      \* JobQueue.next_seq
  deps,         \* Scheduler.deps; {} for a job without an entry, which is_ready
                \* and is_blocked_forever treat alike
  completed,    \* Scheduler.completed
  dead,         \* Scheduler.dead
  tracker,      \* the state of each job in the ProgressTracker
  submitted,    \* the keys of Shared.submitted
  running,      \* Shared.running: the worker whose reporter is enrolled
  dbSlot,       \* Shared.db: "none", or a database there since with_db ("built")
                \* or since attach_db ("attached")
  db,           \* the state in each job's record in the database
  wpc,          \* wpc[w]: the section worker w is about to enter
  wjob,         \* wjob[w]: the job worker w runs or has just swept
  todo,         \* todo[w]: the rest of w's list of blocked entries
  token,        \* token[w]: the cancellation token of the reporter of w's run
  outcome,      \* outcome[w]: the terminal state of the run w finishes
  cpc,          \* cpc[c]: the section client c is about to enter
  cjob,         \* cjob[c]: the job of c's call
  asked         \* history: the jobs some cancel call has named

schedVars  == <<deps, completed, dead>>
queueVars  == <<queue, nextSeq>>
dbVars     == <<dbSlot, db>>
workerVars == <<wpc, wjob, todo, token, outcome>>
clientVars == <<cpc, cjob, asked>>
poolVars   == <<shutdown, started>>
vars == <<poolVars, queueVars, schedVars, tracker, submitted, running, dbVars,
          workerVars, clientVars>>

Terminal == {"Completed", "Failed", "Cancelled"}

JobState == {"Pending", "Running"} \cup Terminal

SubmitPc == {"register", "track", "describe", "persistNew", "push"}

\* A client past Dequeue has taken the job out of the queue.
WithdrawPc == {"cancelTrack", "cancelMark", "cancelPersist"}

ClientPc == {"ready", "dequeue", "flip", "join"} \cup SubmitPc \cup WithdrawPc

RunPc == {"begin", "persistRun", "enroll", "execute", "leave", "settle", "mark",
          "persistEnd"}

WorkerPc == {"off", "loop", "take", "sweepPersist", "resweep", "idle", "exited"}
              \cup RunPc

Init ==
  /\ shutdown = FALSE /\ started = FALSE
  /\ queue = {} /\ nextSeq = 0
  /\ deps = [j \in Job |-> {}] /\ completed = {} /\ dead = {}
  /\ tracker = [j \in Job |-> "unknown"]
  /\ submitted = {}
  /\ running = [j \in Job |-> NoWorker]
  /\ dbSlot \in DbAtStart /\ db = [j \in Job |-> "none"]
  /\ wpc = [w \in Worker |-> "off"]
  /\ wjob = [w \in Worker |-> NoJob]
  /\ todo = [w \in Worker |-> {}]
  /\ token = [w \in Worker |-> FALSE]
  /\ outcome = [w \in Worker |-> "none"]
  /\ cpc = [c \in Client |-> "ready"]
  /\ cjob = [c \in Client |-> NoJob]
  /\ asked = {}
-----------------------------------------------------------------------------
(* The operations on the shared structures. *)

Ready_UnlessBlocked(j) == deps[j] \cap dead = {}

\* Every job a job needs has completed.
Ready(j) == deps[j] \subseteq completed

\* Some job that j needs failed or was cancelled.
BlockedForever(j) == deps[j] \cap dead # {}

\* ProgressTracker::update_state: unregistered jobs are left alone.
UpdateState(j, s) ==
  tracker' = IF tracker[j] = "unknown" THEN tracker
             ELSE [tracker EXCEPT ![j] = s]

MarkDead_OnlyUncompletes(j) ==
  /\ completed' = completed \ {j}
  /\ UNCHANGED <<deps, dead>>

\* Scheduler::mark_dead: completion and death are mutually exclusive.
MarkDead(j) ==
  /\ dead' = dead \cup {j}
  /\ completed' = completed \ {j}
  /\ UNCHANGED deps

\* Scheduler::mark_completed.
MarkCompleted(j) ==
  /\ completed' = completed \cup {j}
  /\ UNCHANGED <<deps, dead>>

Persist_OutcomesOnly(j, s) ==
  /\ db' = IF dbSlot # "none" /\ j \in submitted /\ s \in Terminal
           THEN [db EXCEPT ![j] = s] ELSE db
  /\ UNCHANGED dbSlot

\* Shared::persist: nothing without a database or without the metadata that
\* submit captures.
Persist(j, s) ==
  /\ db' = IF dbSlot # "none" /\ j \in submitted THEN [db EXCEPT ![j] = s] ELSE db
  /\ UNCHANGED dbSlot

RemoveFirst_Peeks(j) == EntriesOf(queue, j) # {} /\ UNCHANGED queueVars

\* JobQueue::remove: the first entry with that id leaves.
RemoveFirst(j) ==
  /\ \E e \in EntriesOf(queue, j) :
       /\ IsFirst(e, EntriesOf(queue, j))
       /\ queue' = queue \ {e}
  /\ UNCHANGED nextSeq
-----------------------------------------------------------------------------
(* submit_with_deps, section by section. *)

SubmitStep(c, from, to) ==
  /\ cpc[c] = from
  /\ cpc' = [cpc EXCEPT ![c] = to]
  /\ UNCHANGED <<poolVars, running, workerVars, cjob, asked>>

\* next_job_id hands every caller an id of its own.
Fresh(j) ==
  /\ tracker[j] = "unknown"
  /\ \A c \in Client : ~(cpc[c] \in SubmitPc /\ cjob[c] = j)

\* After shutdown submit returns ChannelClosed and changes nothing.
SubmitCheck(c) ==
  /\ cpc[c] = "ready"
  /\ ~shutdown
  /\ \E j \in Job : Fresh(j) /\ cjob' = [cjob EXCEPT ![c] = j]
  /\ cpc' = [cpc EXCEPT ![c] = "register"]
  /\ UNCHANGED <<poolVars, queueVars, schedVars, tracker, submitted, running, dbVars,
                 workerVars, asked>>

Register(c) ==
  /\ SubmitStep(c, "register", "track")
  /\ \E D \in DepChoices[cjob[c]] : deps' = [deps EXCEPT ![cjob[c]] = D]
  /\ UNCHANGED <<queueVars, completed, dead, tracker, submitted, dbVars>>

Track(c) ==
  /\ SubmitStep(c, "track", "describe")
  /\ tracker' = [tracker EXCEPT ![cjob[c]] = "Pending"]
  /\ UNCHANGED <<queueVars, schedVars, submitted, dbVars>>

Describe(c) ==
  /\ SubmitStep(c, "describe", "persistNew")
  /\ submitted' = submitted \cup {cjob[c]}
  /\ UNCHANGED <<queueVars, schedVars, tracker, dbVars>>

PersistNew(c) ==
  /\ SubmitStep(c, "persistNew", "push")
  /\ Persist(cjob[c], "Pending")
  /\ UNCHANGED <<queueVars, schedVars, tracker, submitted>>

Push_ReusesSeq(c) ==
  /\ SubmitStep(c, "push", "ready")
  /\ queue' = queue \cup {[job |-> cjob[c], seq |-> nextSeq]}
  /\ UNCHANGED <<nextSeq, schedVars, tracker, submitted, dbVars>>

Push(c) ==
  /\ SubmitStep(c, "push", "ready")
  /\ queue' = queue \cup {[job |-> cjob[c], seq |-> nextSeq]}
  /\ nextSeq' = nextSeq + 1
  /\ UNCHANGED <<schedVars, tracker, submitted, dbVars>>
-----------------------------------------------------------------------------
(* cancel, section by section. *)

CancelStep(c, from, to) ==
  /\ cpc[c] = from
  /\ cpc' = [cpc EXCEPT ![c] = to]
  /\ UNCHANGED <<poolVars, submitted, running, wpc, wjob, todo, outcome, cjob, asked>>

\* An id the tracker does not know returns JobNotFound and changes nothing.
CancelCheck(c) ==
  /\ cpc[c] = "ready"
  /\ \E j \in Job :
       /\ tracker[j] # "unknown"
       /\ cjob' = [cjob EXCEPT ![c] = j]
       /\ asked' = asked \cup {j}
  /\ cpc' = [cpc EXCEPT ![c] = "dequeue"]
  /\ UNCHANGED <<poolVars, queueVars, schedVars, tracker, submitted, running, dbVars,
                 workerVars>>

Dequeue(c) ==
  /\ cjob[c] \in JobsOf(queue)
  /\ CancelStep(c, "dequeue", "cancelTrack")
  /\ RemoveFirst(cjob[c])
  /\ UNCHANGED <<schedVars, tracker, dbVars, token>>

NotQueued(c) ==
  /\ cjob[c] \notin JobsOf(queue)
  /\ CancelStep(c, "dequeue", "flip")
  /\ UNCHANGED <<queueVars, schedVars, tracker, dbVars, token>>

CancelTrack(c) ==
  /\ CancelStep(c, "cancelTrack", "cancelMark")
  /\ UpdateState(cjob[c], "Cancelled")
  /\ UNCHANGED <<queueVars, schedVars, dbVars, token>>

CancelMark(c) ==
  /\ CancelStep(c, "cancelMark", "cancelPersist")
  /\ MarkDead(cjob[c])
  /\ UNCHANGED <<queueVars, tracker, dbVars, token>>

CancelPersist(c) ==
  /\ CancelStep(c, "cancelPersist", "ready")
  /\ Persist(cjob[c], "Cancelled")
  /\ UNCHANGED <<queueVars, schedVars, tracker, token>>

Flip_Persists(c) ==
  /\ CancelStep(c, "flip", "ready")
  /\ Persist(cjob[c], "Cancelled")
  /\ UNCHANGED <<queueVars, schedVars, tracker, token>>

Flip_Settles(c) ==
  /\ CancelStep(c, "flip", "ready")
  /\ UpdateState(cjob[c], "Cancelled")
  /\ UNCHANGED <<queueVars, schedVars, dbVars, token>>

\* Not in the queue: flip the token of the enrolled reporter, if there is one.
Flip(c) ==
  /\ CancelStep(c, "flip", "ready")
  /\ LET w == running[cjob[c]]
     IN  token' = IF w = NoWorker THEN token ELSE [token EXCEPT ![w] = TRUE]
  /\ UNCHANGED <<queueVars, schedVars, tracker, dbVars>>
-----------------------------------------------------------------------------
(* start, stop and attach_db. *)

\* A second start changes nothing: started stays set for good.
Start(c) ==
  /\ c = Owner /\ cpc[c] = "ready"
  /\ ~started
  /\ started' = TRUE
  /\ wpc' = [w \in Worker |-> "loop"]
  /\ UNCHANGED <<shutdown, queueVars, schedVars, tracker, submitted, running, dbVars,
                 wjob, todo, token, outcome, clientVars>>

Stop(c) ==
  /\ c = Owner /\ cpc[c] = "ready"
  /\ shutdown' = TRUE
  /\ cpc' = [cpc EXCEPT ![c] = "join"]
  /\ UNCHANGED <<started, queueVars, schedVars, tracker, submitted, running, dbVars,
                 workerVars, cjob, asked>>

Joined(c) ==
  /\ cpc[c] = "join"
  /\ \A w \in Worker : wpc[w] \in {"off", "exited"}
  /\ cpc' = [cpc EXCEPT ![c] = "ready"]
  /\ UNCHANGED <<poolVars, queueVars, schedVars, tracker, submitted, running, dbVars,
                 workerVars, cjob, asked>>

\* Replacing one attached database by another is left out.
AttachDb(c) ==
  /\ cpc[c] = "ready"
  /\ dbSlot = "none"
  /\ dbSlot' = "attached"
  /\ UNCHANGED <<poolVars, queueVars, schedVars, tracker, submitted, running, db,
                 workerVars, clientVars>>
-----------------------------------------------------------------------------
(* The worker loop: run and try_take. *)

Goto(w, to) == wpc' = [wpc EXCEPT ![w] = to]

LoopTest_DrainsFirst(w) ==
  /\ wpc[w] = "loop"
  /\ Goto(w, "take")
  /\ UNCHANGED <<poolVars, queueVars, schedVars, tracker, submitted, running, dbVars,
                 wjob, todo, token, outcome, clientVars>>

\* The loop condition.
LoopTest(w) ==
  /\ wpc[w] = "loop"
  /\ Goto(w, IF shutdown THEN "exited" ELSE "take")
  /\ UNCHANGED <<poolVars, queueVars, schedVars, tracker, submitted, running, dbVars,
                 wjob, todo, token, outcome, clientVars>>

\* Under the queue and scheduler locks: cancel the first entry of L that is
\* still queued; the locks are dropped to persist it.
SweepOne(w, L) ==
  /\ \E e \in L :
       /\ IsFirst(e, {f \in L : f.job \in JobsOf(queue)})
       /\ RemoveFirst(e.job)
       /\ UpdateState(e.job, "Cancelled")
       /\ MarkDead(e.job)
       /\ todo' = [todo EXCEPT ![w] = {f \in L : Before(e, f)}]
       /\ wjob' = [wjob EXCEPT ![w] = e.job]
  /\ Goto(w, "sweepPersist")
  /\ UNCHANGED <<poolVars, submitted, running, dbVars, token, outcome, clientVars>>

\* Nothing left to sweep: stop on an empty queue after shutdown, or take the
\* first ready entry, or idle.
PopReady(w, L) ==
  /\ \A f \in L : f.job \notin JobsOf(queue)
  /\ LET ready == {e \in queue : Ready(e.job)}
     IN  \/ /\ shutdown /\ queue = {}
            /\ Goto(w, "exited")
            /\ UNCHANGED <<queue, wjob>>
         \/ /\ ready # {}
            /\ \E e \in ready :
                 /\ IsFirst(e, ready)
                 /\ queue' = queue \ {e}
                 /\ wjob' = [wjob EXCEPT ![w] = e.job]
            /\ Goto(w, "begin")
         \/ /\ ready = {} /\ ~(shutdown /\ queue = {})
            /\ Goto(w, "idle")
            /\ UNCHANGED <<queue, wjob>>
  /\ todo' = [todo EXCEPT ![w] = {}]
  /\ UNCHANGED <<poolVars, nextSeq, schedVars, tracker, submitted, running, dbVars,
                 token, outcome, clientVars>>

\* The list of blocked entries is computed once, on entry.
BlockedEntries == {e \in queue : BlockedForever(e.job)}

Take(w) ==
  /\ wpc[w] = "take"
  /\ SweepOne(w, BlockedEntries) \/ PopReady(w, BlockedEntries)

Resweep(w) ==
  /\ wpc[w] = "resweep"
  /\ SweepOne(w, todo[w]) \/ PopReady(w, todo[w])

SweepPersist(w) ==
  /\ wpc[w] = "sweepPersist"
  /\ Persist(wjob[w], "Cancelled")
  /\ wjob' = [wjob EXCEPT ![w] = NoJob]
  /\ Goto(w, "resweep")
  /\ UNCHANGED <<poolVars, queueVars, schedVars, tracker, submitted, running,
                 todo, token, outcome, clientVars>>

\* wait_timeout returns after the poll interval at the latest, so the wait is
\* a step that is always enabled.
Idle(w) ==
  /\ wpc[w] = "idle"
  /\ Goto(w, IF shutdown /\ queue = {} THEN "exited" ELSE "loop")
  /\ UNCHANGED <<poolVars, queueVars, schedVars, tracker, submitted, running, dbVars,
                 wjob, todo, token, outcome, clientVars>>
-----------------------------------------------------------------------------
(* run_job, section by section. *)

RunStep(w, from, to) ==
  /\ wpc[w] = from
  /\ Goto(w, to)
  /\ UNCHANGED <<poolVars, queueVars, submitted, todo, clientVars>>

Begin_DropsOnShutdown(w) ==
  /\ RunStep(w, "begin", IF shutdown THEN "exited" ELSE "persistRun")
  /\ UpdateState(wjob[w], IF shutdown THEN tracker[wjob[w]] ELSE "Running")
  /\ UNCHANGED <<schedVars, running, dbVars, wjob, token, outcome>>

Begin(w) ==
  /\ RunStep(w, "begin", "persistRun")
  /\ UpdateState(wjob[w], "Running")
  /\ UNCHANGED <<schedVars, running, dbVars, wjob, token, outcome>>

PersistRun(w) ==
  /\ RunStep(w, "persistRun", "enroll")
  /\ Persist(wjob[w], "Running")
  /\ UNCHANGED <<schedVars, tracker, running, wjob, token, outcome>>

Enroll_KeepsToken(w) ==
  /\ RunStep(w, "enroll", "execute")
  /\ running' = [running EXCEPT ![wjob[w]] = w]
  /\ UNCHANGED <<schedVars, tracker, dbVars, wjob, token, outcome>>

\* The reporter of the run is new: its token is not set.
Enroll(w) ==
  /\ RunStep(w, "enroll", "execute")
  /\ running' = [running EXCEPT ![wjob[w]] = w]
  /\ token' = [token EXCEPT ![w] = FALSE]
  /\ UNCHANGED <<schedVars, tracker, dbVars, wjob, outcome>>

\* The job returns Ok, an error or panics; it returns Err(Cancelled) only
\* when it has seen its token set, and need not look at it again.
Execute(w) ==
  /\ RunStep(w, "execute", "leave")
  /\ \E r \in {"Completed", "Failed"} \cup IF token[w] THEN {"Cancelled"} ELSE {} :
       outcome' = [outcome EXCEPT ![w] = r]
  /\ UNCHANGED <<schedVars, tracker, running, dbVars, wjob, token>>

Leave_KeepsReporter(w) ==
  /\ RunStep(w, "leave", "settle")
  /\ UNCHANGED <<schedVars, tracker, running, dbVars, wjob, token, outcome>>

Leave(w) ==
  /\ RunStep(w, "leave", "settle")
  /\ running' = [running EXCEPT ![wjob[w]] = NoWorker]
  /\ UNCHANGED <<schedVars, tracker, dbVars, wjob, token, outcome>>

Settle(w) ==
  /\ RunStep(w, "settle", "mark")
  /\ UpdateState(wjob[w], outcome[w])
  /\ UNCHANGED <<schedVars, running, dbVars, wjob, token, outcome>>

Mark_FailureCompletes(w) ==
  /\ RunStep(w, "mark", "persistEnd")
  /\ IF outcome[w] # "Cancelled" THEN MarkCompleted(wjob[w]) ELSE MarkDead(wjob[w])
  /\ UNCHANGED <<tracker, running, dbVars, wjob, token, outcome>>

Mark(w) ==
  /\ RunStep(w, "mark", "persistEnd")
  /\ IF outcome[w] = "Completed" THEN MarkCompleted(wjob[w]) ELSE MarkDead(wjob[w])
  /\ UNCHANGED <<tracker, running, dbVars, wjob, token, outcome>>

PersistEnd(w) ==
  /\ RunStep(w, "persistEnd", "loop")
  /\ Persist(wjob[w], outcome[w])
  /\ wjob' = [wjob EXCEPT ![w] = NoJob]
  /\ outcome' = [outcome EXCEPT ![w] = "none"]
  /\ UNCHANGED <<schedVars, tracker, running, token>>
-----------------------------------------------------------------------------
SubmitNext(c) ==
  \/ Register(c) \/ Track(c) \/ Describe(c) \/ PersistNew(c) \/ Push(c)

CancelNext(c) ==
  \/ Dequeue(c) \/ NotQueued(c) \/ CancelTrack(c) \/ CancelMark(c)
  \/ CancelPersist(c) \/ Flip(c)

\* A call that has begun goes on; no thread is obliged to make a call.
CallNext(c) == SubmitNext(c) \/ CancelNext(c) \/ Joined(c)

ClientNext(c) ==
  CallNext(c) \/ SubmitCheck(c) \/ CancelCheck(c) \/ Start(c) \/ Stop(c) \/ AttachDb(c)

RunNext(w) ==
  \/ Begin(w) \/ PersistRun(w) \/ Enroll(w) \/ Execute(w) \/ Leave(w) \/ Settle(w)
  \/ Mark(w) \/ PersistEnd(w)

WorkerNext(w) ==
  \/ LoopTest(w) \/ Take(w) \/ Resweep(w) \/ SweepPersist(w) \/ Idle(w)
  \/ RunNext(w)

Next == (\E c \in Client : ClientNext(c)) \/ (\E w \in Worker : WorkerNext(w))

Spec == Init /\ [][Next]_vars

\* Threads that can run do, mutexes are held for short sections only, and
\* every job returns.
Fairness ==
  /\ \A w \in Worker : WF_vars(WorkerNext(w))
  /\ \A c \in Client : WF_vars(CallNext(c))

FairSpec == Spec /\ Fairness
=============================================================================
