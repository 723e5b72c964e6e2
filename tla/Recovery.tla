------------------------------ MODULE Recovery ------------------------------
(***************************************************************************)
(* The job records across crashes and restarts: a caller submits jobs and  *)
(* calls recover_interrupted, workers run them, and the process may stop,  *)
(* exit or crash at any step and come back with the database alone.        *)
(*                                                                         *)
(* Module Pipeline has what happens inside one process.  Here a job is its *)
(* id and its work, the id counter starts again in every process, and the  *)
(* order of dispatch, dependencies and cancellation are left out: a worker *)
(* may take any queued job.                                                *)
(*                                                                         *)
(* A definition named X_Y is a mutation of X, not part of the model.       *)
(***************************************************************************)
EXTENDS Integers, FiniteSets, SequencesExt

CONSTANTS
  Work,         \* what jobs do: kind and payload, each submitted once
  Rebuildable,  \* the works that rebuild_job can rebuild from a record
  Worker,       \* the worker threads
  MaxRestart,   \* bound on the number of restarts
  Resubmits,    \* callers submit new jobs after a restart, too
  Nothing       \* no record, no work, no job

Id == 1..Cardinality(Work)

JobOf == [id : Id, work : Work]

Unfinished == {"Pending", "Running"}

\* The terminal states are one: recovery treats them alike.
RecordState == Unfinished \cup {"Ended"}

RecordOf == [work : Work, state : RecordState]

ASSUME RecoveryAssumption ==
  /\ IsFiniteSet(Work) /\ Rebuildable \subseteq Work
  /\ Nothing \notin Work \cup JobOf \cup RecordOf \cup Unfinished
  /\ MaxRestart \in Nat
  /\ Resubmits \in BOOLEAN

VARIABLES
  \* in the database
  rec,          \* rec[i]: the work and the state in the record of job i
  \* in the process
  lastId,       \* Shared.next_job_id
  submitted,    \* Shared.submitted: the work of the last job i submitted
  queue,        \* Shared.queue
  started,      \* workers have been spawned
  stopped,      \* Shared.shutdown
  wpc, wjob,    \* the section each worker is about to enter, and its job
  mpc, mjob,    \* the section the caller is about to enter, and its job
  pass,         \* the state recover_interrupted is listing, or Nothing
  todo,         \* the rest of the records that pass has listed
  count,        \* what recover_interrupted has counted
  \* history
  epoch,        \* the number of restarts so far
  recovered,    \* recover_interrupted has returned in this process
  found,        \* the unfinished records when it was called
  given,        \* the works some caller has given to submit
  accepted,     \* those that got as far as the queue
  settled,      \* those whose outcome has been recorded
  lost,         \* those deleted by a recovery that did not get to submit them
  raced         \* after a restart some process has not recovered first and then
                \* started, or was stopped before it recovered

callerVars == <<mpc, mjob, pass, todo, count>>
workerVars == <<wpc, wjob>>
historyVars == <<epoch, recovered, found, given, accepted, settled, lost, raced>>
vars == <<rec, lastId, submitted, queue, started, stopped, workerVars, callerVars,
          historyVars>>

Init ==
  /\ rec = [i \in Id |-> Nothing]
  /\ lastId = 0 /\ submitted = [i \in Id |-> Nothing] /\ queue = <<>>
  /\ started = FALSE /\ stopped = FALSE
  /\ wpc = [w \in Worker |-> "idle"] /\ wjob = [w \in Worker |-> Nothing]
  /\ mpc = "ready" /\ mjob = Nothing /\ pass = Nothing /\ todo = {} /\ count = 0
  /\ epoch = 0 /\ recovered = FALSE /\ found = {}
  /\ given = {} /\ accepted = {} /\ settled = {} /\ lost = {} /\ raced = FALSE
-----------------------------------------------------------------------------
(* submit: the metadata, the record, the queue. *)

\* Shared::persist finds the work by the id alone.
Persist(i, s) ==
  rec' = IF submitted[i] = Nothing THEN rec
         ELSE [rec EXCEPT ![i] = [work |-> submitted[i], state |-> s]]

\* next_job_id, and submit up to the metadata.
Submit ==
  /\ mpc = "ready" /\ ~stopped
  /\ epoch > 0 => Resubmits
  /\ lastId + 1 \in Id
  /\ lastId' = lastId + 1
  /\ \E k \in Work \ given :
       /\ given' = given \cup {k}
       /\ mjob' = [id |-> lastId + 1, work |-> k]
       /\ submitted' = [submitted EXCEPT ![lastId + 1] = k]
  /\ mpc' = "persist"
  /\ UNCHANGED <<rec, queue, started, stopped, workerVars, pass, todo, count, epoch,
                 recovered, found, accepted, settled, lost, raced>>

PersistNew ==
  /\ mpc = "persist"
  /\ Persist(mjob.id, "Pending")
  /\ mpc' = "push"
  /\ UNCHANGED <<lastId, submitted, queue, started, stopped, workerVars, mjob, pass, todo,
                 count, historyVars>>

PushTo(next) ==
  /\ mpc = "push"
  /\ queue' = Append(queue, mjob)
  /\ accepted' = accepted \cup {mjob.work}
  /\ count' = IF pass = Nothing THEN count ELSE count + 1
  /\ mpc' = next
  /\ UNCHANGED <<lastId, submitted, started, stopped, workerVars, mjob, pass, todo, epoch,
                 recovered, found, given, settled, lost, raced>>

Push_ThenDeletes ==
  /\ PushTo(IF pass = Nothing THEN "ready" ELSE "pick")
  /\ rec' = IF pass = Nothing THEN rec ELSE [rec EXCEPT ![mjob.id] = Nothing]

\* submit returns to its caller, or to the loop of recover_interrupted.
Push ==
  /\ PushTo(IF pass = Nothing THEN "ready" ELSE "pick")
  /\ UNCHANGED rec
-----------------------------------------------------------------------------
(* recover_interrupted. *)

Listed_Unfinished(s) ==
  {[id |-> i, work |-> rec[i].work] :
     i \in {j \in Id : rec[j] # Nothing /\ rec[j].state \in Unfinished}}

Listed_PendingOnly(s) ==
  {[id |-> i, work |-> rec[i].work] :
     i \in {j \in Id : rec[j] # Nothing /\ s = "Pending" /\ rec[j].state = s}}

\* jobs_in_state.
Listed(s) ==
  {[id |-> i, work |-> rec[i].work] :
     i \in {j \in Id : rec[j] # Nothing /\ rec[j].state = s}}

\* Bound: one successful call in each process, and none in the first.
Recover ==
  /\ mpc = "ready" /\ epoch > 0 /\ ~recovered
  /\ raced' = (raced \/ started \/ stopped)
  /\ mpc' = "pick" /\ pass' = "Pending" /\ todo' = Listed("Pending") /\ count' = 0
  /\ found' = {i \in Id : rec[i] # Nothing /\ rec[i].state \in Unfinished
                                           /\ rec[i].work \in Rebuildable}
  /\ UNCHANGED <<rec, lastId, submitted, queue, started, stopped, workerVars, mjob, epoch,
                 recovered, given, accepted, settled, lost>>

\* rebuild_job gives a job, and not None for an unknown kind or payload.
RebuildJob(work) == work \in Rebuildable

\* The records come in the order of their ids.
IsNext(j) == j \in todo /\ \A k \in todo : j.id <= k.id

\* A record that cannot be rebuilt stays; the record of any other is deleted.
Pick ==
  /\ mpc = "pick" /\ todo # {}
  /\ \E j \in todo :
       /\ IsNext(j)
       /\ todo' = todo \ {j}
       /\ \/ /\ ~RebuildJob(j.work)
             /\ UNCHANGED <<rec, mpc, mjob>>
          \/ /\ RebuildJob(j.work)
             /\ rec' = [rec EXCEPT ![j.id] = Nothing]
             /\ mjob' = j
             /\ mpc' = "resubmit"
  /\ UNCHANGED <<lastId, submitted, queue, started, stopped, workerVars, pass, count,
                 historyVars>>

Resubmit ==
  /\ mpc = "resubmit" /\ ~stopped
  /\ submitted' = [submitted EXCEPT ![mjob.id] = mjob.work]
  /\ mpc' = "persist"
  /\ UNCHANGED <<rec, lastId, queue, started, stopped, workerVars, mjob, pass, todo, count,
                 historyVars>>

\* submit refuses after a shutdown, and the ? operator returns its error.
ResubmitRefused ==
  /\ mpc = "resubmit" /\ stopped
  /\ mpc' = "ready" /\ pass' = Nothing /\ todo' = {}
  /\ lost' = lost \cup {mjob.work}
  /\ UNCHANGED <<rec, lastId, submitted, queue, started, stopped, workerVars, mjob, count,
                 epoch, recovered, found, given, accepted, settled, raced>>

NextPass ==
  /\ mpc = "pick" /\ todo = {} /\ pass = "Pending"
  /\ pass' = "Running" /\ todo' = Listed("Running")
  /\ UNCHANGED <<rec, lastId, submitted, queue, started, stopped, workerVars, mpc, mjob,
                 count, historyVars>>

Return ==
  /\ mpc = "pick" /\ todo = {} /\ pass = "Running"
  /\ mpc' = "ready" /\ pass' = Nothing /\ recovered' = TRUE
  /\ UNCHANGED <<rec, lastId, submitted, queue, started, stopped, workerVars, mjob, todo,
                 count, epoch, found, given, accepted, settled, lost, raced>>
-----------------------------------------------------------------------------
(* start, stop, the workers, and the end of the process. *)

Start ==
  /\ mpc = "ready" /\ ~started
  /\ started' = TRUE
  /\ raced' = (raced \/ (epoch > 0 /\ ~recovered))
  /\ UNCHANGED <<rec, lastId, submitted, queue, stopped, workerVars, callerVars, epoch,
                 recovered, found, given, accepted, settled, lost>>

\* Another thread may stop the pipeline while the caller is in a call.
Stop ==
  /\ ~stopped
  /\ stopped' = TRUE
  /\ UNCHANGED <<rec, lastId, submitted, queue, started, workerVars, callerVars, historyVars>>

WorkerStep(w, from, to) ==
  /\ wpc[w] = from
  /\ wpc' = [wpc EXCEPT ![w] = to]
  /\ UNCHANGED <<lastId, submitted, started, stopped, callerVars, epoch, recovered, found,
                 given, accepted, lost, raced>>

Take(w) ==
  /\ WorkerStep(w, "idle", "begin")
  /\ started /\ ~stopped
  /\ \E n \in 1..Len(queue) :
       wjob' = [wjob EXCEPT ![w] = queue[n]] /\ queue' = RemoveAt(queue, n)
  /\ UNCHANGED <<rec, settled>>

Begin(w) ==
  /\ WorkerStep(w, "begin", "execute")
  /\ Persist(wjob[w].id, "Running")
  /\ UNCHANGED <<queue, wjob, settled>>

Execute(w) ==
  /\ WorkerStep(w, "execute", "end")
  /\ UNCHANGED <<rec, queue, wjob, settled>>

End(w) ==
  /\ WorkerStep(w, "end", "idle")
  /\ Persist(wjob[w].id, "Ended")
  /\ settled' = settled \cup {wjob[w].work}
  /\ wjob' = [wjob EXCEPT ![w] = Nothing]
  /\ UNCHANGED queue

\* The caller holds a job whose record recover_interrupted has deleted.
Holding == mpc \in {"resubmit", "persist"} /\ pass # Nothing

\* A crash, or the process ends and another one opens the database.
Restart ==
  /\ epoch < MaxRestart
  /\ epoch' = epoch + 1
  /\ lost' = IF Holding THEN lost \cup {mjob.work} ELSE lost
  /\ lastId' = 0 /\ submitted' = [i \in Id |-> Nothing] /\ queue' = <<>>
  /\ started' = FALSE /\ stopped' = FALSE
  /\ wpc' = [w \in Worker |-> "idle"] /\ wjob' = [w \in Worker |-> Nothing]
  /\ mpc' = "ready" /\ mjob' = Nothing /\ pass' = Nothing /\ todo' = {} /\ count' = 0
  /\ recovered' = FALSE /\ found' = {}
  /\ UNCHANGED <<rec, given, accepted, settled, raced>>
-----------------------------------------------------------------------------
CallNext ==
  \/ PersistNew \/ Push \/ Pick \/ Resubmit \/ ResubmitRefused \/ NextPass \/ Return

WorkerNext(w) == Take(w) \/ Begin(w) \/ Execute(w) \/ End(w)

Next ==
  \/ Submit \/ Recover \/ CallNext \/ Start \/ Stop \/ Restart
  \/ \E w \in Worker : WorkerNext(w)

Spec == Init /\ [][Next]_vars

\* Calls that have begun go on, and workers run; nothing makes a caller begin
\* a call or the process end.
FairSpec == Spec /\ WF_vars(CallNext) /\ \A w \in Worker : WF_vars(WorkerNext(w))
=============================================================================
