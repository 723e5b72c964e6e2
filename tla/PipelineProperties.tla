------------------------- MODULE PipelineProperties -------------------------
(***************************************************************************)
(* What must hold of the pipeline: the type invariant, the safety          *)
(* invariants, the action properties, the promise of JobLifecycle and the  *)
(* liveness of accepted jobs.                                              *)
(***************************************************************************)
EXTENDS Pipeline

(* The types of the variables; the sequence numbers in the queue have been
   handed out by JobQueue::push. *)
TypeOK ==
  /\ shutdown \in BOOLEAN /\ started \in BOOLEAN
  /\ nextSeq \in Nat
  /\ queue \subseteq {e \in Entry : e.seq < nextSeq}
  /\ deps \in [Job -> SUBSET Job]
  /\ completed \subseteq Job /\ dead \subseteq Job
  /\ tracker \in [Job -> JobState \cup {"unknown"}]
  /\ submitted \subseteq Job
  /\ running \in [Job -> Worker \cup {NoWorker}]
  /\ dbSlot \in {"none", "built", "attached"} /\ db \in [Job -> JobState \cup {"none"}]
  /\ wpc \in [Worker -> WorkerPc]
  /\ wjob \in [Worker -> Job \cup {NoJob}]
  /\ todo \in [Worker -> SUBSET Entry]
  /\ token \in [Worker -> BOOLEAN]
  /\ outcome \in [Worker -> Terminal \cup {"none"}]
  /\ cpc \in [Client -> ClientPc]
  /\ cjob \in [Client -> Job \cup {NoJob}]
  /\ asked \subseteq Job
-----------------------------------------------------------------------------
\* The threads that carry j: its submitter up to push, the caller that took
\* it out of the queue to cancel it, the worker that swept it or runs it.
Carriers(j) ==
  {c \in Client : cjob[c] = j /\ cpc[c] \in SubmitPc \cup WithdrawPc}
    \cup {w \in Worker : wjob[w] = j /\ wpc[w] \in RunPc \cup {"sweepPersist"}}

IsTerminal(j) == tracker[j] \in Terminal

Accepted(j) == tracker[j] # "unknown"

(* Every accepted job that has no outcome yet is in exactly one place: one
   entry of the queue or the hands of one thread.  So no interleaving of
   push, pop_ready, the sweep and cancel loses a job or runs it twice, and
   a job with an outcome is never queued again. *)
OneOwner ==
  \A j \in Job :
    /\ \A s, t \in Carriers(j) : s = t
    /\ \A e, f \in EntriesOf(queue, j) : e = f
    /\ EntriesOf(queue, j) # {} => Carriers(j) = {} /\ tracker[j] = "Pending"
    /\ Accepted(j) /\ ~IsTerminal(j) => EntriesOf(queue, j) # {} \/ Carriers(j) # {}

(* scheduler.rs:4-6: a job that runs, or that ran to an outcome of its own,
   has had all its dependencies complete.  The readiness check and the run
   are separate critical sections, and mark_dead takes jobs out of completed
   in between. *)
DependenciesHonoured ==
  \A w \in Worker : wpc[w] \in RunPc =>
    \A d \in deps[wjob[w]] : d \in completed /\ tracker[d] = "Completed"

(* Scheduler and tracker agree on the outcome of every job, although cancel
   and run_job update them under different locks: they can differ only while
   the thread that carries the job is between the two updates. *)
VerdictsAgree ==
  /\ completed \cap dead = {}
  /\ \A j \in completed : tracker[j] = "Completed"
  /\ \A j \in dead : tracker[j] \in {"Failed", "Cancelled"}
  /\ \A j \in Job : IsTerminal(j) /\ Carriers(j) = {} => j \in completed \cup dead

(* lib.rs:18-21: the database holds an unfinished record of every unfinished
   job whose submission has got as far as the queue, in every state, so a
   crash at any step loses none of them; and a record with an outcome holds
   the outcome the tracker shows. *)
UnfinishedRecorded ==
  dbSlot = "built" =>
    \A j \in Job :
      /\ tracker[j] \in {"Pending", "Running"}
           /\ ~(\E c \in Client : cjob[c] = j /\ cpc[c] \in SubmitPc)
         => db[j] \in {"Pending", "Running"}
      /\ db[j] \in Terminal => db[j] = tracker[j]

(* A job is Cancelled only if some caller asked for it or a job it needs
   failed or was cancelled: a token flipped for one run of a worker never
   reaches the next job of that worker. *)
CancellationJustified ==
  \A j \in Job :
    tracker[j] = "Cancelled" => j \in asked \/ deps[j] \cap dead # {}

(* The running map leads cancel to the worker that carries the job, in the
   sections where the job can still see the token. *)
TokenReachesItsJob ==
  \A j \in Job, w \in Worker :
    running[j] = w <=> wjob[w] = j /\ wpc[w] \in {"execute", "leave"}

(* pipeline.rs:322-324: once stop has joined the workers, no job is left
   Running, and every accepted job without an outcome that no caller still
   carries is queued and recorded as Pending for recovery. *)
StopLeavesJobsQueued ==
  started /\ (\A w \in Worker : wpc[w] = "exited") =>
    \A j \in Job :
      /\ tracker[j] # "Running"
      /\ tracker[j] = "Pending" /\ Carriers(j) = {}
           => EntriesOf(queue, j) # {} /\ (dbSlot = "built" => db[j] = "Pending")

\* The transitions of a record of a database that stays attached.
Follows(s, t) ==
  \/ s = t
  \/ s = "none"
  \/ s = "Pending" /\ t \in {"Running", "Cancelled"}
  \/ s = "Running" /\ t \in Terminal

(* Records move along the state machine of JobState only: no late persist
   of an earlier state overwrites a later one. *)
RecordsMoveForward == [][\A j \in Job : Follows(db[j], db'[j])]_vars

Lifecycle == INSTANCE JobLifecycle
  WITH MaxRunning <- Cardinality(Worker),
       state <- tracker,
       needs <- [j \in Job |-> IF tracker[j] = "unknown" THEN {} ELSE deps[j]]

(* The pipeline keeps the promise of JobLifecycle: outcomes are final, jobs
   start only after all they need, and no more run than there are workers. *)
RefinesLifecycle == Lifecycle!Spec
-----------------------------------------------------------------------------
\* j and everything it needs, directly or not, has been accepted.
Satisfiable(j) ==
  \E S \in SUBSET Job :
    /\ j \in S
    /\ \A k \in S : Accepted(k) /\ deps[k] \subseteq S

(* With workers running and no shutdown, every accepted job whose
   dependencies have all been accepted gets an outcome: it runs, or the
   sweeps cancel it, however long the chain of failed dependencies is. *)
AcceptedJobsSettle ==
  \A j \in Job : started /\ Satisfiable(j) ~> IsTerminal(j) \/ shutdown

(* stop returns: every worker sees the shutdown and is joined. *)
StopReturns == \A c \in Client : cpc[c] = "join" ~> cpc[c] = "ready"
=============================================================================
