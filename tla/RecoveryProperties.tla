------------------------- MODULE RecoveryProperties -------------------------
(***************************************************************************)
(* What recovery owes the jobs of a process that has ended.                *)
(***************************************************************************)
EXTENDS Recovery

\* The places of this process that hold work k.
Places(k) ==
  {<<"queue", n>> : n \in {m \in 1..Len(queue) : queue[m].work = k}}
    \cup {<<"worker", w>> : w \in {v \in Worker : wjob[v] # Nothing /\ wjob[v].work = k}}
    \cup {<<"caller", x>> : x \in {y \in {mpc} : y \in {"resubmit", "persist", "push"}
                                                    /\ mjob.work = k}}

(* lib.rs:18-21: the records are enough to find all unfinished work again.
   Whenever the process ends, each accepted work without an outcome has an
   unfinished record of its own, unless a recovery holds it between
   delete_job and the record of its new submission. *)
UnfinishedRecorded ==
  \A k \in accepted \ (settled \cup lost) :
    \/ Holding /\ mjob.work = k
    \/ \E i \in Id : rec[i] # Nothing /\ rec[i].work = k /\ rec[i].state \in Unfinished

(* lib.rs:18-20, job_table.rs:62: recovery brings each job back as the process
   that ended had it, if it comes before the workers run.  No work is in a
   process twice, and none again once its outcome is recorded; each job queued
   or running is the one its id stands for, with its state recorded under its
   own kind and payload. *)
RecoveredAsItWas ==
  ~raced => \A k \in Work :
    /\ \A s, t \in Places(k) : s = t
    /\ k \in settled => Places(k) = {}
    /\ \A j \in ToSet(queue) \cup {wjob[w] : w \in Worker} :
         j # Nothing /\ j.work = k =>
           submitted[j.id] = k /\ rec[j.id] # Nothing /\ rec[j.id].work = k

(* pipeline.rs:338-340, pipeline_integration.rs:335: recover_interrupted
   counts each unfinished record of the previous process once, if no worker
   runs meanwhile. *)
CountsInterruptedOnce ==
  [][~raced /\ recovered' /\ ~recovered => count = Cardinality(found)]_vars

(* Work that a process leaves unfinished settles once a process has recovered
   it and runs its workers, unless that one is stopped or ends as well, the
   end of a process lost it, or it cannot be rebuilt. *)
RecoveredWorkSettles ==
  \A k \in Rebuildable :
    k \in accepted /\ started /\ (epoch > 0 => recovered)
      ~> k \in settled \cup lost \/ stopped \/ ~started
=============================================================================
