---------------------------- MODULE JobLifecycle ----------------------------
(***************************************************************************)
(* What the pipeline promises about each job, without queue, threads or    *)
(* database: a job is accepted with the jobs it needs, starts only when    *)
(* those have completed and a worker is free, and once it has an outcome   *)
(* keeps it.                                                               *)
(***************************************************************************)
EXTENDS Integers, FiniteSets

CONSTANTS
  Job,          \* the ids of the jobs
  MaxRunning    \* the number of worker threads, at least 1

VARIABLES
  state,        \* state[j]: "unknown" until j is accepted, then its JobState
  needs         \* needs[j]: the jobs that must complete before j runs

lifecycleVars == <<state, needs>>

Outcome == {"Completed", "Failed", "Cancelled"}

JobState == {"Pending", "Running"} \cup Outcome

RunningJobs == {j \in Job : state[j] = "Running"}

Init ==
  /\ state = [j \in Job |-> "unknown"]
  /\ needs = [j \in Job |-> {}]

Accept(j) ==
  /\ state[j] = "unknown"
  /\ state' = [state EXCEPT ![j] = "Pending"]
  /\ \E D \in SUBSET Job : needs' = [needs EXCEPT ![j] = D]

Start(j) ==
  /\ state[j] = "Pending"
  /\ \A d \in needs[j] : state[d] = "Completed"
  /\ Cardinality(RunningJobs) < MaxRunning
  /\ state' = [state EXCEPT ![j] = "Running"]
  /\ UNCHANGED needs

Finish(j) ==
  /\ state[j] = "Running"
  /\ \E r \in Outcome : state' = [state EXCEPT ![j] = r]
  /\ UNCHANGED needs

\* Taken out of the queue before it ran: on request, or because a job it
\* needs did not complete.
Withdraw(j) ==
  /\ state[j] = "Pending"
  /\ state' = [state EXCEPT ![j] = "Cancelled"]
  /\ UNCHANGED needs

Next == \E j \in Job : Accept(j) \/ Start(j) \/ Finish(j) \/ Withdraw(j)

Spec == Init /\ [][Next]_lifecycleVars
=============================================================================
