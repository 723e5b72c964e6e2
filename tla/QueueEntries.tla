---------------------------- MODULE QueueEntries ----------------------------
(***************************************************************************)
(* The entries of the job queue and their dispatch order, shared by the    *)
(* abstract queue, by the vector that implements it and by the pipeline.   *)
(***************************************************************************)
EXTENDS Integers

CONSTANTS
  Job,    \* the ids of the jobs
  Prio    \* Prio[j], the rank of job j's priority: Low = 0 ... Critical = 3

ASSUME PrioAssumption == Prio \in [Job -> 0..3]

Entry == [job : Job, seq : Nat]

\* Critical first, first in first out within a priority class.
Before(e, f) ==
  \/ Prio[e.job] > Prio[f.job]
  \/ Prio[e.job] = Prio[f.job] /\ e.seq < f.seq

\* e is the entry of S that the dispatch order puts first.
IsFirst(e, S) == e \in S /\ \A f \in S \ {e} : Before(e, f)

EntriesOf(S, j) == {e \in S : e.job = j}

JobsOf(S) == {e.job : e \in S}
=============================================================================
