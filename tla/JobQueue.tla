------------------------------ MODULE JobQueue ------------------------------
(***************************************************************************)
(* JobQueue of queue.rs: the entries in a vector kept in dispatch order.   *)
(* push finds its place with partition_point; pop_ready and remove take    *)
(* the first position that fits.  The same id may be queued twice.         *)
(* A definition named X_Y is a mutation of X, not part of the model.       *)
(***************************************************************************)
EXTENDS QueueEntries, SequencesExt

CONSTANTS
  NoEntry,      \* the answer None
  MaxPush       \* bound on the number of pushes

VARIABLES
  entries,      \* JobQueue.entries
  nextSeq,      \* JobQueue.next_seq
  got           \* what the last operation returned

jqVars == <<entries, nextSeq, got>>

\* entry_order(e) <= entry_order(f), on (Reverse(priority), seq).
AtMost(e, f) == e = f \/ Before(e, f)

\* What the binary search of partition_point finds on any vector: a place
\* with the predicate true just before it and false just after it.
IsPartitionPoint(k, e) ==
  /\ k \in 0..Len(entries)
  /\ k > 0 => AtMost(entries[k], e)
  /\ k < Len(entries) => ~AtMost(entries[k + 1], e)

Init == entries = <<>> /\ nextSeq = 0 /\ got = NoEntry

Push(j) ==
  LET e == [job |-> j, seq |-> nextSeq]
  IN  /\ nextSeq < MaxPush
      /\ \E k \in 0..Len(entries) :
           IsPartitionPoint(k, e) /\ entries' = InsertAt(entries, k + 1, e)
      /\ nextSeq' = nextSeq + 1
      /\ got' = NoEntry

TakeFirst_SwapRemove(R) ==
  LET i == SelectInSeq(entries, LAMBDA e : e.job \in R)
  IN  /\ IF i = 0 THEN got' = NoEntry /\ UNCHANGED entries
         ELSE got' = entries[i]
              /\ entries' = Front(ReplaceAt(entries, i, Last(entries)))
      /\ UNCHANGED nextSeq

\* Vec::remove at the first position whose job is in R, if there is one.
TakeFirst(R) ==
  LET i == SelectInSeq(entries, LAMBDA e : e.job \in R)
  IN  /\ IF i = 0 THEN got' = NoEntry /\ UNCHANGED entries
         ELSE got' = entries[i] /\ entries' = RemoveAt(entries, i)
      /\ UNCHANGED nextSeq

\* R is the set of jobs that the caller's readiness check accepts.
PopReady(R) == TakeFirst(R)

RemoveJob(j) == TakeFirst({j})

Next ==
  \/ \E j \in Job : Push(j) \/ RemoveJob(j)
  \/ \E R \in SUBSET Job : PopReady(R)

Spec == Init /\ [][Next]_jqVars
-----------------------------------------------------------------------------
Abstract == INSTANCE PriorityQueue WITH held <- ToSet(entries)

(* Every operation of the vector is one of the abstract priority queue: pop
   and remove return the first eligible entry and lose no other. *)
RefinesPriorityQueue == Abstract!Spec
=============================================================================
