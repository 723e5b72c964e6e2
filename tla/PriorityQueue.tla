---------------------------- MODULE PriorityQueue ---------------------------
(***************************************************************************)
(* What the job queue promises: it holds entries, and every operation that *)
(* takes one out takes the first eligible entry in dispatch order.         *)
(***************************************************************************)
EXTENDS QueueEntries

CONSTANTS
  NoEntry       \* the answer None

VARIABLES
  held,         \* the entries in the queue
  nextSeq,      \* the sequence number of the next push
  got           \* what the last operation returned

pqVars == <<held, nextSeq, got>>

Init == held = {} /\ nextSeq = 0 /\ got = NoEntry

Push(j) ==
  /\ held' = held \cup {[job |-> j, seq |-> nextSeq]}
  /\ nextSeq' = nextSeq + 1
  /\ got' = NoEntry

\* Take the first entry of S, or answer that there is none.
TakeFirst(S) ==
  /\ \/ /\ S = {} /\ got' = NoEntry
        /\ UNCHANGED held
     \/ \E e \in S : IsFirst(e, S) /\ got' = e /\ held' = held \ {e}
  /\ UNCHANGED nextSeq

\* R is the set of jobs that the caller's readiness check accepts.
PopReady(R) == TakeFirst({e \in held : e.job \in R})

RemoveJob(j) == TakeFirst(EntriesOf(held, j))

Next ==
  \/ \E j \in Job : Push(j) \/ RemoveJob(j)
  \/ \E R \in SUBSET Job : PopReady(R)

Spec == Init /\ [][Next]_pqVars
=============================================================================
