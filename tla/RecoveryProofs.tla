--------------------------- MODULE RecoveryProofs ---------------------------
(***************************************************************************)
(* Theorems about the job records across processes, for any works, workers *)
(* and number of restarts, if callers submit new jobs in the first process *)
(* only: with new jobs beside recovered ones the ids collide (IdReuse.cfg). *)
(***************************************************************************)
EXTENDS RecoveryProperties, FiniteSetTheorems, SequenceTheorems, TLAPS

Carrying == mpc \in {"resubmit", "persist", "push"}

DataTyped ==
  /\ rec \in [Id -> RecordOf \cup {Nothing}]
  /\ lastId \in Nat /\ submitted \in [Id -> Work \cup {Nothing}]
  /\ queue \in Seq(JobOf) /\ started \in BOOLEAN /\ stopped \in BOOLEAN

WorkersTyped ==
  /\ wpc \in [Worker -> {"idle", "begin", "execute", "end"}]
  /\ wjob \in [Worker -> JobOf \cup {Nothing}]
  /\ \A w \in Worker : wpc[w] = "idle" <=> wjob[w] = Nothing

CallerTyped ==
  /\ mpc \in {"ready", "persist", "push", "pick", "resubmit"}
  /\ mjob \in JobOf \cup {Nothing} /\ (Carrying => mjob \in JobOf)
  /\ pass \in {Nothing} \cup Unfinished /\ todo \subseteq JobOf
  /\ mpc = "ready" => pass = Nothing
  /\ mpc \in {"pick", "resubmit"} => pass # Nothing

HistoryTyped ==
  /\ epoch \in Nat /\ recovered \in BOOLEAN /\ raced \in BOOLEAN
  /\ given \subseteq Work /\ settled \subseteq given

Typed == DataTyped /\ WorkersTyped /\ CallerTyped /\ HistoryTyped

(* What ids stand for: wherever an id occurs with a work, it is the same. *)
Pair(i, k) == [id |-> i, work |-> k]

Names(i, k) ==
  \/ rec[i] # Nothing /\ rec[i].work = k
  \/ submitted[i] = k
  \/ \E n \in 1..Len(queue) : queue[n] = Pair(i, k)
  \/ \E w \in Worker : wjob[w] = Pair(i, k)
  \/ mjob = Pair(i, k)
  \/ Pair(i, k) \in todo

Naming ==
  /\ \A i \in Id : \A k, l \in Work : Names(i, k) /\ Names(i, l) => k = l
  /\ \A i, j \in Id : \A k \in Work : Names(i, k) /\ Names(j, k) => i = j
  /\ \A i \in Id : \A k \in Work : Names(i, k) => k \in given /\ (epoch = 0 => i <= lastId)

(* No work is forgotten. *)
Recorded(k) ==
  \E i \in Id : rec[i] # Nothing /\ rec[i].work = k /\ rec[i].state \in Unfinished

Kept ==
  /\ UnfinishedRecorded
  /\ mpc = "persist" => submitted[mjob.id] = mjob.work
  /\ mpc = "push" => mjob.work \in settled \cup lost \/ Recorded(mjob.work)

RecordInv == Typed /\ Naming /\ Kept

(* Each id is in one place, and recovery finds no job of its own process. *)
Present(j) ==
  /\ submitted[j.id] = j.work /\ j.work \notin settled
  /\ rec[j.id] # Nothing /\ rec[j.id].work = j.work

OnePlace ==
  /\ \A m, n \in 1..Len(queue) : queue[m].id = queue[n].id => m = n
  /\ \A v, w \in Worker : wjob[v] # Nothing /\ wjob[v] = wjob[w] => v = w
  /\ \A n \in 1..Len(queue) : \A w \in Worker : wjob[w] # queue[n]
  /\ Carrying => /\ \A n \in 1..Len(queue) : queue[n].id # mjob.id
                 /\ \A w \in Worker : wjob[w] # mjob

AllPresent ==
  /\ \A n \in 1..Len(queue) : Present(queue[n])
  /\ \A w \in Worker : wjob[w] # Nothing => Present(wjob[w])
  /\ Carrying => mjob.work \notin settled
  /\ mpc = "push" => Present(mjob)
  /\ \A i \in Id : rec[i] # Nothing /\ rec[i].state \in Unfinished => rec[i].work \notin settled

Recovering ==
  pass # Nothing =>
    /\ epoch > 0 /\ ~recovered
    /\ \A n \in 1..Len(queue) : rec[queue[n].id].state = "Pending"
    /\ mpc = "push" => rec[mjob.id].state = "Pending"
    /\ \A j \in todo : /\ rec[j.id] = [work |-> j.work, state |-> pass]
                       /\ \A n \in 1..Len(queue) : queue[n].id # j.id
                       /\ Carrying => j.id # mjob.id

Calls ==
  /\ ~started => \A w \in Worker : wjob[w] = Nothing
  /\ epoch > 0 /\ ~recovered => ~started
  /\ epoch > 0 /\ ~recovered /\ mpc = "ready" /\ ~stopped => queue = <<>>
  /\ Carrying /\ pass = Nothing => epoch = 0

Once == OnePlace /\ AllPresent /\ Recovering /\ Calls

OnceInv == ~raced => Once
-----------------------------------------------------------------------------
LEMMA JobFields ==
  /\ \A j \in JobOf : /\ j.id \in Id /\ j.work \in Work /\ j = Pair(j.id, j.work)
                      /\ j # Nothing
  /\ \A i \in Id, k \in Work : /\ Pair(i, k) \in JobOf /\ Pair(i, k) # Nothing
                               /\ Pair(i, k).id = i /\ Pair(i, k).work = k
  /\ \A r \in RecordOf : r.work \in Work /\ r.state \in RecordState /\ r # Nothing
  /\ \A k \in Work, t \in RecordState : [work |-> k, state |-> t] \in RecordOf
  /\ Nothing \notin Work /\ "Pending" # Nothing /\ "Running" # Nothing
  BY RecoveryAssumption DEF JobOf, RecordOf, Pair, Unfinished

LEMMA Removed ==
  ASSUME NEW S, NEW s \in Seq(S), NEW n \in 1..Len(s)
  PROVE  /\ RemoveAt(s, n) \in Seq(S) /\ Len(RemoveAt(s, n)) = Len(s) - 1
         /\ \A m \in 1..Len(s) - 1 : RemoveAt(s, n)[m] = IF m < n THEN s[m] ELSE s[m + 1]
<1> DEFINE a == SubSeq(s, 1, n - 1)
           b == SubSeq(s, n + 1, Len(s))
<1>1. a \in Seq(S) /\ Len(a) = n - 1 /\ \A m \in 1..n - 1 : a[m] = s[m]
  OBVIOUS
<1>2. b \in Seq(S) /\ Len(b) = Len(s) - n /\ \A m \in 1..Len(s) - n : b[m] = s[m + n]
  OBVIOUS
<1>0. Len(s) \in Nat /\ n \in Nat /\ n <= Len(s) /\ n > 0
  OBVIOUS
<1> HIDE DEF a, b
<1>3. /\ a \o b \in Seq(S) /\ Len(a \o b) = Len(a) + Len(b)
      /\ \A m \in 1..Len(a) + Len(b) : (a \o b)[m] = IF m <= Len(a) THEN a[m] ELSE b[m - Len(a)]
  BY <1>1, <1>2, ConcatProperties
<1>4. RemoveAt(s, n) = a \o b
  BY DEF RemoveAt, a, b
<1>5. Len(a) + Len(b) = Len(s) - 1
  BY <1>0, <1>1, <1>2
<1>6. ASSUME NEW m \in 1..Len(s) - 1
      PROVE  (a \o b)[m] = IF m < n THEN s[m] ELSE s[m + 1]
  <2>1. CASE m < n
    BY <1>0, <1>1, <1>3, <1>5, <2>1
  <2>2. CASE ~(m < n)
    <3> DEFINE x == m - Len(a)
    <3>1. x \in 1..Len(s) - n /\ x + n = m + 1 /\ ~(m <= Len(a)) /\ m \in 1..Len(a) + Len(b)
      BY <1>0, <1>1, <1>5, <2>2
    <3>2. (a \o b)[m] = b[x]
      BY <1>3, <3>1
    <3> HIDE DEF x
    <3>3. b[x] = s[m + 1]
      BY <1>2, <3>1
    <3> QED
      BY <2>2, <3>2, <3>3
  <2> QED
    BY <2>1, <2>2
<1> QED
  BY <1>3, <1>4, <1>5, <1>6

LEMMA ListedTyped ==
  ASSUME Typed, NEW s
  PROVE  /\ Listed(s) \subseteq JobOf
         /\ \A j \in Listed(s) : rec[j.id] = [work |-> j.work, state |-> s]
<1> SUFFICES ASSUME NEW j \in Listed(s)
             PROVE  j \in JobOf /\ rec[j.id] = [work |-> j.work, state |-> s]
  OBVIOUS
<1>1. PICK i \in Id : rec[i] # Nothing /\ rec[i].state = s /\ j = [id |-> i, work |-> rec[i].work]
  BY DEF Listed
<1>2. rec[i] \in RecordOf
  BY <1>1 DEF Typed, DataTyped
<1> QED
  BY <1>1, <1>2 DEF JobOf, RecordOf

LEMMA ListedHas ==
  ASSUME Typed, NEW s, NEW i \in Id, rec[i] # Nothing
  PROVE  Pair(i, rec[i].work) \in Listed(s) <=> rec[i].state = s
<1>1. rec[i] \in RecordOf /\ Pair(i, rec[i].work).id = i
  BY JobFields DEF Typed, DataTyped
<1>2. ASSUME rec[i].state = s
      PROVE  Pair(i, rec[i].work) \in Listed(s)
  BY <1>2 DEF Listed, Pair
<1>3. ASSUME Pair(i, rec[i].work) \in Listed(s)
      PROVE  rec[i].state = s
  <2> DEFINE j == Pair(i, rec[i].work)
  <2>1. j \in Listed(s) /\ j.id = i
    BY <1>1, <1>3
  <2> HIDE DEF j
  <2>2. rec[j.id] = [work |-> j.work, state |-> s]
    BY <2>1, ListedTyped
  <2> QED
    BY <2>1, <2>2
<1> QED
  BY <1>2, <1>3

LEMMA PersistTyped ==
  ASSUME Typed, NEW i \in Id, NEW s \in RecordState, Persist(i, s)
  PROVE  rec' \in [Id -> RecordOf \cup {Nothing}]
  BY JobFields DEF Typed, DataTyped, Persist
-----------------------------------------------------------------------------
(* Types. *)

LEMMA TypedCaller ==
  ASSUME Typed, Submit \/ Recover \/ CallNext
  PROVE  Typed'
<1> USE JobFields DEF Typed, DataTyped, WorkersTyped, CallerTyped, HistoryTyped, Carrying,
        workerVars, callerVars, historyVars
<1>1. CASE Submit
  BY <1>1 DEF Submit, JobOf
<1>2. CASE PersistNew
  <2>1. mjob.id \in Id /\ "Pending" \in RecordState
    BY <1>2 DEF PersistNew, RecordState, Unfinished
  <2> QED
    BY <1>2, <2>1, PersistTyped DEF PersistNew
<1>3. CASE Push
  <2>1. mjob \in JobOf /\ queue' \in Seq(JobOf)
    BY <1>3 DEF Push, PushTo
  <2> QED
    BY <1>3, <2>1 DEF Push, PushTo
<1>4. CASE Recover
  <2>1. todo' \subseteq JobOf
    BY <1>4, ListedTyped DEF Recover
  <2> QED
    BY <1>4, <2>1 DEF Recover, Unfinished
<1>5. CASE Pick
  BY <1>5 DEF Pick
<1>6. CASE Resubmit
  BY <1>6 DEF Resubmit
<1>7. CASE ResubmitRefused
  BY <1>7 DEF ResubmitRefused
<1>8. CASE NextPass
  <2>1. todo' \subseteq JobOf
    BY <1>8, ListedTyped DEF NextPass
  <2> QED
    BY <1>8, <2>1 DEF NextPass, Unfinished
<1>9. CASE Return
  BY <1>9 DEF Return
<1> QED
  BY <1>1, <1>2, <1>3, <1>4, <1>5, <1>6, <1>7, <1>8, <1>9 DEF CallNext

LEMMA TypedWorker ==
  ASSUME Typed, Naming, NEW w \in Worker, WorkerNext(w)
  PROVE  Typed'
<1> USE JobFields DEF Typed, DataTyped, WorkersTyped, CallerTyped, HistoryTyped, Carrying,
        WorkerStep, workerVars, callerVars, historyVars
<1>1. CASE Take(w)
  <2>1. PICK n \in 1..Len(queue) :
          wjob' = [wjob EXCEPT ![w] = queue[n]] /\ queue' = RemoveAt(queue, n)
    BY <1>1 DEF Take
  <2>2. queue' \in Seq(JobOf) /\ queue[n] \in JobOf
    BY <2>1, Removed
  <2>3. wjob' \in [Worker -> JobOf \cup {Nothing}] /\ wjob'[w] # Nothing
    BY <2>1, <2>2
  <2> QED
    BY <1>1, <2>1, <2>2, <2>3 DEF Take
<1>2. CASE Begin(w)
  <2>1. wjob[w].id \in Id /\ "Running" \in RecordState
    BY <1>2 DEF Begin, RecordState, Unfinished
  <2> QED
    BY <1>2, <2>1, PersistTyped DEF Begin
<1>3. CASE Execute(w)
  BY <1>3 DEF Execute
<1>4. CASE End(w)
  <2>1. wjob[w] \in JobOf /\ "Ended" \in RecordState
    BY <1>4 DEF End, RecordState
  <2>2. Names(wjob[w].id, wjob[w].work)
    BY <2>1 DEF Names
  <2>3. wjob[w].work \in given
    BY <2>1, <2>2 DEF Naming
  <2> QED
    BY <1>4, <2>1, <2>3, PersistTyped DEF End
<1> QED
  BY <1>1, <1>2, <1>3, <1>4 DEF WorkerNext

LEMMA TypedStep ==
  ASSUME Typed, Naming, [Next]_vars
  PROVE  Typed'
<1>1. CASE Start \/ Stop \/ UNCHANGED vars
  BY <1>1 DEF Start, Stop, vars, Typed, DataTyped, WorkersTyped, CallerTyped, HistoryTyped,
     Carrying, workerVars, callerVars, historyVars
<1>2. CASE Restart
  <2>1. DataTyped'
    <3>1. rec' \in [Id -> RecordOf \cup {Nothing}] /\ lastId' \in Nat
      BY <1>2 DEF Restart, Typed, DataTyped
    <3>2. submitted' \in [Id -> Work \cup {Nothing}]
      BY <1>2 DEF Restart
    <3>3. queue' = <<>> /\ started' = FALSE /\ stopped' = FALSE
      BY <1>2 DEF Restart
    <3>4. <<>> \in Seq(JobOf)
      OBVIOUS
    <3> QED
      BY <3>1, <3>2, <3>3, <3>4 DEF DataTyped
  <2>4. HistoryTyped'
    <3>1. epoch' \in Nat
      BY <1>2 DEF Restart, Typed, HistoryTyped
    <3>2. recovered' \in BOOLEAN /\ raced' \in BOOLEAN
      BY <1>2 DEF Restart, Typed, HistoryTyped
    <3> QED
      BY <1>2, <3>1, <3>2 DEF Restart, Typed, HistoryTyped
  <2>2. WorkersTyped'
    BY <1>2 DEF Restart, WorkersTyped
  <2>3. CallerTyped'
    BY <1>2 DEF Restart, CallerTyped, Carrying
  <2> QED
    BY <2>1, <2>2, <2>3, <2>4 DEF Typed
<1> QED
  BY <1>1, <1>2, TypedCaller, TypedWorker DEF Next
-----------------------------------------------------------------------------
(* Ids and works. *)

LEMMA NoNewNames ==
  ASSUME Typed, Typed', Naming, given \subseteq given',
         epoch' = 0 => epoch = 0 /\ lastId' = lastId,
         \A i \in Id, k \in Work : Names(i, k)' => Names(i, k)
  PROVE  Naming'
  BY DEF Naming

\* A record that is written gets the work that its id was submitted with.
LEMMA PersistNames ==
  ASSUME Typed, NEW n \in Id, NEW s \in RecordState, Persist(n, s),
         NEW i \in Id, NEW k \in Work, rec'[i] # Nothing, rec'[i].work = k
  PROVE  Names(i, k)
<1>1. CASE rec'[i] = rec[i]
  BY <1>1 DEF Names
<1>2. CASE rec'[i] # rec[i]
  <2>1. i = n /\ submitted[n] # Nothing /\ rec'[i] = [work |-> submitted[n], state |-> s]
    BY <1>2 DEF Persist, Typed, DataTyped
  <2> QED
    BY <2>1 DEF Names
<1> QED
  BY <1>1, <1>2

LEMMA SubmitNames ==
  ASSUME Typed, Typed', Naming, Submit, ~Resubmits
  PROVE  Naming'
<1>1. PICK k \in Work \ given :
        /\ given' = given \cup {k} /\ mjob' = Pair(lastId + 1, k)
        /\ submitted' = [submitted EXCEPT ![lastId + 1] = k]
  BY DEF Submit, Pair
<1>2. /\ lastId' = lastId + 1 /\ lastId + 1 \in Id /\ UNCHANGED <<rec, queue, wjob, todo, epoch>>
      /\ epoch = 0
  BY DEF Submit, workerVars, Typed, HistoryTyped
<1>3. lastId \in Nat /\ submitted \in [Id -> Work \cup {Nothing}] /\ Id \subseteq Int
  BY DEF Typed, DataTyped, Id
<1>4. ASSUME NEW i \in Id, NEW l \in Work, Names(i, l)'
      PROVE  Names(i, l) \/ (i = lastId + 1 /\ l = k)
  BY <1>1, <1>2, <1>3, <1>4, JobFields DEF Names
<1>5. \A i \in Id, l \in Work : Names(i, l) => l \in given /\ l # k /\ i <= lastId
  BY <1>1, <1>2 DEF Naming
<1>6. \A i \in Id, l \in Work : Names(i, l)' => l \in given' /\ i <= lastId'
  BY <1>1, <1>2, <1>3, <1>4, <1>5
<1>7. \A i, j \in Id, l, m \in Work :
        Names(i, l)' /\ Names(j, m)' => (i = j => l = m) /\ (l = m => i = j)
  BY <1>3, <1>4, <1>5 DEF Naming
<1> QED
  BY <1>6, <1>7 DEF Naming

LEMMA CallerNames ==
  ASSUME Typed, Typed', Naming, Recover \/ CallNext
  PROVE  Naming'
<1>1. given' = given /\ epoch' = epoch /\ lastId' = lastId
  BY DEF CallNext, Recover, PersistNew, Push, PushTo, Pick, Resubmit, ResubmitRefused, NextPass,
     Return, historyVars
<1> SUFFICES ASSUME NEW i \in Id, NEW k \in Work, Names(i, k)'
             PROVE  Names(i, k)
  BY <1>1, NoNewNames
<1> USE JobFields DEF Names, workerVars
<1>8. CASE PersistNew
  <2>1. mjob.id \in Id /\ "Pending" \in RecordState
    BY <1>8 DEF PersistNew, RecordState, Unfinished, Typed, CallerTyped, Carrying
  <2>2. rec'[i] # Nothing /\ rec'[i].work = k => Names(i, k)
    BY <1>8, <2>1, PersistNames DEF PersistNew
  <2> QED
    BY <1>8, <2>2 DEF PersistNew
<1>2. CASE Push
  <2>1. queue' = Append(queue, mjob) /\ UNCHANGED <<rec, submitted, wjob, mjob, todo>>
    BY <1>2 DEF Push, PushTo
  <2>2. queue \in Seq(JobOf)
    BY DEF Typed, DataTyped
  <2>3. (\E n \in 1..Len(queue') : queue'[n] = Pair(i, k)) => Names(i, k)
    BY <2>1, <2>2
  <2> QED
    BY <2>1, <2>3
<1>3. CASE Recover
  <2>1. \A j \in todo' : rec[j.id] = [work |-> j.work, state |-> "Pending"]
    BY <1>3, ListedTyped DEF Recover
  <2>2. rec \in [Id -> RecordOf \cup {Nothing}]
    BY DEF Typed, DataTyped
  <2>3. Pair(i, k) \in todo' => rec[i] = [work |-> k, state |-> "Pending"]
    BY <2>1
  <2>4. "Pending" \in RecordState
    BY DEF RecordState, Unfinished
  <2>5. Pair(i, k) \in todo' => rec[i] # Nothing /\ rec[i].work = k
    BY <2>3, <2>4
  <2> QED
    BY <1>3, <2>5 DEF Recover
<1>4. CASE NextPass
  <2>1. \A j \in todo' : rec[j.id] = [work |-> j.work, state |-> "Running"]
    BY <1>4, ListedTyped DEF NextPass
  <2>3. Pair(i, k) \in todo' => rec[i] = [work |-> k, state |-> "Running"]
    BY <2>1
  <2>4. "Running" \in RecordState
    BY DEF RecordState, Unfinished
  <2>5. Pair(i, k) \in todo' => rec[i] # Nothing /\ rec[i].work = k
    BY <2>3, <2>4
  <2> QED
    BY <1>4, <2>5 DEF NextPass
<1>5. CASE Pick
  <2>1. PICK j \in todo : /\ todo' = todo \ {j}
                          /\ rec' = rec \/ rec' = [rec EXCEPT ![j.id] = Nothing]
                          /\ mjob' = mjob \/ mjob' = j
    BY <1>5 DEF Pick
  <2>2. rec \in [Id -> RecordOf \cup {Nothing}]
    BY DEF Typed, DataTyped
  <2>3. rec'[i] # Nothing => rec'[i] = rec[i]
    BY <2>1, <2>2
  <2> QED
    BY <1>5, <2>1, <2>3 DEF Pick
<1>6. CASE Resubmit
  <2>1. submitted' = [submitted EXCEPT ![mjob.id] = mjob.work] /\ mjob \in JobOf
    BY <1>6 DEF Resubmit, Typed, CallerTyped, Carrying
  <2>2. submitted \in [Id -> Work \cup {Nothing}]
    BY DEF Typed, DataTyped
  <2>3. submitted'[i] = k => submitted[i] = k \/ mjob = Pair(i, k)
    BY <2>1, <2>2
  <2> QED
    BY <1>6, <2>3 DEF Resubmit
<1>7. CASE ResubmitRefused \/ Return
  BY <1>7 DEF ResubmitRefused, Return
<1> QED
  BY <1>8, <1>2, <1>3, <1>4, <1>5, <1>6, <1>7 DEF CallNext

LEMMA WorkerNames ==
  ASSUME Typed, Typed', Naming, NEW w \in Worker, WorkerNext(w)
  PROVE  Naming'
<1>1. given' = given /\ epoch' = epoch /\ lastId' = lastId
      /\ UNCHANGED <<submitted, mjob, todo>>
  BY DEF WorkerNext, Take, Begin, Execute, End, WorkerStep, callerVars
<1> SUFFICES ASSUME NEW i \in Id, NEW k \in Work, Names(i, k)'
             PROVE  Names(i, k)
  BY <1>1, NoNewNames
<1>2. wjob \in [Worker -> JobOf \cup {Nothing}]
  BY DEF Typed, WorkersTyped
<1>3. CASE Take(w)
  <2>1. PICK n \in 1..Len(queue) :
          wjob' = [wjob EXCEPT ![w] = queue[n]] /\ queue' = RemoveAt(queue, n) /\ rec' = rec
    BY <1>3 DEF Take
  <2>2. queue \in Seq(JobOf)
    BY DEF Typed, DataTyped
  <2>3. (\E m \in 1..Len(queue') : queue'[m] = Pair(i, k)) => Names(i, k)
    <3> SUFFICES ASSUME NEW m \in 1..Len(queue'), queue'[m] = Pair(i, k)
                 PROVE  \E l \in 1..Len(queue) : queue[l] = Pair(i, k)
      BY DEF Names
    <3>1. m \in 1..Len(queue) - 1 /\ (queue'[m] = IF m < n THEN queue[m] ELSE queue[m + 1])
      BY <2>1, <2>2, Removed
    <3>2. Len(queue) \in Nat /\ m \in 1..Len(queue) /\ m + 1 \in 1..Len(queue)
      BY <2>2, <3>1
    <3> QED
      BY <3>1, <3>2
  <2>4. (\E v \in Worker : wjob'[v] = Pair(i, k)) => Names(i, k)
    BY <1>2, <2>1 DEF Names
  <2> QED
    BY <1>1, <2>1, <2>3, <2>4 DEF Names
<1>4. ASSUME NEW s \in RecordState, Persist(wjob[w].id, s), queue' = queue,
             wpc[w] # "idle", wjob' = wjob \/ wjob' = [wjob EXCEPT ![w] = Nothing]
      PROVE  Names(i, k)
  <2>1. wjob[w].id \in Id
    BY <1>2, <1>4, JobFields DEF Typed, WorkersTyped
  <2>2. rec'[i] # Nothing /\ rec'[i].work = k => Names(i, k)
    BY <1>4, <2>1, PersistNames
  <2>3. (\E v \in Worker : wjob'[v] = Pair(i, k)) => Names(i, k)
    BY <1>2, <1>4, JobFields DEF Names
  <2> QED
    BY <1>1, <1>4, <2>2, <2>3 DEF Names
<1>5. CASE Begin(w)
  <2>1. "Running" \in RecordState
    BY DEF RecordState, Unfinished
  <2> QED
    BY <1>4, <1>5, <2>1 DEF Begin, WorkerStep
<1>6. CASE Execute(w)
  BY <1>1, <1>6 DEF Execute, Names
<1>7. CASE End(w)
  <2>1. "Ended" \in RecordState
    BY DEF RecordState, Unfinished
  <2> QED
    BY <1>4, <1>7, <2>1 DEF End, WorkerStep
<1> QED
  BY <1>3, <1>5, <1>6, <1>7 DEF WorkerNext

LEMMA NamingStep ==
  ASSUME Typed, Typed', Naming, [Next]_vars, ~Resubmits
  PROVE  Naming'
<1>1. CASE Start \/ Stop \/ UNCHANGED vars
  <2>1. UNCHANGED <<rec, submitted, queue, wjob, mjob, todo, given, epoch, lastId>>
    BY <1>1 DEF Start, Stop, vars, workerVars, callerVars, historyVars
  <2> QED
    BY <2>1 DEF Naming, Names
<1>2. CASE Restart
  <2>1. /\ rec' = rec /\ given' = given /\ epoch' = epoch + 1 /\ epoch \in Nat
        /\ submitted' = [i \in Id |-> Nothing] /\ queue' = <<>>
        /\ wjob' = [w \in Worker |-> Nothing] /\ mjob' = Nothing /\ todo' = {}
    BY <1>2 DEF Restart, Typed, HistoryTyped
  <2>2. \A i \in Id, k \in Work : Names(i, k)' => Names(i, k)
    BY <2>1, JobFields DEF Names
  <2> QED
    BY <2>1, <2>2, NoNewNames
<1> QED
  BY <1>1, <1>2, SubmitNames, CallerNames, WorkerNames DEF Next
-----------------------------------------------------------------------------
(* No work is forgotten. *)

LEMMA RecordsOf ==
  ASSUME Typed
  PROVE  /\ rec \in [Id -> RecordOf \cup {Nothing}]
         /\ \A i \in Id : rec[i] # Nothing => Names(i, rec[i].work) /\ rec[i].work \in Work
  BY JobFields DEF Typed, DataTyped, Names

\* A section that writes an unfinished record forgets none.
LEMMA PersistKeeps ==
  ASSUME Typed, Naming, NEW i \in Id, NEW s \in Unfinished, Persist(i, s), NEW k, Recorded(k)
  PROVE  Recorded(k)'
<1>1. PICK n \in Id : rec[n] # Nothing /\ rec[n].work = k /\ rec[n].state \in Unfinished
  BY DEF Recorded
<1>2. CASE rec'[n] = rec[n]
  BY <1>1, <1>2 DEF Recorded
<1>3. CASE rec'[n] # rec[n]
  <2>1. n = i /\ submitted[i] # Nothing /\ rec'[i] = [work |-> submitted[i], state |-> s]
    BY <1>3 DEF Persist, Typed, DataTyped
  <2>2. submitted[i] \in Work /\ s \in RecordState
    BY <2>1 DEF Typed, DataTyped, RecordState
  <2>3. Names(i, submitted[i]) /\ Names(i, k) /\ k \in Work
    BY <1>1, <2>1, RecordsOf DEF Names
  <2>4. k = submitted[i]
    BY <2>2, <2>3 DEF Naming
  <2> QED
    BY <2>1, <2>2, <2>4, JobFields DEF Recorded
<1> QED
  BY <1>2, <1>3

\* A step of the caller that is not submit, in parts.
LEMMA KeptCaller ==
  ASSUME RecordInv, Typed', Submit \/ Recover \/ CallNext
  PROVE  Kept'
<1> USE DEF RecordInv, Kept, UnfinishedRecorded
<1>1. CASE Submit
  <2>1. /\ UNCHANGED <<rec, accepted, settled, lost>> /\ mpc' = "persist" /\ mpc = "ready"
        /\ lastId + 1 \in Id
        /\ \E k \in Work : /\ mjob' = [id |-> lastId + 1, work |-> k]
                           /\ submitted' = [submitted EXCEPT ![lastId + 1] = k]
    BY <1>1 DEF Submit
  <2>2. ~Holding
    BY <2>1 DEF Holding
  <2>3. submitted'[mjob'.id] = mjob'.work
    BY <2>1 DEF Typed, DataTyped
  <2> QED
    BY <2>1, <2>2, <2>3
<1>2. CASE PersistNew
  <2>1. /\ Persist(mjob.id, "Pending") /\ mpc = "persist" /\ mpc' = "push"
        /\ UNCHANGED <<submitted, mjob, accepted, settled, lost>>
    BY <1>2 DEF PersistNew, historyVars
  <2>2. mjob \in JobOf /\ "Pending" \in Unfinished /\ "Pending" \in RecordState
    BY <2>1 DEF Typed, CallerTyped, Carrying, RecordState, Unfinished
  <2>3. submitted[mjob.id] = mjob.work /\ mjob.work # Nothing
    BY <2>1, <2>2, JobFields
  <2>4. rec'[mjob.id] = [work |-> mjob.work, state |-> "Pending"]
    BY <2>1, <2>2, <2>3, JobFields DEF Persist, Typed, DataTyped
  <2>5. Recorded(mjob.work)'
    BY <2>1, <2>2, <2>4, JobFields DEF Recorded
  <2>6. \A k : Recorded(k) => Recorded(k)'
    BY <2>1, <2>2, PersistKeeps, JobFields
  <2> QED
    BY <2>1, <2>5, <2>6 DEF Recorded
<1>3. CASE Push
  <2>1. /\ UNCHANGED <<rec, submitted, mjob, settled, lost>> /\ mpc = "push"
        /\ mpc' \in {"ready", "pick"} /\ accepted' = accepted \cup {mjob.work}
    BY <1>3 DEF Push, PushTo
  <2>2. ~Holding
    BY <2>1 DEF Holding
  <2> QED
    BY <2>1, <2>2 DEF Recorded
<1>4. CASE Recover \/ NextPass \/ Return
  <2>1. /\ UNCHANGED <<rec, submitted, mjob, accepted, settled, lost>>
        /\ mpc \in {"ready", "pick"} /\ mpc' \in {"ready", "pick"}
    BY <1>4 DEF Recover, NextPass, Return, historyVars
  <2>2. ~Holding
    BY <2>1 DEF Holding
  <2> QED
    BY <2>1, <2>2
<1>5. CASE Pick
  <2>1. /\ mpc = "pick" /\ UNCHANGED <<submitted, accepted, settled, lost, pass>>
        /\ pass # Nothing
    BY <1>5 DEF Pick, historyVars, Typed, CallerTyped
  <2>2. PICK j \in todo : \/ UNCHANGED <<rec, mpc, mjob>>
                          \/ /\ rec' = [rec EXCEPT ![j.id] = Nothing]
                             /\ mjob' = j /\ mpc' = "resubmit"
    BY <1>5 DEF Pick
  <2>3. ~Holding /\ j \in JobOf
    BY <2>1 DEF Holding, Typed, CallerTyped
  <2>4. CASE UNCHANGED <<rec, mpc, mjob>>
    BY <2>1, <2>3, <2>4
  <2>5. CASE rec' = [rec EXCEPT ![j.id] = Nothing] /\ mjob' = j /\ mpc' = "resubmit"
    <3>1. Holding'
      BY <2>1, <2>5 DEF Holding
    <3> SUFFICES ASSUME NEW k \in accepted, k \notin settled, k \notin lost
                 PROVE  mjob'.work = k \/ Recorded(k)'
      BY <2>1, <2>5, <3>1 DEF Recorded
    <3>2. PICK i \in Id : rec[i] # Nothing /\ rec[i].work = k /\ rec[i].state \in Unfinished
      BY <2>3
    <3>3. CASE i = j.id
      <4>1. Names(i, k) /\ Names(i, j.work) /\ k \in Work /\ j.work \in Work
        BY <2>3, <3>2, <3>3, RecordsOf, JobFields DEF Names
      <4> QED
        BY <2>5, <4>1 DEF Naming
    <3>4. CASE i # j.id
      BY <2>5, <3>2, <3>4, RecordsOf DEF Recorded
    <3> QED
      BY <3>3, <3>4
  <2> QED
    BY <2>2, <2>4, <2>5
<1>6. CASE Resubmit
  <2>1. /\ mpc = "resubmit" /\ mpc' = "persist" /\ mjob \in JobOf
        /\ UNCHANGED <<rec, mjob, pass, accepted, settled, lost>>
        /\ submitted' = [submitted EXCEPT ![mjob.id] = mjob.work]
    BY <1>6 DEF Resubmit, historyVars, Typed, CallerTyped, Carrying
  <2>2. submitted'[mjob'.id] = mjob'.work
    BY <2>1, JobFields DEF Typed, DataTyped
  <2> QED
    BY <2>1, <2>2 DEF Holding
<1>7. CASE ResubmitRefused
  BY <1>7 DEF ResubmitRefused, Holding
<1> QED
  BY <1>1, <1>2, <1>3, <1>4, <1>5, <1>6, <1>7 DEF CallNext

LEMMA KeptWorker ==
  ASSUME RecordInv, Typed', NEW w \in Worker, WorkerNext(w)
  PROVE  Kept'
<1> USE DEF RecordInv, Kept, UnfinishedRecorded
<1>1. UNCHANGED <<submitted, mpc, mjob, pass, accepted, lost>>
  BY DEF WorkerNext, Take, Begin, Execute, End, WorkerStep, callerVars
<1>2. ASSUME settled \subseteq settled', \A k : Recorded(k) => k \in settled' \/ Recorded(k)'
      PROVE  Kept'
  BY <1>1, <1>2 DEF Holding, Recorded
<1>3. CASE Take(w) \/ Execute(w)
  BY <1>2, <1>3 DEF Take, Execute, Recorded
<1>4. CASE Begin(w)
  <2>1. Persist(wjob[w].id, "Running") /\ settled' = settled /\ wjob[w].id \in Id
    BY <1>4, JobFields DEF Begin, WorkerStep, Typed, WorkersTyped
  <2>2. "Running" \in Unfinished
    BY DEF Unfinished
  <2> QED
    BY <1>2, <2>1, <2>2, PersistKeeps
<1>5. CASE End(w)
  <2>1. /\ Persist(wjob[w].id, "Ended") /\ wjob[w] \in JobOf
        /\ settled' = settled \cup {wjob[w].work}
    BY <1>5, JobFields DEF End, WorkerStep, Typed, WorkersTyped
  <2>2. ASSUME NEW k, Recorded(k), k # wjob[w].work
        PROVE  Recorded(k)'
    <3>1. PICK i \in Id : rec[i] # Nothing /\ rec[i].work = k /\ rec[i].state \in Unfinished
      BY <2>2 DEF Recorded
    <3>2. i # wjob[w].id
      <4>1. SUFFICES ASSUME i = wjob[w].id PROVE FALSE
        OBVIOUS
      <4>2. Names(i, k) /\ Names(i, wjob[w].work) /\ k \in Work /\ wjob[w].work \in Work
        BY <2>1, <3>1, <4>1, RecordsOf, JobFields DEF Names
      <4> QED
        BY <2>2, <4>2 DEF Naming
    <3>3. rec'[i] = rec[i]
      BY <2>1, <3>2, RecordsOf DEF Persist
    <3> QED
      BY <3>1, <3>3 DEF Recorded
  <2> QED
    BY <1>2, <2>1, <2>2
<1> QED
  BY <1>3, <1>4, <1>5 DEF WorkerNext

LEMMA RecordStep ==
  ASSUME RecordInv, [Next]_vars, ~Resubmits
  PROVE  RecordInv'
<1>1. Typed' /\ Naming'
  BY TypedStep, NamingStep DEF RecordInv
<1>2. CASE Start \/ Stop \/ UNCHANGED vars
  BY <1>1, <1>2 DEF RecordInv, Kept, UnfinishedRecorded, Recorded, Holding, Start, Stop, vars,
     callerVars, historyVars
<1>3. CASE Restart
  <2>1. /\ UNCHANGED <<rec, accepted, settled>> /\ mpc' = "ready"
        /\ lost' = IF Holding THEN lost \cup {mjob.work} ELSE lost
    BY <1>3 DEF Restart
  <2>2. Kept'
    BY <2>1 DEF RecordInv, Kept, UnfinishedRecorded
  <2> QED
    BY <1>1, <2>2 DEF RecordInv
<1> QED
  BY <1>1, <1>2, <1>3, KeptCaller, KeptWorker DEF RecordInv, Next

LEMMA RecordInit == Init => RecordInv
<1> SUFFICES ASSUME Init PROVE Typed /\ Naming /\ Kept
  BY DEF RecordInv
<1>1. Typed
  <2>1. <<>> \in Seq(JobOf)
    OBVIOUS
  <2>2. DataTyped
    BY <2>1 DEF Init, DataTyped
  <2> QED
    BY <2>2 DEF Init, Typed, WorkersTyped, CallerTyped, HistoryTyped, Carrying
<1>2. Naming
  BY JobFields DEF Init, Naming, Names
<1>3. Kept
  BY DEF Init, Kept, UnfinishedRecorded
<1> QED
  BY <1>1, <1>2, <1>3

(* Whenever a process ends, each accepted work without an outcome has an
   unfinished record or is in the hands of a recovery, whatever crashes, stops
   and recoveries came before, even while workers run. *)
THEOREM RecordsSurvive ==
  ASSUME ~Resubmits
  PROVE  Spec => []UnfinishedRecorded
<1>1. RecordInv /\ [Next]_vars => RecordInv'
  BY RecordStep
<1>2. RecordInv => UnfinishedRecorded
  BY DEF RecordInv, Kept
<1> QED
  BY <1>1, <1>2, RecordInit, PTL DEF Spec
-----------------------------------------------------------------------------
(* Recovery brings each job back once. *)

\* A record or a place that names the work of another names its id as well.
LEMMA SameId ==
  ASSUME Typed, Naming
  PROVE  /\ \A m, n \in 1..Len(queue) : queue[m].work = queue[n].work => queue[m].id = queue[n].id
         /\ \A n \in 1..Len(queue) : queue[n] \in JobOf /\ Names(queue[n].id, queue[n].work)
         /\ \A w \in Worker : wjob[w] # Nothing => /\ wjob[w] \in JobOf
                                                   /\ Names(wjob[w].id, wjob[w].work)
         /\ mjob # Nothing => mjob \in JobOf /\ Names(mjob.id, mjob.work)
         /\ \A j \in todo : j \in JobOf /\ Names(j.id, j.work)
<1>1. queue \in Seq(JobOf) /\ mjob \in JobOf \cup {Nothing} /\ todo \subseteq JobOf
      /\ wjob \in [Worker -> JobOf \cup {Nothing}]
  BY DEF Typed, DataTyped, CallerTyped, WorkersTyped
<1>2. \A n \in 1..Len(queue) : queue[n] \in JobOf /\ Names(queue[n].id, queue[n].work)
  BY <1>1, JobFields DEF Names
<1>3. \A m, n \in 1..Len(queue) : queue[m].work = queue[n].work => queue[m].id = queue[n].id
  BY <1>2, JobFields DEF Naming
<1>4. \A w \in Worker : wjob[w] # Nothing => /\ wjob[w] \in JobOf
                                             /\ Names(wjob[w].id, wjob[w].work)
  BY <1>1, JobFields DEF Names
<1>5. mjob # Nothing => mjob \in JobOf /\ Names(mjob.id, mjob.work)
  BY <1>1, JobFields DEF Names
<1>6. \A j \in todo : j \in JobOf /\ Names(j.id, j.work)
  BY <1>1, JobFields DEF Names
<1> QED
  BY <1>2, <1>3, <1>4, <1>5, <1>6

\* Two places with the same id hold the same job, and with the same work too.
LEMMA SameJob ==
  ASSUME Naming, NEW a \in JobOf, NEW b \in JobOf, Names(a.id, a.work), Names(b.id, b.work)
  PROVE  (a.id = b.id <=> a.work = b.work) /\ (a.id = b.id => a = b)
  BY JobFields DEF Naming

LEMMA OnceSubmit ==
  ASSUME RecordInv, Once, Submit, ~Resubmits
  PROVE  Once'
<1>1. /\ UNCHANGED <<rec, queue, started, stopped, wjob, pass, todo, epoch, recovered, settled>>
      /\ mpc = "ready" /\ mpc' = "persist" /\ lastId + 1 \in Id /\ epoch = 0 /\ pass = Nothing
  BY DEF Submit, workerVars, RecordInv, Typed, HistoryTyped, CallerTyped
<1>2. PICK k \in Work \ given : /\ mjob' = Pair(lastId + 1, k)
                                /\ submitted' = [submitted EXCEPT ![lastId + 1] = k]
  BY DEF Submit, Pair
<1>3. \A i \in Id, l \in Work : Names(i, l) => i # lastId + 1
  BY <1>1 DEF RecordInv, Typed, DataTyped, Naming, Id
<1>4. k \notin settled /\ mjob'.id = lastId + 1 /\ mjob'.work = k
  BY <1>1, <1>2, JobFields DEF RecordInv, Typed, HistoryTyped
<1>5. /\ \A n \in 1..Len(queue) : queue[n].id # lastId + 1 /\ queue[n].id \in Id
      /\ \A w \in Worker : wjob[w] # Nothing => wjob[w].id # lastId + 1 /\ wjob[w].id \in Id
  BY <1>3, SameId, JobFields DEF RecordInv
<1>6. OnePlace'
  BY <1>1, <1>4, <1>5, JobFields, <1>2 DEF Once, OnePlace, Carrying
<1>7. AllPresent'
  <2>1. \A i \in Id : i # lastId + 1 => submitted'[i] = submitted[i]
    BY <1>2 DEF RecordInv, Typed, DataTyped
  <2> QED
    BY <1>1, <1>4, <1>5, <2>1 DEF Once, AllPresent, Present, Carrying
<1>8. Recovering'
  BY <1>1 DEF Recovering
<1>9. Calls'
  BY <1>1 DEF Once, Calls, Carrying
<1> QED
  BY <1>6, <1>7, <1>8, <1>9 DEF Once

LEMMA OncePersistNew ==
  ASSUME RecordInv, Once, PersistNew
  PROVE  Once'
<1>1. /\ UNCHANGED <<submitted, queue, started, stopped, wjob, pass, todo, epoch, recovered,
                     settled, mjob>>
      /\ mpc = "persist" /\ mpc' = "push" /\ Persist(mjob.id, "Pending") /\ mjob \in JobOf
      /\ submitted[mjob.id] = mjob.work
  BY DEF PersistNew, workerVars, historyVars, RecordInv, Typed, CallerTyped, Carrying, Kept
<1>2. rec' = [rec EXCEPT ![mjob.id] = [work |-> mjob.work, state |-> "Pending"]]
  BY <1>1, JobFields DEF Persist
<1>3. [work |-> mjob.work, state |-> "Pending"] # Nothing
  BY <1>1, JobFields DEF RecordState, Unfinished
<1>4. \A i \in Id : rec'[i] = IF i = mjob.id THEN [work |-> mjob.work, state |-> "Pending"]
                              ELSE rec[i]
  BY <1>2 DEF RecordInv, Typed, DataTyped
<1>5. /\ \A n \in 1..Len(queue) : queue[n].id # mjob.id /\ queue[n].id \in Id
      /\ \A w \in Worker : wjob[w] # Nothing => wjob[w].id # mjob.id /\ wjob[w].id \in Id
      /\ \A j \in todo : j.id \in Id
  <2>1. \A w \in Worker : wjob[w] # Nothing => wjob[w].id # mjob.id /\ wjob[w].id \in Id
    BY <1>1, SameId, SameJob, JobFields DEF RecordInv, Once, OnePlace, Carrying
  <2>2. \A n \in 1..Len(queue) : queue[n].id # mjob.id /\ queue[n].id \in Id
    BY <1>1, SameId, JobFields DEF RecordInv, Once, OnePlace, Carrying
  <2> QED
    BY <2>1, <2>2, SameId, JobFields DEF RecordInv
<1>6. OnePlace'
  BY <1>1 DEF Once, OnePlace, Carrying
<1>7. AllPresent'
  BY <1>1, <1>3, <1>4, <1>5, JobFields DEF Once, AllPresent, Present, Carrying
<1>8. Recovering'
  BY <1>1, <1>3, <1>4, <1>5, JobFields DEF Once, Recovering, Carrying
<1>9. Calls'
  BY <1>1 DEF Once, Calls, Carrying
<1> QED
  BY <1>6, <1>7, <1>8, <1>9 DEF Once

LEMMA OncePush ==
  ASSUME RecordInv, Once, Push
  PROVE  Once'
<1>1. /\ UNCHANGED <<rec, submitted, started, stopped, wjob, pass, todo, epoch, recovered,
                     settled, mjob>>
      /\ mpc = "push" /\ mpc' = (IF pass = Nothing THEN "ready" ELSE "pick")
      /\ queue' = Append(queue, mjob) /\ mjob \in JobOf /\ queue \in Seq(JobOf)
  BY DEF Push, PushTo, workerVars, RecordInv, Typed, CallerTyped, DataTyped, Carrying
<1>2. /\ Len(queue') = Len(queue) + 1 /\ Len(queue) \in Nat
      /\ \A n \in 1..Len(queue') : queue'[n] = IF n = Len(queue) + 1 THEN mjob ELSE queue[n]
  BY <1>1
<1>3. ~Carrying' /\ Carrying
  BY <1>1 DEF Carrying
<1>4. OnePlace'
  BY <1>1, <1>2, <1>3 DEF Once, OnePlace
<1>5. AllPresent'
  BY <1>1, <1>2, <1>3 DEF Once, AllPresent, Present
<1>6. Recovering'
  <2> SUFFICES ASSUME pass # Nothing
               PROVE  /\ epoch > 0 /\ ~recovered
                      /\ \A n \in 1..Len(queue') : rec[queue'[n].id].state = "Pending"
                      /\ \A j \in todo : /\ rec[j.id] = [work |-> j.work, state |-> pass]
                                         /\ \A n \in 1..Len(queue') : queue'[n].id # j.id
    BY <1>1, <1>3 DEF Recovering
  <2> QED
    BY <1>1, <1>2, <1>3 DEF Once, Recovering
<1>7. Calls'
  BY <1>1, <1>3 DEF Once, Calls, Recovering
<1> QED
  BY <1>4, <1>5, <1>6, <1>7 DEF Once

LEMMA OnceRecover ==
  ASSUME RecordInv, OnceInv, Recover, ~raced'
  PROVE  Once'
<1>1. /\ UNCHANGED <<rec, submitted, queue, started, stopped, wjob, epoch, recovered, settled>>
      /\ mpc = "ready" /\ mpc' = "pick" /\ pass' = "Pending" /\ todo' = Listed("Pending")
      /\ epoch > 0 /\ ~recovered /\ ~started /\ ~stopped /\ ~raced
  BY DEF Recover, workerVars
<1>2. Once /\ queue = <<>> /\ ~Carrying' /\ ~Carrying
  BY <1>1 DEF OnceInv, Once, Calls, Carrying
<1>3. OnePlace' /\ AllPresent'
  BY <1>1, <1>2 DEF Once, OnePlace, AllPresent, Present
<1>4. Recovering'
  BY <1>1, <1>2, ListedTyped DEF Recovering, RecordInv
<1>5. Calls'
  BY <1>1, <1>2 DEF Once, Calls
<1> QED
  BY <1>3, <1>4, <1>5 DEF Once

LEMMA OncePick ==
  ASSUME RecordInv, Once, Pick
  PROVE  Once'
<1>1. /\ UNCHANGED <<submitted, queue, started, stopped, wjob, pass, epoch, recovered, settled>>
      /\ mpc = "pick" /\ pass # Nothing
  BY DEF Pick, workerVars, historyVars, RecordInv, Typed, CallerTyped
<1>2. PICK j \in todo :
        /\ todo' = todo \ {j}
        /\ \/ UNCHANGED <<rec, mpc, mjob>>
           \/ rec' = [rec EXCEPT ![j.id] = Nothing] /\ mjob' = j /\ mpc' = "resubmit"
  BY DEF Pick
<1>3. CASE UNCHANGED <<rec, mpc, mjob>>
  BY <1>1, <1>2, <1>3 DEF Once, OnePlace, AllPresent, Present, Recovering, Calls, Carrying
<1>4. CASE rec' = [rec EXCEPT ![j.id] = Nothing] /\ mjob' = j /\ mpc' = "resubmit"
  <2>1. /\ rec[j.id] = [work |-> j.work, state |-> pass] /\ j \in JobOf /\ pass \in Unfinished
        /\ rec[j.id] # Nothing
        /\ \A n \in 1..Len(queue) : queue[n].id # j.id /\ queue[n].id \in Id
        /\ \A w \in Worker : wjob[w] = Nothing
        /\ Carrying' /\ epoch > 0 /\ ~recovered
    <3>1. \A n \in 1..Len(queue) : queue[n].id \in Id
      BY SameId, JobFields DEF RecordInv
    <3>2. rec[j.id] = [work |-> j.work, state |-> pass] /\ j \in JobOf /\ pass \in Unfinished
      BY <1>1, SameId DEF Once, Recovering, RecordInv, Typed, CallerTyped
    <3>3. rec[j.id] # Nothing
      BY <3>2, JobFields DEF RecordState
    <3> QED
      BY <1>1, <1>4, <3>1, <3>2, <3>3 DEF Once, Recovering, Calls, Carrying
  <2>2. \A i \in Id : rec'[i] = IF i = j.id THEN Nothing ELSE rec[i]
    BY <1>4 DEF RecordInv, Typed, DataTyped
  <2>3. OnePlace'
    BY <1>1, <1>4, <2>1, JobFields DEF Once, OnePlace
  <2>4. AllPresent'
    <3>1. j.work \notin settled
      BY <2>1, JobFields DEF Once, AllPresent
    <3>2. \A n \in 1..Len(queue) : Present(queue[n])'
      BY <1>1, <2>1, <2>2 DEF Once, AllPresent, Present
    <3> QED
      BY <1>1, <1>4, <2>1, <2>2, <3>1, <3>2 DEF Once, AllPresent
  <2>5. Recovering'
    <3>1. ASSUME NEW k \in todo'
          PROVE  /\ rec'[k.id] = [work |-> k.work, state |-> pass] /\ k.id # j.id
                 /\ \A n \in 1..Len(queue) : queue[n].id # k.id
      <4>1. k \in todo /\ k # j /\ k \in JobOf /\ rec[k.id] = [work |-> k.work, state |-> pass]
        BY <1>1, <1>2, <3>1, SameId DEF RecordInv, Once, Recovering
      <4>2. k.id # j.id
        BY <2>1, <4>1, SameId, SameJob DEF RecordInv
      <4> QED
        BY <1>1, <2>2, <4>1, <4>2, JobFields DEF Once, Recovering
    <3>2. \A n \in 1..Len(queue) : rec'[queue[n].id].state = "Pending"
      BY <1>1, <2>1, <2>2 DEF Once, Recovering
    <3> QED
      BY <1>1, <1>4, <2>1, <3>1, <3>2 DEF Recovering
  <2>6. Calls'
    BY <1>1, <1>4, <2>1 DEF Once, Calls
  <2> QED
    BY <2>3, <2>4, <2>5, <2>6 DEF Once
<1> QED
  BY <1>2, <1>3, <1>4

LEMMA OnceResubmit ==
  ASSUME RecordInv, Once, Resubmit
  PROVE  Once'
<1>1. /\ UNCHANGED <<rec, queue, started, stopped, wjob, pass, todo, epoch, recovered, settled,
                     mjob>>
      /\ submitted' = [submitted EXCEPT ![mjob.id] = mjob.work]
      /\ mpc = "resubmit" /\ mpc' = "persist" /\ mjob \in JobOf /\ pass # Nothing
  BY DEF Resubmit, workerVars, historyVars, RecordInv, Typed, CallerTyped, Carrying
<1>2. \A n \in 1..Len(queue) : queue[n].id # mjob.id /\ queue[n].id \in Id
  BY <1>1, SameId, JobFields DEF RecordInv, Once, OnePlace, Carrying
<1>3. \A w \in Worker : wjob[w] = Nothing
  BY <1>1 DEF Once, Recovering, Calls
<1>4. \A i \in Id : i # mjob.id => submitted'[i] = submitted[i]
  BY <1>1 DEF RecordInv, Typed, DataTyped
<1> QED
  BY <1>1, <1>2, <1>3, <1>4
     DEF Once, OnePlace, AllPresent, Present, Recovering, Calls, Carrying

LEMMA OnceCallEnds ==
  ASSUME RecordInv, Once, ResubmitRefused \/ NextPass \/ Return \/ Stop
  PROVE  Once'
<1>1. UNCHANGED <<rec, submitted, queue, started, wjob, epoch, settled, mjob>>
  BY DEF ResubmitRefused, NextPass, Return, Stop, workerVars, callerVars, historyVars
<1>2. CASE ResubmitRefused
  BY <1>1, <1>2
     DEF ResubmitRefused, Once, OnePlace, AllPresent, Present, Recovering, Calls, Carrying
<1>3. CASE NextPass
  <2>1. \A j \in Listed("Running") : /\ rec[j.id] = [work |-> j.work, state |-> "Running"]
                                     /\ \A n \in 1..Len(queue) : queue[n].id # j.id
    BY <1>3, ListedTyped, JobFields DEF NextPass, Once, Recovering, RecordInv
  <2> QED
    BY <1>1, <1>3, <2>1, JobFields
       DEF NextPass, historyVars, Once, OnePlace, AllPresent, Present, Recovering, Calls, Carrying
<1>4. CASE Return
  BY <1>1, <1>4
     DEF Return, Once, OnePlace, AllPresent, Present, Recovering, Calls, Carrying
<1>5. CASE Stop
  BY <1>1, <1>5
     DEF Stop, callerVars, historyVars, Once, OnePlace, AllPresent, Present, Recovering, Calls,
         Carrying
<1> QED
  BY <1>2, <1>3, <1>4, <1>5

LEMMA OnceProcess ==
  ASSUME RecordInv, OnceInv, Start \/ Restart, ~raced'
  PROVE  Once'
<1>1. CASE Start
  BY <1>1 DEF Start, workerVars, callerVars, OnceInv, Once, OnePlace, AllPresent, Present,
     Recovering, Calls, Carrying
<1>2. CASE Restart
  <2>1. /\ UNCHANGED <<rec, settled, raced>> /\ queue' = <<>> /\ ~started' /\ mpc' = "ready"
        /\ pass' = Nothing /\ \A w \in Worker : wjob'[w] = Nothing
    BY <1>2 DEF Restart
  <2>2. ~Carrying' /\ Len(queue') = 0
    BY <2>1 DEF Carrying
  <2>3. Once
    BY <2>1 DEF OnceInv
  <2> QED
    BY <2>1, <2>2, <2>3 DEF Once, OnePlace, AllPresent, Recovering, Calls
<1> QED
  BY <1>1, <1>2

LEMMA OnceTake ==
  ASSUME RecordInv, Once, NEW w \in Worker, Take(w)
  PROVE  Once'
<1>1. /\ UNCHANGED <<rec, submitted, started, mpc, mjob, pass, todo, epoch, recovered, settled>>
      /\ started /\ wjob[w] = Nothing
  BY DEF Take, WorkerStep, callerVars, RecordInv, Typed, WorkersTyped
<1>2. pass = Nothing /\ (epoch > 0 => recovered)
  BY <1>1 DEF Once, Recovering, Calls
<1>3. PICK n \in 1..Len(queue) :
        wjob' = [wjob EXCEPT ![w] = queue[n]] /\ queue' = RemoveAt(queue, n)
  BY DEF Take
<1>4. /\ queue \in Seq(JobOf) /\ wjob \in [Worker -> JobOf \cup {Nothing}]
      /\ mjob \in JobOf \cup {Nothing} /\ (Carrying => mjob \in JobOf) /\ n \in Nat
      /\ \A v \in Worker : wjob'[v] = IF v = w THEN queue[n] ELSE wjob[v]
  BY <1>3 DEF RecordInv, Typed, DataTyped, WorkersTyped, CallerTyped
<1> DEFINE At(m) == IF m < n THEN m ELSE m + 1
<1>5. \A m \in 1..Len(queue') : At(m) \in 1..Len(queue) /\ At(m) # n /\ queue'[m] = queue[At(m)]
  <2>1. /\ Len(queue') = Len(queue) - 1
        /\ \A m \in 1..Len(queue) - 1 : queue'[m] = IF m < n THEN queue[m] ELSE queue[m + 1]
    BY <1>3, <1>4, Removed
  <2>2. Len(queue) \in Nat
    BY <1>4
  <2> QED
    BY <1>4, <2>1, <2>2
<1>6. \A m, p \in 1..Len(queue') : At(m) = At(p) => m = p
  BY <1>4
<1> HIDE DEF At
<1>7. OnePlace'
  <2>1. ASSUME NEW m \in 1..Len(queue'), NEW p \in 1..Len(queue'),
               queue'[m].id = queue'[p].id
        PROVE  m = p
    <3>1. At(m) \in 1..Len(queue) /\ At(p) \in 1..Len(queue)
          /\ queue[At(m)].id = queue[At(p)].id
      BY <1>5, <2>1
    <3>2. At(m) = At(p)
      BY <3>1 DEF Once, OnePlace
    <3> QED
      BY <1>6, <3>2
  <2>2. \A v, x \in Worker : wjob'[v] # Nothing /\ wjob'[v] = wjob'[x] => v = x
    BY <1>4 DEF Once, OnePlace
  <2>3. \A m \in 1..Len(queue') : \A v \in Worker : wjob'[v] # queue'[m]
    BY <1>4, <1>5 DEF Once, OnePlace
  <2>4. Carrying' => /\ \A m \in 1..Len(queue') : queue'[m].id # mjob'.id
                     /\ \A v \in Worker : wjob'[v] # mjob'
    BY <1>1, <1>4, <1>5 DEF Once, OnePlace, Carrying
  <2> QED
    BY <2>1, <2>2, <2>3, <2>4 DEF OnePlace
<1>8. AllPresent'
  BY <1>1, <1>4, <1>5 DEF Once, AllPresent, Present, Carrying
<1>9. Recovering' /\ Calls'
  BY <1>1, <1>2 DEF Once, Recovering, Calls, Carrying
<1> QED
  BY <1>7, <1>8, <1>9 DEF Once

\* A worker that has a job persists its state under the work of the job.
LEMMA OncePersist ==
  ASSUME RecordInv, Once, NEW w \in Worker, wjob[w] # Nothing,
         NEW s \in RecordState, Persist(wjob[w].id, s)
  PROVE  /\ wjob[w] \in JobOf /\ pass = Nothing /\ started /\ (epoch > 0 => recovered)
         /\ \A i \in Id : rec'[i] = IF i = wjob[w].id THEN [work |-> wjob[w].work, state |-> s]
                                    ELSE rec[i]
<1>1. wjob[w] \in JobOf /\ Present(wjob[w])
  BY SameId DEF RecordInv, Once, AllPresent
<1>2. submitted[wjob[w].id] # Nothing /\ submitted[wjob[w].id] = wjob[w].work
  BY <1>1, JobFields DEF Present
<1>3. pass = Nothing /\ started /\ (epoch > 0 => recovered)
  BY DEF Once, Recovering, Calls, RecordInv, Typed, DataTyped
<1> QED
  BY <1>1, <1>2, <1>3 DEF Persist, RecordInv, Typed, DataTyped

LEMMA OnceWorker ==
  ASSUME RecordInv, Once, NEW w \in Worker, WorkerNext(w)
  PROVE  Once'
<1>1. CASE Take(w)
  BY <1>1, OnceTake
<1>2. CASE Execute(w)
  BY <1>2 DEF Execute, WorkerStep, callerVars, Once, OnePlace, AllPresent, Present, Recovering,
     Calls, Carrying
<1> SUFFICES ASSUME Begin(w) \/ End(w)
             PROVE  Once'
  BY <1>1, <1>2 DEF WorkerNext
<1> DEFINE j == wjob[w]
           PresentThen(k) == /\ submitted'[k.id] = k.work /\ k.work \notin settled'
                             /\ rec'[k.id] # Nothing /\ rec'[k.id].work = k.work
<1>3. /\ UNCHANGED <<submitted, queue, started, mpc, mjob, pass, todo, epoch, recovered>>
      /\ j # Nothing
  BY DEF Begin, End, WorkerStep, callerVars, RecordInv, Typed, WorkersTyped
<1>4. /\ \A n \in 1..Len(queue) : queue[n] \in JobOf /\ Names(queue[n].id, queue[n].work)
      /\ \A v \in Worker : wjob[v] # Nothing => wjob[v] \in JobOf /\ Names(wjob[v].id, wjob[v].work)
      /\ Carrying => mjob \in JobOf /\ Names(mjob.id, mjob.work)
      /\ \A k \in JobOf : Names(k.id, k.work) => /\ k.id = j.id <=> k.work = j.work
                                                 /\ k.id = j.id => k = j
  BY <1>3, SameId, SameJob, JobFields DEF RecordInv, Typed, CallerTyped
<1>5. "Running" \in RecordState /\ "Ended" \in RecordState
  BY DEF RecordState, Unfinished
<1>6. CASE Begin(w)
  <2>1. wjob' = wjob /\ settled' = settled /\ Persist(j.id, "Running")
    BY <1>6 DEF Begin
  <2>2. /\ j \in JobOf /\ pass = Nothing /\ (epoch > 0 => recovered)
        /\ \A i \in Id : rec'[i] = IF i = j.id THEN [work |-> j.work, state |-> "Running"]
                                   ELSE rec[i]
    BY <1>3, <1>5, <2>1, OncePersist
  <2>3. [work |-> j.work, state |-> "Running"] # Nothing /\ j.work \notin settled /\ j.id \in Id
    BY <1>3, <1>5, <2>2, JobFields DEF Once, AllPresent, Present
  <2>4. \A k \in JobOf : Present(k) /\ (k.id = j.id => k.work = j.work) => PresentThen(k)
    BY <1>3, <2>1, <2>2, <2>3, JobFields DEF Present
  <2> HIDE DEF PresentThen
  <2>5. \A n \in 1..Len(queue) : PresentThen(queue[n])
    BY <1>4, <2>4 DEF Once, AllPresent
  <2>6. \A v \in Worker : wjob[v] # Nothing => PresentThen(wjob[v])
    BY <1>4, <2>4 DEF Once, AllPresent
  <2>7. mpc = "push" => PresentThen(mjob)
    BY <1>4, <2>4 DEF Once, AllPresent, Carrying
  <2>8. AllPresent'
    BY <1>3, <2>1, <2>2, <2>3, <2>5, <2>6, <2>7
       DEF Once, AllPresent, Carrying, Present, PresentThen
  <2> QED
    BY <1>3, <2>1, <2>2, <2>8 DEF Once, OnePlace, Recovering, Calls, Carrying
<1>7. CASE End(w)
  <2>1. /\ settled' = settled \cup {j.work} /\ Persist(j.id, "Ended")
        /\ wjob' = [wjob EXCEPT ![w] = Nothing]
    BY <1>7 DEF End
  <2>2. /\ j \in JobOf /\ pass = Nothing /\ started /\ (epoch > 0 => recovered)
        /\ \A i \in Id : rec'[i] = IF i = j.id THEN [work |-> j.work, state |-> "Ended"]
                                   ELSE rec[i]
        /\ \A v \in Worker : wjob'[v] = IF v = w THEN Nothing ELSE wjob[v]
    BY <1>3, <1>5, <2>1, OncePersist DEF RecordInv, Typed, WorkersTyped
  <2>3. \A k \in JobOf : Present(k) /\ k.id # j.id /\ k.work # j.work => PresentThen(k)
    BY <1>3, <2>1, <2>2, JobFields DEF Present
  <2>4. \A k \in JobOf : Names(k.id, k.work) /\ k # j => k.id # j.id /\ k.work # j.work
    BY <1>4
  <2> HIDE DEF PresentThen
  <2>5. OnePlace'
    BY <1>3, <1>4, <2>2, JobFields DEF Once, OnePlace, Carrying
  <2>6. \A n \in 1..Len(queue) : PresentThen(queue[n])
    BY <1>3, <1>4, <2>3, <2>4 DEF Once, AllPresent, OnePlace
  <2>7. \A v \in Worker : v # w /\ wjob[v] # Nothing => PresentThen(wjob[v])
    BY <1>3, <1>4, <2>3, <2>4 DEF Once, AllPresent, OnePlace
  <2>8. Carrying => mjob \in JobOf /\ mjob.id # j.id /\ mjob.work # j.work
    BY <1>4, <2>4 DEF Once, OnePlace
  <2>9. /\ Carrying => mjob.work \notin settled'
        /\ mpc = "push" => PresentThen(mjob)
    BY <2>1, <2>3, <2>8 DEF Once, AllPresent, Carrying
  <2>10. ASSUME NEW i \in Id, rec'[i] # Nothing, rec'[i].state \in Unfinished
         PROVE  rec'[i].work \notin settled'
    <3>1. i # j.id /\ rec'[i] = rec[i]
      BY <2>2, <2>10 DEF Unfinished
    <3>2. rec[i].work # j.work
      BY <1>3, <2>2, <2>10, <3>1, SameId, RecordsOf, JobFields DEF RecordInv, Naming, Names
    <3> QED
      BY <2>1, <2>10, <3>1, <3>2 DEF Once, AllPresent
  <2>11. AllPresent'
    BY <1>3, <2>2, <2>6, <2>7, <2>9, <2>10 DEF AllPresent, Carrying, Present, PresentThen
  <2> QED
    BY <1>3, <2>2, <2>5, <2>11 DEF Once, Recovering, Calls, Carrying
<1> QED
  BY <1>6, <1>7

LEMMA OnceStep ==
  ASSUME RecordInv, OnceInv, [Next]_vars, ~Resubmits
  PROVE  OnceInv'
<1> SUFFICES ASSUME ~raced'
             PROVE  Once'
  BY DEF OnceInv
<1>1. CASE Recover \/ Start \/ Restart
  BY <1>1, OnceRecover, OnceProcess
<1>2. CASE Submit \/ CallNext \/ Stop \/ UNCHANGED vars \/ \E w \in Worker : WorkerNext(w)
  <2>1. raced' = raced
    BY <1>2 DEF Submit, CallNext, PersistNew, Push, PushTo, Pick, Resubmit, ResubmitRefused,
       NextPass, Return, Stop, vars, historyVars, WorkerNext, Take, Begin, Execute, End, WorkerStep
  <2>2. Once
    BY <2>1 DEF OnceInv
  <2>3. CASE UNCHANGED vars
    BY <2>2, <2>3 DEF vars, workerVars, callerVars, historyVars, Once, OnePlace, AllPresent,
       Present, Recovering, Calls, Carrying
  <2> QED
    BY <1>2, <2>2, <2>3, OnceSubmit, OncePersistNew, OncePush, OncePick, OnceResubmit,
       OnceCallEnds, OnceWorker DEF CallNext
<1> QED
  BY <1>1, <1>2 DEF Next

LEMMA OncePlaces ==
  ASSUME RecordInv, Once, NEW k \in Work
  PROVE  /\ \A s, t \in Places(k) : s = t
         /\ k \in settled => Places(k) = {}
<1>1. /\ \A n \in 1..Len(queue) : queue[n] \in JobOf /\ Names(queue[n].id, queue[n].work)
      /\ \A w \in Worker : wjob[w] # Nothing => wjob[w] \in JobOf /\ Names(wjob[w].id, wjob[w].work)
      /\ Carrying => mjob \in JobOf /\ Names(mjob.id, mjob.work)
      /\ \A i, j \in Id : Names(i, k) /\ Names(j, k) => i = j
  BY SameId, JobFields DEF RecordInv, Naming, Typed, CallerTyped
<1> DEFINE inQueue(n) == n \in 1..Len(queue) /\ queue[n].work = k
           inWorker(w) == w \in Worker /\ wjob[w] # Nothing /\ wjob[w].work = k
           inCaller == Carrying /\ mjob.work = k
<1>2. ASSUME NEW s \in Places(k)
      PROVE  \/ \E n : s = <<"queue", n>> /\ inQueue(n)
             \/ \E w : s = <<"worker", w>> /\ inWorker(w)
             \/ s = <<"caller", mpc>> /\ inCaller
  BY DEF Places, Carrying
<1>3. \A m, n : inQueue(m) /\ inQueue(n) => m = n
  BY <1>1, JobFields DEF Once, OnePlace
<1>4. \A v, w : inWorker(v) /\ inWorker(w) => v = w
  BY <1>1, JobFields DEF Once, OnePlace
<1>5. \A n, w : ~(inQueue(n) /\ inWorker(w))
  BY <1>1, JobFields DEF Once, OnePlace
<1>6. \A n : ~(inQueue(n) /\ inCaller)
  BY <1>1, JobFields DEF Once, OnePlace
<1>7. \A w : ~(inWorker(w) /\ inCaller)
  BY <1>1, JobFields DEF Once, OnePlace
<1>8. \A s, t \in Places(k) : s = t
  <2> HIDE DEF inQueue, inWorker, inCaller
  <2> QED
    BY <1>2, <1>3, <1>4, <1>5, <1>6, <1>7
<1>9. k \in settled => Places(k) = {}
  <2>1. k \in settled => ~inCaller /\ \A x : ~inQueue(x) /\ ~inWorker(x)
    BY DEF Once, AllPresent, Present
  <2> HIDE DEF inQueue, inWorker, inCaller
  <2> QED
    BY <1>2, <2>1
<1> QED
  BY <1>8, <1>9

(* A recovery that comes before the workers run brings each job back as the
   process that ended had it: no work is in a process twice, and none again
   once its outcome is recorded; each job queued or running is the one its id
   stands for, with its state recorded under its own kind and payload. *)
THEOREM RecoversAsItWas ==
  ASSUME ~Resubmits
  PROVE  Spec => []RecoveredAsItWas
<1>1. Init => OnceInv
  BY DEF Init, OnceInv, Once, OnePlace, AllPresent, Recovering, Calls, Carrying
<1>2. RecordInv /\ OnceInv /\ [Next]_vars => (RecordInv /\ OnceInv)'
  BY RecordStep, OnceStep
<1>3. ASSUME RecordInv, Once, NEW k \in Work,
             NEW j \in ToSet(queue) \cup {wjob[w] : w \in Worker}, j # Nothing, j.work = k
      PROVE  submitted[j.id] = k /\ rec[j.id] # Nothing /\ rec[j.id].work = k
  BY <1>3 DEF Once, AllPresent, Present, ToSet
<1>4. RecordInv /\ OnceInv => RecoveredAsItWas
  BY <1>3, OncePlaces DEF OnceInv, RecoveredAsItWas
<1> QED
  BY <1>1, <1>2, <1>4, RecordInit, PTL DEF Spec
-----------------------------------------------------------------------------
(* What recover_interrupted counts. *)

\* The unfinished records that it still has to count.
Left ==
  {i \in Id : /\ rec[i] # Nothing /\ rec[i].work \in Rebuildable
              /\ \/ Pair(i, rec[i].work) \in todo
                 \/ pass = "Pending" /\ rec[i].state = "Running"}

Counting ==
  pass # Nothing =>
    /\ count \in Nat
    /\ count + Cardinality(Left) + (IF Carrying THEN 1 ELSE 0) = Cardinality(found)
    /\ mpc \in {"resubmit", "persist"} => rec[mjob.id] = Nothing

CountInv == ~raced => Counting

LEMMA LeftFinite ==
  /\ IsFiniteSet(Left) /\ Cardinality(Left) \in Nat
  /\ IsFiniteSet(Left') /\ Cardinality(Left') \in Nat
  /\ \A i : i \in Left => Cardinality(Left \ {i}) = Cardinality(Left) - 1
<1>1. IsFiniteSet(Id)
  BY RecoveryAssumption, FS_CardinalityType, FS_Interval DEF Id
<1>2. Left \subseteq Id /\ Left' \subseteq Id
  BY DEF Left
<1>3. IsFiniteSet(Left) /\ IsFiniteSet(Left')
  BY <1>1, <1>2, FS_Subset
<1> QED
  BY <1>3, FS_CardinalityType, FS_RemoveElement

LEMMA CountPick ==
  ASSUME RecordInv, Once, Counting, Pick
  PROVE  Counting'
<1>1. UNCHANGED <<pass, count, found>> /\ mpc = "pick" /\ pass \in Unfinished /\ pass # Nothing
  BY DEF Pick, historyVars, RecordInv, Typed, CallerTyped
<1>2. PICK j \in todo :
        /\ todo' = todo \ {j}
        /\ \/ j.work \notin Rebuildable /\ UNCHANGED <<rec, mpc, mjob>>
           \/ j.work \in Rebuildable /\ rec' = [rec EXCEPT ![j.id] = Nothing] /\ mjob' = j
              /\ mpc' = "resubmit"
  BY DEF Pick, RebuildJob
<1>3. /\ j \in JobOf /\ j.id \in Id /\ j = Pair(j.id, j.work)
      /\ rec[j.id] = [work |-> j.work, state |-> pass] /\ rec[j.id] # Nothing
  <2>1. j \in JobOf /\ rec[j.id] = [work |-> j.work, state |-> pass]
    BY <1>1, SameId DEF RecordInv, Once, Recovering
  <2> QED
    BY <1>1, <2>1, JobFields DEF RecordState
<1>4. \A i \in Id : i # j.id /\ rec[i] # Nothing =>
        (Pair(i, rec[i].work) \in todo' <=> Pair(i, rec[i].work) \in todo)
  BY <1>2, RecordsOf, JobFields DEF RecordInv
<1>5. ~Carrying /\ count \in Nat /\ count + Cardinality(Left) = Cardinality(found)
  BY <1>1, LeftFinite DEF Carrying, Counting
<1>6. CASE j.work \notin Rebuildable /\ UNCHANGED <<rec, mpc, mjob>>
  <2>1. Left' = Left
    BY <1>1, <1>3, <1>4, <1>6 DEF Left
  <2> QED
    BY <1>1, <1>5, <1>6, <2>1, LeftFinite DEF Counting, Carrying
<1>7. CASE j.work \in Rebuildable /\ rec' = [rec EXCEPT ![j.id] = Nothing] /\ mjob' = j
           /\ mpc' = "resubmit"
  <2>1. \A i \in Id : rec'[i] = IF i = j.id THEN Nothing ELSE rec[i]
    BY <1>7 DEF RecordInv, Typed, DataTyped
  <2>2. j.id \in Left
    BY <1>2, <1>3, <1>7 DEF Left
  <2>3. Left' = Left \ {j.id}
    BY <1>1, <1>4, <2>1 DEF Left
  <2>4. Cardinality(Left') = Cardinality(Left) - 1
    BY <2>2, <2>3, LeftFinite
  <2> QED
    BY <1>1, <1>3, <1>5, <1>7, <2>1, <2>4, LeftFinite DEF Counting, Carrying
<1> QED
  BY <1>2, <1>6, <1>7

LEMMA CountStep ==
  ASSUME RecordInv, OnceInv, CountInv, [Next]_vars, ~Resubmits
  PROVE  CountInv'
<1> SUFFICES ASSUME ~raced', pass' # Nothing
             PROVE  Counting'
  BY DEF CountInv, Counting
<1>1. CASE Recover
  <2>1. /\ rec' = rec /\ pass' = "Pending" /\ todo' = Listed("Pending") /\ count' = 0
        /\ mpc' = "pick" /\ found' = {i \in Id : /\ rec[i] # Nothing /\ rec[i].state \in Unfinished
                                                /\ rec[i].work \in Rebuildable}
    BY <1>1 DEF Recover
  <2>2. \A i \in Id : rec[i] # Nothing =>
          (Pair(i, rec[i].work) \in todo' <=> rec[i].state = "Pending")
    BY <2>1, ListedHas DEF RecordInv
  <2>3. Left' = found'
    BY <2>1, <2>2 DEF Left, Unfinished
  <2>4. ~Carrying'
    BY <2>1 DEF Carrying
  <2> QED
    BY <2>1, <2>3, <2>4, LeftFinite DEF Counting
<1> SUFFICES ASSUME ~Recover
             PROVE  Counting'
  BY <1>1
<1>2. ~raced /\ Once /\ Counting /\ pass # Nothing
  <2>1. ~raced
    BY DEF Next, Submit, CallNext, PersistNew, Push, PushTo, Pick, Resubmit, ResubmitRefused,
       NextPass, Return, Start, Stop, Restart, vars, historyVars, WorkerNext, Take, Begin,
       Execute, End, WorkerStep
  <2>2. pass # Nothing
    BY DEF Next, Submit, CallNext, PersistNew, Push, PushTo, Pick, Resubmit, ResubmitRefused,
       NextPass, Return, Start, Stop, Restart, vars, callerVars, WorkerNext, Take, Begin,
       Execute, End, WorkerStep, RecordInv, Typed, CallerTyped
  <2> QED
    BY <2>1, <2>2 DEF OnceInv, CountInv
<1>3. /\ mpc # "ready" /\ count \in Nat
      /\ count + Cardinality(Left) + (IF Carrying THEN 1 ELSE 0) = Cardinality(found)
      /\ mpc \in {"resubmit", "persist"} => rec[mjob.id] = Nothing
      /\ ~started /\ \A w \in Worker : wjob[w] = Nothing /\ wpc[w] = "idle"
  BY <1>2 DEF RecordInv, Typed, CallerTyped, WorkersTyped, Counting, Once, Calls, Recovering
<1>4. CASE Pick
  BY <1>2, <1>4, CountPick
<1>5. CASE Push
  <2>1. UNCHANGED <<rec, pass, todo, found>> /\ Carrying /\ ~Carrying' /\ mpc' = "pick"
        /\ count' = count + 1
    BY <1>2, <1>5 DEF Push, PushTo, Carrying
  <2>2. Left' = Left
    BY <2>1 DEF Left
  <2> QED
    BY <1>3, <2>1, <2>2, LeftFinite DEF Counting
<1>6. CASE PersistNew
  <2>1. /\ UNCHANGED <<pass, todo, found, count, mjob>> /\ Carrying /\ Carrying' /\ mpc' = "push"
        /\ mjob \in JobOf /\ rec[mjob.id] = Nothing
        /\ rec' = [rec EXCEPT ![mjob.id] = [work |-> mjob.work, state |-> "Pending"]]
    <3>1. mjob \in JobOf /\ submitted[mjob.id] = mjob.work /\ submitted[mjob.id] # Nothing
      BY <1>6, JobFields DEF PersistNew, RecordInv, Kept, Typed, CallerTyped, Carrying
    <3> QED
      BY <1>3, <1>6, <3>1 DEF PersistNew, historyVars, Carrying, Persist
  <2>2. \A i \in Id : rec'[i] = IF i = mjob.id THEN [work |-> mjob.work, state |-> "Pending"]
                                ELSE rec[i]
    BY <2>1 DEF RecordInv, Typed, DataTyped
  <2>3. \A k : Pair(mjob.id, k) \notin todo
    BY <1>2, <2>1 DEF Once, Recovering, Pair
  <2>4. Left' = Left
    BY <2>1, <2>2, <2>3 DEF Left
  <2> QED
    BY <1>3, <2>1, <2>4, LeftFinite DEF Counting
<1>7. CASE NextPass
  <2>1. /\ UNCHANGED <<rec, found, count, mpc, mjob>> /\ pass = "Pending" /\ pass' = "Running"
        /\ todo = {} /\ todo' = Listed("Running")
    BY <1>7 DEF NextPass, historyVars
  <2>2. \A i \in Id : rec[i] # Nothing =>
          (Pair(i, rec[i].work) \in todo' <=> rec[i].state = "Running")
    BY <2>1, ListedHas DEF RecordInv
  <2>3. Left' = Left
    BY <2>1, <2>2 DEF Left
  <2> QED
    BY <1>3, <2>1, <2>3 DEF Counting, Carrying
<1>8. CASE Resubmit \/ Stop \/ UNCHANGED vars
  <2>1. UNCHANGED <<rec, found, count, mjob, todo, pass>> /\ (Carrying' <=> Carrying)
        /\ (mpc' # mpc => mpc = "resubmit" /\ mpc' = "persist")
    BY <1>8 DEF Resubmit, Stop, vars, historyVars, callerVars, Carrying
  <2>2. Left' = Left
    BY <2>1 DEF Left
  <2> QED
    BY <1>3, <2>1, <2>2 DEF Counting
<1>9. CASE \/ Submit \/ Start \/ ResubmitRefused \/ Return \/ Restart
           \/ \E w \in Worker : WorkerNext(w)
  BY <1>3, <1>9 DEF Submit, Start, ResubmitRefused, Return, Restart, WorkerNext, Take, Begin,
     Execute, End, WorkerStep
<1> QED
  BY <1>4, <1>5, <1>6, <1>7, <1>8, <1>9 DEF Next, CallNext

(* recover_interrupted returns the number of unfinished records that it found
   and can rebuild, each counted once, if no worker runs before it returns. *)
THEOREM CountsOnce ==
  ASSUME ~Resubmits
  PROVE  Spec => CountsInterruptedOnce
<1> DEFINE Inv == RecordInv /\ OnceInv /\ CountInv
<1>1. Init => Inv
  BY RecordInit
     DEF Init, OnceInv, Once, OnePlace, AllPresent, Recovering, Calls, Carrying, CountInv, Counting
<1>2. Inv /\ [Next]_vars => Inv'
  BY RecordStep, OnceStep, CountStep
<1>3. ASSUME Inv, [Next]_vars, ~raced, recovered', ~recovered
      PROVE  count = Cardinality(found)
  <2>1. Return
    BY <1>3 DEF Next, Submit, Recover, CallNext, PersistNew, Push, PushTo, Pick, Resubmit,
       ResubmitRefused, NextPass, Start, Stop, Restart, vars, historyVars, WorkerNext, Take, Begin,
       Execute, End, WorkerStep
  <2>2. pass = "Running" /\ todo = {} /\ mpc = "pick" /\ pass # Nothing
    BY <2>1, JobFields DEF Return
  <2>3. Left = {} /\ ~Carrying
    BY <2>2 DEF Left, Carrying
  <2> QED
    BY <1>3, <2>2, <2>3, FS_EmptySet DEF CountInv, Counting
<1>4. Inv /\ [Next]_vars => [~raced /\ recovered' /\ ~recovered => count = Cardinality(found)]_vars
  BY <1>3
<1> QED
  BY <1>1, <1>2, <1>4, PTL DEF Spec, CountsInterruptedOnce
=============================================================================
