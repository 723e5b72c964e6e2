--------------------------- MODULE JobQueueProofs ---------------------------
(***************************************************************************)
(* The vector of queue.rs implements the abstract priority queue, for any  *)
(* jobs, priorities and number of pushes.                                  *)
(***************************************************************************)
EXTENDS JobQueue, SequenceTheorems, WellFoundedInduction, TLAPS

\* Every set of numbers that is not empty has a least one.
LEMMA LeastNumber ==
  ASSUME NEW S, S \subseteq Nat, S # {}
  PROVE  \E n \in S : \A m \in S : n <= m
<1> DEFINE R == OpToRel(<, Nat)
<1>1. IsWellFoundedOn(R, Nat)
  BY NatLessThanWellFounded
<1>2. \A a, b \in Nat : a < b => <<a, b>> \in R
  BY DEF OpToRel
<1> HIDE DEF R
<1>3. PICK n \in S : \A m \in S : ~ (<<m, n>> \in R)
  BY <1>1, WFMin
<1>4. \A m \in S : m \in Nat /\ n \in Nat
  OBVIOUS
<1>5. \A m \in S : ~ (m < n)
  BY <1>2, <1>3, <1>4
<1> QED
  BY <1>4, <1>5

\* The order of dispatch.
LEMMA BeforeIsOrder ==
  ASSUME NEW e \in Entry, NEW f \in Entry, NEW g \in Entry
  PROVE  /\ ~Before(e, e)
         /\ Before(e, f) /\ Before(f, g) => Before(e, g)
         /\ e.seq < f.seq => Before(e, f) \/ Before(f, e)
         /\ Before(e, f) => ~Before(f, e)
<1>1. /\ Prio[e.job] \in Int /\ Prio[f.job] \in Int /\ Prio[g.job] \in Int
      /\ e.seq \in Int /\ f.seq \in Int /\ g.seq \in Int
  BY PrioAssumption DEF Entry
<1> QED
  BY <1>1 DEF Before
-----------------------------------------------------------------------------
(* The invariant: queue.rs keeps the vector in dispatch order. *)

QTyped == entries \in Seq(Entry) /\ nextSeq \in Nat

QBelow == \A i \in 1..Len(entries) : entries[i].seq < nextSeq

QSorted == \A i, j \in 1..Len(entries) : i < j => Before(entries[i], entries[j])

QInv == QTyped /\ QBelow /\ QSorted

\* t is s with e after the first k.
IsInserted(t, s, k, e) ==
  /\ t \in Seq(Entry) /\ Len(t) = Len(s) + 1
  /\ \A i \in 1..(Len(s) + 1) :
       t[i] = IF i <= k THEN s[i] ELSE IF i = k + 1 THEN e ELSE s[i - 1]

\* Where the entries are after one has been inserted,
LEMMA Inserted ==
  ASSUME NEW s \in Seq(Entry), NEW k \in 0..Len(s), NEW e \in Entry
  PROVE  IsInserted(InsertAt(s, k + 1, e), s, k, e)
<1> DEFINE a == SubSeq(s, 1, k)
           b == SubSeq(s, k + 1, Len(s))
           one == <<e>>
           ab == a \o one
           t == ab \o b
<1>1. Len(s) \in Nat /\ k \in Int /\ k <= Len(s) /\ 0 <= k /\ \A i \in 1..Len(s) : s[i] \in Entry
  OBVIOUS
<1>2. InsertAt(s, k + 1, e) = t
  <2>1. (k + 1) - 1 = k
    BY <1>1
  <2> QED
    BY <2>1 DEF InsertAt
<1>3. a \in Seq(Entry) /\ Len(a) = k /\ \A i \in 1..k : a[i] = s[i]
  <2>1. \A i \in 1..k : s[i] \in Entry
    BY <1>1
  <2>2. /\ a \in Seq(Entry) /\ Len(a) = IF 1 <= k THEN k - 1 + 1 ELSE 0
        /\ \A i \in 1..(k - 1 + 1) : a[i] = s[1 + i - 1]
    BY <1>1, <2>1, SubSeqProperties
  <2> HIDE DEF a
  <2>3. \A i \in 1..k : 1 + i - 1 = i /\ i \in 1..(k - 1 + 1)
    BY <1>1
  <2>4. Len(a) = k
    BY <1>1, <2>2
  <2> QED
    BY <2>2, <2>3, <2>4
<1>4. b \in Seq(Entry) /\ Len(b) = Len(s) - k /\ \A i \in 1..(Len(s) - k) : b[i] = s[k + i]
  <2>1. \A i \in (k + 1)..Len(s) : s[i] \in Entry
    BY <1>1
  <2>2. /\ b \in Seq(Entry)
        /\ Len(b) = IF k + 1 <= Len(s) THEN Len(s) - (k + 1) + 1 ELSE 0
        /\ \A i \in 1..(Len(s) - (k + 1) + 1) : b[i] = s[(k + 1) + i - 1]
    BY <1>1, <2>1, SubSeqProperties
  <2> HIDE DEF b
  <2>3. \A i \in 1..(Len(s) - k) : (k + 1) + i - 1 = k + i /\ i \in 1..(Len(s) - (k + 1) + 1)
    BY <1>1
  <2>4. Len(b) = Len(s) - k
    BY <1>1, <2>2
  <2> QED
    BY <2>2, <2>3, <2>4
<1>5. one \in Seq(Entry) /\ Len(one) = 1 /\ one[1] = e
  OBVIOUS
<1> HIDE DEF a, b, one
<1>6. /\ ab \in Seq(Entry) /\ Len(ab) = k + 1
      /\ \A i \in 1..(k + 1) : ab[i] = IF i <= k THEN s[i] ELSE e
  <2>1. /\ ab \in Seq(Entry) /\ Len(ab) = Len(a) + Len(one)
        /\ \A i \in 1..(Len(a) + Len(one)) : ab[i] = IF i <= Len(a) THEN a[i] ELSE one[i - Len(a)]
    BY <1>3, <1>5, ConcatProperties
  <2> HIDE DEF ab
  <2>2. \A i \in 1..(k + 1) : ab[i] = IF i <= k THEN a[i] ELSE one[i - k]
    BY <1>3, <1>5, <2>1
  <2>3. \A i \in 1..(k + 1) : (i <= k /\ i \in 1..k) \/ (~(i <= k) /\ i - k = 1)
    BY <1>1
  <2> QED
    BY <1>3, <1>5, <2>1, <2>2, <2>3
<1> HIDE DEF ab
<1>7. /\ t \in Seq(Entry) /\ Len(t) = Len(ab) + Len(b)
      /\ \A i \in 1..(Len(ab) + Len(b)) : t[i] = IF i <= Len(ab) THEN ab[i] ELSE b[i - Len(ab)]
  BY <1>4, <1>6, ConcatProperties
<1> HIDE DEF t
<1>8. Len(ab) + Len(b) = Len(s) + 1
  BY <1>1, <1>4, <1>6
<1>9. ASSUME NEW i \in 1..(Len(s) + 1)
      PROVE  t[i] = IF i <= k THEN s[i] ELSE IF i = k + 1 THEN e ELSE s[i - 1]
  <2>1. t[i] = IF i <= k + 1 THEN ab[i] ELSE b[i - (k + 1)]
    BY <1>6, <1>7, <1>8
  <2>2. CASE i <= k
    <3>1. i <= k + 1 /\ i \in 1..(k + 1)
      BY <1>1, <2>2
    <3> QED
      BY <1>6, <2>1, <2>2, <3>1
  <2>3. CASE i = k + 1
    <3>1. i <= k + 1 /\ i \in 1..(k + 1) /\ ~(i <= k)
      BY <1>1, <2>3
    <3> QED
      BY <1>6, <2>1, <2>3, <3>1
  <2>4. CASE i > k + 1
    <3>1. /\ ~(i <= k + 1) /\ ~(i <= k) /\ i # k + 1
          /\ i - (k + 1) \in 1..(Len(s) - k) /\ k + (i - (k + 1)) = i - 1
      BY <1>1, <2>4
    <3>2. b[i - (k + 1)] = s[k + (i - (k + 1))]
      BY <1>4, <3>1
    <3> QED
      BY <2>1, <3>1, <3>2
  <2> QED
    BY <1>1, <2>2, <2>3, <2>4
<1>10. IsInserted(t, s, k, e)
  BY <1>7, <1>8, <1>9 DEF IsInserted
<1> QED
  BY <1>2, <1>10

\* and after one has been removed.
LEMMA Removed ==
  ASSUME NEW s \in Seq(Entry), NEW k \in 1..Len(s)
  PROVE  /\ RemoveAt(s, k) \in Seq(Entry) /\ Len(RemoveAt(s, k)) = Len(s) - 1
         /\ \A i \in 1..(Len(s) - 1) : RemoveAt(s, k)[i] = IF i < k THEN s[i] ELSE s[i + 1]
<1> DEFINE a == SubSeq(s, 1, k - 1)
           b == SubSeq(s, k + 1, Len(s))
           t == a \o b
<1>1. /\ Len(s) \in Nat /\ k \in Int /\ k - 1 \in Int /\ k + 1 \in Int /\ k <= Len(s) /\ 1 <= k
      /\ \A i \in 1..Len(s) : s[i] \in Entry
  OBVIOUS
<1>2. RemoveAt(s, k) = t
  BY DEF RemoveAt
<1>3. a \in Seq(Entry) /\ Len(a) = k - 1 /\ \A i \in 1..(k - 1) : a[i] = s[i]
  <2>1. \A i \in 1..(k - 1) : s[i] \in Entry
    BY <1>1
  <2>2. /\ a \in Seq(Entry) /\ Len(a) = IF 1 <= k - 1 THEN (k - 1) - 1 + 1 ELSE 0
        /\ \A i \in 1..((k - 1) - 1 + 1) : a[i] = s[1 + i - 1]
    BY <1>1, <2>1, SubSeqProperties
  <2> HIDE DEF a
  <2>3. \A i \in 1..(k - 1) : 1 + i - 1 = i /\ i \in 1..((k - 1) - 1 + 1)
    BY <1>1
  <2>4. Len(a) = k - 1
    BY <1>1, <2>2
  <2> QED
    BY <2>2, <2>3, <2>4
<1>4. b \in Seq(Entry) /\ Len(b) = Len(s) - k /\ \A i \in 1..(Len(s) - k) : b[i] = s[k + i]
  <2>1. \A i \in (k + 1)..Len(s) : s[i] \in Entry
    BY <1>1
  <2>2. /\ b \in Seq(Entry)
        /\ Len(b) = IF k + 1 <= Len(s) THEN Len(s) - (k + 1) + 1 ELSE 0
        /\ \A i \in 1..(Len(s) - (k + 1) + 1) : b[i] = s[(k + 1) + i - 1]
    BY <1>1, <2>1, SubSeqProperties
  <2> HIDE DEF b
  <2>3. \A i \in 1..(Len(s) - k) : (k + 1) + i - 1 = k + i /\ i \in 1..(Len(s) - (k + 1) + 1)
    BY <1>1
  <2>4. Len(b) = Len(s) - k
    BY <1>1, <2>2
  <2> QED
    BY <2>2, <2>3, <2>4
<1> HIDE DEF a, b
<1>5. /\ t \in Seq(Entry) /\ Len(t) = Len(a) + Len(b)
      /\ \A i \in 1..(Len(a) + Len(b)) : t[i] = IF i <= Len(a) THEN a[i] ELSE b[i - Len(a)]
  BY <1>3, <1>4, ConcatProperties
<1> HIDE DEF t
<1>6. Len(a) + Len(b) = Len(s) - 1
  BY <1>1, <1>3, <1>4
<1>7. ASSUME NEW i \in 1..(Len(s) - 1)
      PROVE  t[i] = IF i < k THEN s[i] ELSE s[i + 1]
  <2>1. t[i] = IF i <= k - 1 THEN a[i] ELSE b[i - (k - 1)]
    BY <1>3, <1>5, <1>6
  <2>2. CASE i < k
    <3>1. i <= k - 1 /\ i \in 1..(k - 1)
      BY <1>1, <2>2
    <3> QED
      BY <1>3, <2>1, <2>2, <3>1
  <2>3. CASE i >= k
    <3>1. /\ ~(i <= k - 1) /\ ~(i < k)
          /\ i - (k - 1) \in 1..(Len(s) - k) /\ k + (i - (k - 1)) = i + 1
      BY <1>1, <2>3
    <3>2. b[i - (k - 1)] = s[k + (i - (k - 1))]
      BY <1>4, <3>1
    <3> QED
      BY <2>1, <3>1, <3>2
  <2> QED
    BY <1>1, <2>2, <2>3
<1> QED
  BY <1>2, <1>5, <1>6, <1>7

\* The positions of the entries that a caller accepts.
Fitting(R) == {i \in 1..Len(entries) : entries[i].job \in R}

FirstFit(R) == SelectInSeq(entries, LAMBDA e : e.job \in R)

\* position() is the first of them.
LEMMA FirstFits ==
  ASSUME QTyped, NEW R
  PROVE  IF Fitting(R) = {} THEN FirstFit(R) = 0
         ELSE FirstFit(R) \in Fitting(R) /\ \A i \in Fitting(R) : FirstFit(R) <= i
<1> DEFINE I == Fitting(R)
<1>1. FirstFit(R) = IF I # {} THEN CHOOSE x \in I : \A y \in I : x <= y ELSE 0
  BY DEF FirstFit, SelectInSeq, Min, Fitting
<1>2. I \subseteq Nat
  BY DEF Fitting, QTyped
<1> HIDE DEF I
<1>3. CASE I # {}
  <2>1. \E x \in I : \A y \in I : x <= y
    BY <1>2, <1>3, LeastNumber
  <2> QED
    BY <1>1, <1>3, <2>1 DEF I
<1>4. CASE I = {}
  BY <1>1, <1>4 DEF I
<1> QED
  BY <1>3, <1>4


\* An entry goes behind those that it does not precede.
LEMMA PushStep ==
  ASSUME QInv, NEW j \in Job, Push(j)
  PROVE  QInv' /\ Abstract!Push(j)
<1> DEFINE e == [job |-> j, seq |-> nextSeq]
<1>1. entries \in Seq(Entry) /\ nextSeq \in Nat /\ Len(entries) \in Nat /\ e \in Entry
  BY DEF QInv, QTyped, Entry
<1>2. /\ e.job = j /\ e.seq = nextSeq
      /\ \A i \in 1..Len(entries) : entries[i] \in Entry /\ entries[i].seq < nextSeq
  BY <1>1, ElementOfSeq DEF QInv, QBelow
<1>3. nextSeq' = nextSeq + 1 /\ got' = NoEntry
  BY DEF Push
<1> HIDE DEF e
<1>4. PICK k \in 0..Len(entries) :
        IsPartitionPoint(k, e) /\ entries' = InsertAt(entries, k + 1, e)
  BY DEF Push, e
<1>5. PICK s \in Seq(Entry) : s = entries' /\ IsInserted(s, entries, k, e)
  <2>1. IsInserted(InsertAt(entries, k + 1, e), entries, k, e)
    BY <1>1, Inserted
  <2> QED
    BY <1>4, <2>1 DEF IsInserted
<1>6. /\ Len(s) = Len(entries) + 1
      /\ \A i \in 1..(Len(entries) + 1) :
           s[i] = IF i <= k THEN entries[i] ELSE IF i = k + 1 THEN e ELSE entries[i - 1]
  BY <1>5 DEF IsInserted
<1>7. /\ \A i \in 1..Len(s) : \/ i <= k /\ i \in 1..Len(entries) /\ s[i] = entries[i]
                              \/ i = k + 1 /\ s[i] = e
                              \/ i > k + 1 /\ i - 1 \in 1..Len(entries) /\ s[i] = entries[i - 1]
      /\ k + 1 \in 1..Len(s) /\ s[k + 1] = e
      /\ \A i \in 1..Len(entries) : \/ i <= k /\ i \in 1..Len(s) /\ s[i] = entries[i]
                                    \/ i > k /\ i + 1 \in 1..Len(s) /\ s[i + 1] = entries[i]
  <2>1. \A i \in 1..Len(s) : \/ i <= k /\ i \in 1..Len(entries) /\ s[i] = entries[i]
                             \/ i = k + 1 /\ s[i] = e
                             \/ i > k + 1 /\ i - 1 \in 1..Len(entries) /\ s[i] = entries[i - 1]
    BY <1>1, <1>6
  <2>2. k + 1 \in 1..Len(s) /\ s[k + 1] = e
    BY <1>1, <1>6
  <2>3. ASSUME NEW i \in 1..Len(entries)
        PROVE  \/ i <= k /\ i \in 1..Len(s) /\ s[i] = entries[i]
               \/ i > k /\ i + 1 \in 1..Len(s) /\ s[i + 1] = entries[i]
    <3>1. CASE i <= k
      BY <1>1, <1>6, <3>1
    <3>2. CASE i > k
      <4>1. i + 1 \in 1..(Len(entries) + 1) /\ ~(i + 1 <= k) /\ i + 1 # k + 1 /\ (i + 1) - 1 = i
        BY <1>1, <3>2
      <4> QED
        BY <1>6, <3>2, <4>1
    <3> QED
      BY <1>1, <3>1, <3>2
  <2> QED
    BY <2>1, <2>2, <2>3
<1>8. /\ \A i \in 1..Len(entries) : i <= k => Before(entries[i], e)
      /\ \A i \in 1..Len(entries) : i > k => Before(e, entries[i])
  <2>1. ASSUME k > 0
        PROVE  k \in 1..Len(entries) /\ Before(entries[k], e)
    <3>1. k \in 1..Len(entries) /\ AtMost(entries[k], e)
      BY <1>1, <1>4, <2>1 DEF IsPartitionPoint
    <3>2. entries[k] # e
      BY <1>1, <1>2, <3>1
    <3> QED
      BY <3>1, <3>2 DEF AtMost
  <2>2. ASSUME k < Len(entries)
        PROVE  k + 1 \in 1..Len(entries) /\ Before(e, entries[k + 1])
    <3>1. k + 1 \in 1..Len(entries) /\ ~AtMost(entries[k + 1], e)
      BY <1>1, <1>4, <2>2 DEF IsPartitionPoint
    <3>2. PICK f \in Entry : f = entries[k + 1] /\ f.seq < e.seq
      BY <1>2, <3>1
    <3>3. ~Before(f, e)
      BY <3>1, <3>2 DEF AtMost
    <3> QED
      BY <1>1, <3>1, <3>2, <3>3, BeforeIsOrder
  <2>3. ASSUME NEW i \in 1..Len(entries), i <= k
        PROVE  Before(entries[i], e)
    <3>1. k > 0 /\ (i = k \/ i < k)
      BY <1>1, <2>3
    <3>2. i < k => Before(entries[i], entries[k])
      BY <2>1, <3>1 DEF QInv, QSorted
    <3>3. entries[i] \in Entry /\ entries[k] \in Entry
      BY <1>2, <2>1, <3>1
    <3> QED
      BY <1>1, <2>1, <3>1, <3>2, <3>3, BeforeIsOrder
  <2>4. ASSUME NEW i \in 1..Len(entries), i > k
        PROVE  Before(e, entries[i])
    <3>1. k < Len(entries) /\ (i = k + 1 \/ k + 1 < i)
      BY <1>1, <2>4
    <3>2. k + 1 < i => Before(entries[k + 1], entries[i])
      BY <2>2, <3>1 DEF QInv, QSorted
    <3>3. entries[i] \in Entry /\ entries[k + 1] \in Entry
      BY <1>2, <2>2, <3>1
    <3> QED
      BY <1>1, <2>2, <3>1, <3>2, <3>3, BeforeIsOrder
  <2> QED
    BY <2>3, <2>4
<1>9. ASSUME NEW i \in 1..Len(s)
      PROVE  s[i].seq < nextSeq + 1
  <2>1. s[i] = e \/ \E n \in 1..Len(entries) : s[i] = entries[n]
    BY <1>7
  <2>2. e.seq < nextSeq + 1
    BY <1>1, <1>2
  <2>3. \A n \in 1..Len(entries) : entries[n].seq < nextSeq + 1
    <3>1. \A f \in Entry : f.seq \in Nat
      BY DEF Entry
    <3> QED
      BY <1>1, <1>2, <3>1
  <2> QED
    BY <2>1, <2>2, <2>3
<1>10. ASSUME NEW i \in 1..Len(s), NEW n \in 1..Len(s), i < n
       PROVE  Before(s[i], s[n])
  <2>1. CASE i <= k
    <3>1. i \in 1..Len(entries) /\ s[i] = entries[i]
      BY <1>1, <1>7, <2>1
    <3>2. CASE n <= k
      <4>1. n \in 1..Len(entries) /\ s[n] = entries[n]
        BY <1>1, <1>7, <3>2
      <4> QED
        BY <1>10, <3>1, <4>1 DEF QInv, QSorted
    <3>3. CASE n = k + 1
      BY <1>7, <1>8, <2>1, <3>1, <3>3
    <3>4. CASE n > k + 1
      <4>1. n - 1 \in 1..Len(entries) /\ s[n] = entries[n - 1] /\ i < n - 1
        BY <1>1, <1>7, <2>1, <3>4
      <4> QED
        BY <3>1, <4>1 DEF QInv, QSorted
    <3> QED
      BY <1>1, <3>2, <3>3, <3>4
  <2>2. CASE i = k + 1
    <3>1. n - 1 \in 1..Len(entries) /\ s[n] = entries[n - 1] /\ n - 1 > k
      BY <1>1, <1>7, <1>10, <2>2
    <3> QED
      BY <1>7, <1>8, <2>2, <3>1
  <2>3. CASE i > k + 1
    <3>1. i - 1 \in 1..Len(entries) /\ s[i] = entries[i - 1]
      BY <1>1, <1>7, <2>3
    <3>2. n - 1 \in 1..Len(entries) /\ s[n] = entries[n - 1] /\ i - 1 < n - 1
      BY <1>1, <1>7, <1>10, <2>3
    <3> QED
      BY <3>1, <3>2 DEF QInv, QSorted
  <2> QED
    BY <1>1, <2>1, <2>2, <2>3
<1>11. QInv'
  <2>1. QTyped'
    BY <1>1, <1>3, <1>5 DEF QTyped
  <2>2. QBelow'
    BY <1>3, <1>5, <1>9 DEF QBelow
  <2>3. QSorted'
    BY <1>5, <1>10 DEF QSorted
  <2> QED
    BY <2>1, <2>2, <2>3 DEF QInv
<1>12. Abstract!Push(j)
  <2>1. ToSet(entries) = {entries[i] : i \in 1..Len(entries)}
    BY <1>1 DEF ToSet
  <2>2. ToSet(s) = {s[i] : i \in 1..Len(s)}
    BY DEF ToSet
  <2>3. ToSet(s) = ToSet(entries) \cup {e}
    BY <1>7, <2>1, <2>2
  <2>4. ToSet(entries)' = ToSet(s)
    BY <1>5 DEF ToSet
  <2> QED
    BY <1>3, <2>3, <2>4 DEF Abstract!Push, e
<1> QED
  BY <1>11, <1>12

\* Taking the first entry that fits takes the first that is eligible.
LEMMA TakeStep ==
  ASSUME QInv, NEW R, TakeFirst(R)
  PROVE  QInv' /\ Abstract!TakeFirst({e \in ToSet(entries) : e.job \in R})
<1> DEFINE held == ToSet(entries)
           S == {e \in held : e.job \in R}
           k == FirstFit(R)
<1>1. entries \in Seq(Entry) /\ nextSeq \in Nat /\ Len(entries) \in Nat
  BY DEF QInv, QTyped
<1>2. \A i \in 1..Len(entries) : entries[i] \in Entry
  BY <1>1, ElementOfSeq
<1>3. held = {entries[i] : i \in 1..Len(entries)}
  BY <1>1 DEF ToSet
<1>4. /\ nextSeq' = nextSeq
      /\ IF k = 0 THEN got' = NoEntry /\ entries' = entries
         ELSE got' = entries[k] /\ entries' = RemoveAt(entries, k)
  BY DEF TakeFirst, FirstFit
<1>5. IF Fitting(R) = {} THEN k = 0 ELSE k \in Fitting(R) /\ \A i \in Fitting(R) : k <= i
  BY FirstFits DEF QInv
<1> HIDE DEF k, held
<1>6. CASE Fitting(R) = {}
  <2>1. k = 0 /\ got' = NoEntry /\ entries' = entries
    BY <1>4, <1>5, <1>6
  <2>2. S = {}
    BY <1>3, <1>6 DEF Fitting
  <2>3. QInv'
    BY <1>4, <2>1 DEF QInv, QTyped, QBelow, QSorted
  <2>4. ToSet(entries)' = ToSet(entries)
    BY <2>1 DEF ToSet
  <2> QED
    BY <1>4, <2>1, <2>2, <2>3, <2>4 DEF Abstract!TakeFirst, held
<1>7. CASE Fitting(R) # {}
  <2>1. k \in 1..Len(entries) /\ entries[k].job \in R
    BY <1>5, <1>7 DEF Fitting
  <2>2. k # 0 /\ got' = entries[k] /\ entries' = RemoveAt(entries, k)
    BY <1>1, <1>4, <2>1
  <2>3. PICK s \in Seq(Entry) : s = entries'
    BY <1>1, <2>1, <2>2, Removed
  <2>4. /\ Len(s) = Len(entries) - 1
        /\ \A i \in 1..(Len(entries) - 1) :
             s[i] = IF i < k THEN entries[i] ELSE entries[i + 1]
    BY <1>1, <2>1, <2>2, <2>3, Removed
  <2>5. /\ \A i \in 1..Len(s) : \/ i < k /\ i \in 1..Len(entries) /\ s[i] = entries[i]
                                \/ i >= k /\ i + 1 \in 1..Len(entries) /\ s[i] = entries[i + 1]
        /\ \A i \in 1..Len(entries) : \/ i < k /\ i \in 1..Len(s) /\ s[i] = entries[i]
                                      \/ i = k
                                      \/ i > k /\ i - 1 \in 1..Len(s) /\ s[i - 1] = entries[i]
    <3>1. \A i \in 1..Len(s) : \/ i < k /\ i \in 1..Len(entries) /\ s[i] = entries[i]
                               \/ i >= k /\ i + 1 \in 1..Len(entries) /\ s[i] = entries[i + 1]
      BY <1>1, <2>1, <2>4
    <3>2. ASSUME NEW i \in 1..Len(entries)
          PROVE  \/ i < k /\ i \in 1..Len(s) /\ s[i] = entries[i]
                 \/ i = k
                 \/ i > k /\ i - 1 \in 1..Len(s) /\ s[i - 1] = entries[i]
      <4>1. CASE i < k
        BY <1>1, <2>1, <2>4, <4>1
      <4>2. CASE i > k
        <5>1. i - 1 \in 1..(Len(entries) - 1) /\ ~(i - 1 < k) /\ (i - 1) + 1 = i
          BY <1>1, <2>1, <4>2
        <5> QED
          BY <2>4, <4>2, <5>1
      <4> QED
        BY <1>1, <2>1, <4>1, <4>2
    <3> QED
      BY <3>1, <3>2
  <2>6. QInv'
    <3>1. QTyped'
      BY <1>1, <1>4, <2>3 DEF QTyped
    <3>2. QBelow'
      BY <1>4, <2>3, <2>5 DEF QInv, QBelow
    <3>3. ASSUME NEW i \in 1..Len(s), NEW n \in 1..Len(s), i < n
          PROVE  Before(s[i], s[n])
      <4>1. PICK a \in 1..Len(entries) : s[i] = entries[a] /\ a = IF i < k THEN i ELSE i + 1
        BY <1>1, <2>1, <2>5
      <4>2. PICK b \in 1..Len(entries) : s[n] = entries[b] /\ b = IF n < k THEN n ELSE n + 1
        BY <1>1, <2>1, <2>5
      <4>3. a < b
        BY <1>1, <2>1, <3>3, <4>1, <4>2
      <4> QED
        BY <4>1, <4>2, <4>3 DEF QInv, QSorted
    <3>4. QSorted'
      BY <2>3, <3>3 DEF QSorted
    <3> QED
      BY <3>1, <3>2, <3>4 DEF QInv
  <2>7. ASSUME NEW i \in 1..Len(entries), i # k
        PROVE  entries[i] # entries[k]
    <3>1. Before(entries[i], entries[k]) \/ Before(entries[k], entries[i])
      BY <1>1, <2>1, <2>7 DEF QInv, QSorted
    <3>2. entries[i] \in Entry /\ entries[k] \in Entry
      BY <1>2, <2>1
    <3> QED
      BY <3>1, <3>2, BeforeIsOrder
  <2>8. ToSet(s) = held \ {entries[k]}
    <3>1. ToSet(s) = {s[i] : i \in 1..Len(s)}
      BY DEF ToSet
    <3>2. ASSUME NEW i \in 1..Len(s)
          PROVE  s[i] \in held \ {entries[k]}
      <4>1. PICK a \in 1..Len(entries) : s[i] = entries[a] /\ a # k
        BY <1>1, <2>1, <2>5
      <4> QED
        BY <1>3, <2>7, <4>1
    <3>3. ASSUME NEW i \in 1..Len(entries), entries[i] # entries[k]
          PROVE  entries[i] \in ToSet(s)
      BY <2>5, <3>1, <3>3
    <3> QED
      BY <1>3, <3>1, <3>2, <3>3
  <2>9. Abstract!IsFirst(entries[k], S)
    <3>1. entries[k] \in S
      BY <1>3, <2>1
    <3>2. ASSUME NEW f \in S \ {entries[k]}
          PROVE  Before(entries[k], f)
      <4>1. PICK i \in 1..Len(entries) : f = entries[i] /\ entries[i].job \in R
        BY <1>3, <3>2
      <4>2. i # k /\ k <= i
        BY <1>5, <1>7, <3>2, <4>1 DEF Fitting
      <4>3. k < i
        BY <1>1, <2>1, <4>2
      <4> QED
        BY <2>1, <4>1, <4>3 DEF QInv, QSorted
    <3> QED
      BY <3>1, <3>2 DEF Abstract!IsFirst, Abstract!Before, Before
  <2>10. ToSet(entries)' = held \ {entries[k]}
    BY <2>3, <2>8 DEF ToSet
  <2>11. entries[k] \in S
    BY <1>3, <2>1
  <2> QED
    BY <1>4, <2>2, <2>6, <2>9, <2>10, <2>11 DEF Abstract!TakeFirst, held
<1> QED
  BY <1>6, <1>7

\* Every operation is one of the abstract queue, and keeps the order.
LEMMA QueueStep ==
  ASSUME QInv, [Next]_jqVars
  PROVE  QInv' /\ [Abstract!Next]_(Abstract!pqVars)
<1>1. CASE \E j \in Job : Push(j)
  <2>1. PICK j \in Job : Push(j)
    BY <1>1
  <2>2. QInv' /\ Abstract!Push(j)
    BY <2>1, PushStep
  <2> QED
    BY <2>2 DEF Abstract!Next
<1>2. CASE \E j \in Job : RemoveJob(j)
  <2>1. PICK j \in Job : TakeFirst({j})
    BY <1>2 DEF RemoveJob
  <2>2. QInv' /\ Abstract!TakeFirst({e \in ToSet(entries) : e.job \in {j}})
    BY <2>1, TakeStep
  <2>3. {e \in ToSet(entries) : e.job \in {j}} = {e \in ToSet(entries) : e.job = j}
    OBVIOUS
  <2>4. Abstract!RemoveJob(j)
    BY <2>2, <2>3 DEF Abstract!RemoveJob, Abstract!EntriesOf
  <2> QED
    BY <2>2, <2>4 DEF Abstract!Next
<1>3. CASE \E R \in SUBSET Job : PopReady(R)
  <2>1. PICK R \in SUBSET Job : TakeFirst(R)
    BY <1>3 DEF PopReady
  <2>2. QInv' /\ Abstract!PopReady(R)
    BY <2>1, TakeStep DEF Abstract!PopReady
  <2> QED
    BY <2>2 DEF Abstract!Next
<1>4. CASE UNCHANGED jqVars
  BY <1>4 DEF jqVars, QInv, QTyped, QBelow, QSorted, Abstract!pqVars, ToSet
<1> QED
  BY <1>1, <1>2, <1>3, <1>4 DEF Next

(* The vector of queue.rs:75-127 behaves as the abstract priority queue: where
   partition_point puts an entry keeps the order, so the first position that
   fits holds the first eligible entry, and no operation loses another. *)
THEOREM QueueCorrect == Spec => RefinesPriorityQueue
<1>1. Init => QInv
  BY DEF Init, QInv, QTyped, QBelow, QSorted
<1>2. Init => Abstract!Init
  BY DEF Init, Abstract!Init, ToSet
<1>3. QInv /\ [Next]_jqVars => QInv' /\ [Abstract!Next]_(Abstract!pqVars)
  BY QueueStep
<1> QED
  BY <1>1, <1>2, <1>3, PTL DEF Spec, RefinesPriorityQueue, Abstract!Spec
=============================================================================
