------------------------------ MODULE MediaProofs ------------------------------
(***************************************************************************)
(* What is proved of proxies and thumbnails, for any source, profiles,     *)
(* payload sizes and intervals: that a proxy keeps the time of its source, *)
(* that any part of it reads back as the frames that are there in full,    *)
(* and that thumbnails show their time.                                    *)
(*                                                                         *)
(* Two recursive functions are reasoned about, the frame table and the     *)
(* ends of the frames: first that their equation has a solution, then, by  *)
(* induction on numbers, what any solution is.                             *)
(***************************************************************************)
EXTENDS MediaProperties, TLAPS, NaturalsInduction, WellFoundedInduction, SequenceTheorems

\* Division of numbers.
LEMMA Quotient ==
  ASSUME NEW a \in Nat, NEW d \in Nat \ {0}
  PROVE  /\ a \div d \in Nat
         /\ d * (a \div d) <= a /\ a < d * (a \div d) + d
  OBVIOUS

\* Quotients of numbers that are at most the divisor apart.
LEMMA NextQuotient ==
  ASSUME NEW s \in Nat \ {0}, NEW t \in Nat \ {0}, s <= t, NEW n \in Nat
  PROVE  LET b == (n * s) \div t
             c == ((n + 1) * s) \div t
         IN  c = b \/ (c = b + 1 /\ n * s < t * c)
<1> DEFINE b == (n * s) \div t
           c == ((n + 1) * s) \div t
           x == n * s
           y == (n + 1) * s
<1>1. x \in Nat /\ y \in Nat /\ y = x + s
  OBVIOUS
<1>2. b \in Nat /\ t * b <= x /\ x < t * b + t
  <2> HIDE DEF x
  <2> QED
    BY <1>1, Quotient
<1>3. c \in Nat /\ t * c <= y /\ y < t * c + t
  <2> HIDE DEF y
  <2> QED
    BY <1>1, Quotient
<1> HIDE DEF b, c, x, y
<1>4. t * b < t * c + t /\ t * c < t * b + t + t
  BY <1>1, <1>2, <1>3
<1>5. b < c + 1 /\ c < b + 2
  BY <1>2, <1>3, <1>4
<1>6. c = b \/ c = b + 1
  BY <1>2, <1>3, <1>5
<1>7. c = b + 1 => t * c = t * b + t
  BY <1>2
<1>8. c = b + 1 => x < t * c
  BY <1>2, <1>7
<1> QED
  BY <1>6, <1>8 DEF b, c, x, y
\* Every nonempty set of numbers has a least one.
LEMMA LeastNumber ==
  ASSUME NEW S, S \subseteq Nat, S # {}
  PROVE  \E n \in S : \A m \in S : n <= m
<1> DEFINE R == OpToRel(<, Nat)
<1>1. IsWellFoundedOn(R, Nat)
  BY NatLessThanWellFounded
<1>2. \A a, b \in Nat : a < b => <<a, b>> \in R
  BY DEF OpToRel
<1> HIDE DEF R
<1>3. PICK n \in S : \A m \in S : ~ (<<m, n>> \in R)
  BY <1>1, WFMin
<1>4. \A m \in S : m \in Nat /\ n \in Nat
  OBVIOUS
<1>5. \A m \in S : ~ (m < n)
  BY <1>2, <1>3, <1>4
<1>6. \A m \in S : n <= m
  BY <1>4, <1>5
<1> QED
  BY <1>6

\* Induction, for a property given as the set of numbers that have it.
LEMMA AllNumbers ==
  ASSUME NEW S, 0 \in S, \A n \in Nat : n \in S => n + 1 \in S
  PROVE  \A n \in Nat : n \in S
<1> SUFFICES ASSUME NEW x \in Nat, x \notin S
             PROVE  FALSE
  OBVIOUS
<1>1. PICK n \in Nat \ S : \A m \in Nat \ S : n <= m
  <2>1. Nat \ S \subseteq Nat /\ Nat \ S # {}
    OBVIOUS
  <2> QED
    BY <2>1, LeastNumber
<1>2. n # 0 /\ n - 1 \in Nat /\ (n - 1) + 1 = n /\ ~ (n <= n - 1)
  BY <1>1
<1>3. n - 1 \in S
  BY <1>1, <1>2
<1> QED
  BY <1>1, <1>2, <1>3

\* The same up to a number, and from a number down.
LEMMA AllUpTo ==
  ASSUME NEW S, NEW b \in Nat, 0 \in S, \A n \in 0..(b - 1) : n \in S => n + 1 \in S
  PROVE  \A n \in 0..b : n \in S
<1> DEFINE U == {n \in Nat : n <= b => n \in S}
<1>1. 0 \in U
  OBVIOUS
<1>2. ASSUME NEW n \in Nat, n \in U
      PROVE  n + 1 \in U
  <2> SUFFICES ASSUME n + 1 <= b
               PROVE  n + 1 \in S
    OBVIOUS
  <2>1. n <= b /\ n \in 0..(b - 1)
    OBVIOUS
  <2> QED
    BY <1>2, <2>1
<1> HIDE DEF U
<1>3. \A n \in Nat : n \in U
  BY <1>1, <1>2, AllNumbers
<1> QED
  BY <1>3 DEF U

\* From a number down to zero.
LEMMA AllDownFrom ==
  ASSUME NEW S, NEW b \in Nat, b \in S, \A n \in 0..(b - 1) : n + 1 \in S => n \in S
  PROVE  \A n \in 0..b : n \in S
<1> DEFINE U == {n \in 0..b : b - n \in S}
<1>1. 0 \in U
  OBVIOUS
<1>2. ASSUME NEW n \in 0..(b - 1), n \in U
      PROVE  n + 1 \in U
  <2>1. b - (n + 1) \in 0..(b - 1) /\ (b - (n + 1)) + 1 = b - n
    OBVIOUS
  <2>2. b - (n + 1) \in S
    BY <1>2, <2>1
  <2> QED
    BY <2>2
<1> HIDE DEF U
<1>3. \A n \in 0..b : n \in U
  BY <1>1, <1>2, AllUpTo
<1> SUFFICES ASSUME NEW n \in 0..b
             PROVE  n \in S
  OBVIOUS
<1>4. b - n \in 0..b /\ b - (b - n) = n
  OBVIOUS
<1>5. b - n \in U
  BY <1>3, <1>4
<1> QED
  BY <1>4, <1>5 DEF U

\* Every nonempty set of numbers with a bound has a greatest one.
LEMMA GreatestNumber ==
  ASSUME NEW S, NEW b \in Nat, S \subseteq 0..b, S # {}
  PROVE  \E n \in S : \A m \in S : m <= n
<1> DEFINE U == {b - n : n \in S}
<1>1. U \subseteq Nat
  <2>1. \A n \in S : b - n \in Nat
    OBVIOUS
  <2> QED
    BY <2>1
<1>2. U # {}
  <2>1. PICK n \in S : TRUE
    OBVIOUS
  <2>2. b - n \in U
    BY <2>1
  <2> QED
    BY <2>2
<1> HIDE DEF U
<1>3. PICK u \in U : \A v \in U : u <= v
  BY <1>1, <1>2, LeastNumber
<1>4. PICK n \in S : u = b - n
  BY DEF U
<1>5. ASSUME NEW m \in S
      PROVE  m <= n
  <2>1. b - m \in U
    BY DEF U
  <2>2. b - n <= b - m /\ m \in 0..b /\ n \in 0..b
    BY <1>3, <1>4, <2>1
  <2> QED
    BY <2>2
<1> QED
  BY <1>5
-----------------------------------------------------------------------------
(* Time: bucket numbers of consecutive frames differ by one at most when the  *)
(* profile does not raise the rate, so the number of frames kept is the last  *)
(* bucket plus one.                                                           *)

RenderTyped ==
  /\ enc \in {"idle", "encode"} /\ target \in Nat /\ next \in 0..Frames /\ lastBucket \in Int
  /\ kept \in Seq(Nat) /\ complete \in BOOLEAN

\* How many frames are kept, and what the last bucket is, after next frames.
Decimated ==
  /\ target = 0 => Len(kept) = next
  /\ target # 0 => /\ Len(kept) = lastBucket + 1
                   /\ lastBucket = IF next = 0 THEN -1 ELSE Bucket(next - 1)
  /\ complete => next = Frames

FramesInTime ==
  \A n \in 1..Len(kept) : /\ kept[n] * SourceTicks >= (n - 1) * Ticks(target)
                          /\ kept[n] * SourceTicks < (n - 1) * Ticks(target) + SourceTicks

TimeInv == RenderTyped /\ (Ticks(target) >= SourceTicks => Decimated /\ FramesInTime)

\* Frame durations are positive.
LEMMA TicksTyped ==
  ASSUME NEW t \in Nat
  PROVE  Ticks(t) \in Nat \ {0} /\ SourceTicks \in Nat \ {0} /\ (t = 0 => Ticks(t) = SourceTicks)
  BY ProxyStreamAssumption DEF Ticks

\* A frame of the source, kept or not.
LEMMA FrameEncoded ==
  ASSUME TimeInv, EncodeFrame
  PROVE  TimeInv'
<1> DEFINE s == SourceTicks
           t == Ticks(target)
<1>1. /\ s \in Nat \ {0} /\ t \in Nat \ {0} /\ (target = 0 => t = s)
      /\ next \in Nat /\ next + 1 \in 0..Frames /\ target' = target /\ next' = next + 1
      /\ kept \in Seq(Nat) /\ Len(kept) \in Nat /\ next < Frames /\ complete' = complete
      /\ enc' = enc /\ Frames \in Nat /\ lastBucket \in Int
  <2>1. s \in Nat \ {0} /\ t \in Nat \ {0} /\ (target = 0 => t = s)
    BY TicksTyped DEF TimeInv, RenderTyped
  <2>2. /\ next \in 0..Frames /\ Frames \in Nat /\ next < Frames
        /\ target' = target /\ next' = next + 1 /\ complete' = complete /\ enc' = enc
        /\ kept \in Seq(Nat) /\ lastBucket \in Int
    BY ProxyStreamAssumption DEF TimeInv, RenderTyped, EncodeFrame
  <2> HIDE DEF s, t
  <2> QED
    BY <2>1, <2>2
<1>2. Ticks(target') = t
  BY <1>1
<1>3. Bucket(next) \in Nat /\ Bucket(next) = (next * s) \div t
  <2> DEFINE a == next * s
  <2>1. a \in Nat
    BY <1>1
  <2> HIDE DEF a, t
  <2>2. a \div t \in Nat
    BY <1>1, <2>1, Quotient
  <2> QED
    BY <2>2 DEF Bucket, a, t
<1>4. /\ lastBucket' = IF target = 0 THEN lastBucket ELSE Bucket(next)
      /\ kept' = IF Keeps(next) THEN Append(kept, next) ELSE kept
      /\ Keeps(next) <=> target = 0 \/ Bucket(next) # lastBucket
  BY DEF EncodeFrame, Keeps
<1>5. RenderTyped'
  BY <1>1, <1>3, <1>4 DEF TimeInv, RenderTyped
<1> SUFFICES ASSUME s <= t
             PROVE  Decimated' /\ FramesInTime'
  BY <1>1, <1>2, <1>5 DEF TimeInv
<1>6. Decimated /\ FramesInTime
  BY <1>1 DEF TimeInv
<1>7. CASE target = 0
  <2>1. kept' = Append(kept, next) /\ Len(kept) = next
    BY <1>4, <1>6, <1>7 DEF Decimated
  <2>2. Decimated'
    BY <1>1, <1>6, <1>7, <2>1 DEF Decimated
  <2>3. FramesInTime'
    <3> SUFFICES ASSUME NEW n \in 1..Len(kept')
                 PROVE  /\ kept'[n] * s >= (n - 1) * t
                        /\ kept'[n] * s < (n - 1) * t + s
      BY <1>2 DEF FramesInTime
    <3>1. CASE n \in 1..Len(kept)
      BY <1>1, <1>6, <2>1, <3>1 DEF FramesInTime
    <3>2. CASE n = Len(kept) + 1
      <4>1. kept'[n] = n - 1 /\ t = s
        BY <1>1, <1>7, <2>1, <3>2
      <4>2. (n - 1) * s \in Nat
        BY <1>1, <3>2
      <4> QED
        BY <1>1, <4>1, <4>2
    <3> QED
      BY <1>1, <2>1, <3>1, <3>2
  <2> QED
    BY <2>2, <2>3
<1>8. CASE target # 0
  <2> DEFINE b == Bucket(next)
  <2>1. /\ lastBucket' = b /\ lastBucket = IF next = 0 THEN -1 ELSE Bucket(next - 1)
        /\ Len(kept) = lastBucket + 1
    BY <1>4, <1>6, <1>8 DEF Decimated
  \* The bucket is the last one or the next.
  <2>2. b = lastBucket \/ (b = lastBucket + 1 /\ next * s >= t * b /\ next * s < t * b + s)
    <3>1. next * s >= t * b
      <4> DEFINE a == next * s
      <4>1. a \in Nat
        BY <1>1
      <4> HIDE DEF a, t
      <4>2. t * (a \div t) <= a
        BY <1>1, <4>1, Quotient
      <4> QED
        BY <1>1, <1>3, <4>2 DEF a
    <3>2. CASE next = 0
      <4>1. next * s = 0
        BY <1>1, <3>2
      <4>2. b = 0
        BY <1>1, <1>3, <4>1
      <4>3. t * b = 0
        BY <1>1, <4>2
      <4> QED
        BY <1>1, <2>1, <3>2, <4>1, <4>2, <4>3
    <3>3. CASE next # 0
      <4> DEFINE m == next - 1
      <4>1. m \in Nat /\ m + 1 = next
        BY <1>1, <3>3
      <4>2. b = (m * s) \div t \/ (b = (m * s) \div t + 1 /\ m * s < t * b)
        <5> HIDE DEF m, s, t, b
        <5>1. b = ((m + 1) * s) \div t /\ s <= t
          BY <1>3, <4>1 DEF b, s, t
        <5> QED
          BY <1>1, <4>1, <5>1, NextQuotient
      <4>3. lastBucket = (m * s) \div t
        BY <2>1, <3>3 DEF Bucket
      <4>4. next * s = m * s + s /\ m * s \in Nat
        BY <1>1, <4>1
      <4>5. t * b \in Nat
        BY <1>1, <1>3
      <4> HIDE DEF m, s, t, b
      <4> QED
        BY <1>1, <3>1, <4>2, <4>3, <4>4, <4>5
    <3> QED
      BY <3>2, <3>3
  <2> HIDE DEF b
  <2>3. Decimated'
    <3>1. Len(kept') = b + 1
      BY <1>1, <1>3, <1>4, <1>8, <2>1, <2>2, SMTT(20) DEF b
    <3> QED
      BY <1>1, <1>2, <1>6, <1>8, <2>1, <3>1 DEF Decimated, Bucket, b
  <2>4. FramesInTime'
    <3> SUFFICES ASSUME NEW n \in 1..Len(kept')
                 PROVE  /\ kept'[n] * s >= (n - 1) * t
                        /\ kept'[n] * s < (n - 1) * t + s
      BY <1>2 DEF FramesInTime
    <3>1. CASE n \in 1..Len(kept)
      <4>1. kept'[n] = kept[n]
        BY <1>1, <1>4, <3>1
      <4> QED
        BY <1>6, <3>1, <4>1 DEF FramesInTime
    <3>2. CASE n \notin 1..Len(kept)
      <4>1. kept' = Append(kept, next) /\ n = Len(kept) + 1 /\ b # lastBucket
        BY <1>1, <1>4, <1>8, <3>2 DEF b
      <4>2. kept'[n] = next /\ n - 1 = b
        BY <1>1, <2>1, <2>2, <4>1, SMTT(20)
      <4>3. (n - 1) * t = t * b
        BY <1>1, <1>3, <4>2 DEF b
      <4> QED
        BY <2>2, <4>1, <4>2, <4>3
    <3> QED
      BY <3>1, <3>2
  <2> QED
    BY <2>3, <2>4
<1> QED
  BY <1>7, <1>8

\* A render that begins has no frames.
LEMMA RenderBegins ==
  ASSUME TimeInv, NEW t \in Targets, Render(t)
  PROVE  TimeInv'
<1>1. /\ enc' = "encode" /\ target' = t /\ next' = 0 /\ lastBucket' = -1 /\ kept' = <<>>
      /\ complete' = FALSE /\ t \in Nat /\ Frames \in Nat
  BY ProxyStreamAssumption DEF Render
<1>2. RenderTyped'
  <2>1. kept' \in Seq(Nat) /\ next' \in 0..Frames /\ lastBucket' \in Int
    BY <1>1
  <2> QED
    BY <1>1, <2>1 DEF RenderTyped
<1>3. Decimated' /\ FramesInTime'
  BY <1>1 DEF Decimated, FramesInTime
<1> QED
  BY <1>2, <1>3 DEF TimeInv

\* A step that leaves the frames alone, and completes a render at its end only.
LEMMA FramesKept ==
  ASSUME TimeInv, UNCHANGED <<target, next, lastBucket, kept>>,
         enc' \in {"idle", "encode"}, complete' = complete \/ (complete' = TRUE /\ next = Frames)
  PROVE  TimeInv'
<1>1. RenderTyped'
  BY DEF TimeInv, RenderTyped
<1>2. Ticks(target)' = Ticks(target)
  BY DEF Ticks
<1>3. Decimated => Decimated'
  BY DEF Decimated, Bucket, Ticks
<1>4. FramesInTime => FramesInTime'
  BY DEF FramesInTime, Ticks
<1> QED
  BY <1>1, <1>2, <1>3, <1>4 DEF TimeInv

\* TimeInv is inductive.
LEMMA StepKeepsTime ==
  ASSUME TimeInv, [Next]_vars
  PROVE  TimeInv'
<1>1. CASE UNCHANGED encVars
  BY <1>1, FramesKept DEF encVars, TimeInv, RenderTyped
<1>2. CASE BeginRender
  BY <1>2, RenderBegins DEF BeginRender
<1>3. CASE EncodeFrame
  BY <1>3, FrameEncoded
<1>4. CASE FlushSome \/ FinishRender
  BY <1>4, FramesKept DEF FlushSome, FinishRender
<1>5. CASE RenderFails
  BY <1>5, FramesKept DEF RenderFails, FailRender
<1>6. CASE Crash
  BY <1>6, FramesKept DEF Crash, CutRender
<1>7. UNCHANGED encVars \/ BeginRender \/ EncodeFrame \/ FlushSome \/ FinishRender
      \/ RenderFails \/ Crash
  BY DEF Next, vars, RenderStep, Create, OpenMovie, OpenStream, ScanTable, DecodeMovie, DecodeAt,
     WriteThumbnail, Abandon, Cancel
<1> QED
  BY <1>1, <1>2, <1>3, <1>4, <1>5, <1>6, <1>7

\* The last frame kept is the one shown when the last source frame begins.
LEMMA WholeInTime ==
  ASSUME TimeInv, Ticks(target) >= SourceTicks, complete
  PROVE  /\ Len(kept) * Ticks(target) > (Frames - 1) * SourceTicks
         /\ (Len(kept) - 1) * Ticks(target) <= (Frames - 1) * SourceTicks
<1> DEFINE s == SourceTicks
           t == Ticks(target)
           a == (Frames - 1) * s
<1>1. /\ s \in Nat \ {0} /\ t \in Nat \ {0} /\ (target = 0 => t = s)
  BY TicksTyped DEF TimeInv, RenderTyped
<1>2. Frames \in Nat \ {0} /\ next = Frames /\ Decimated
  BY ProxyStreamAssumption DEF TimeInv, Decimated
<1>3. a \in Nat /\ Frames * s = a + s
  <2> HIDE DEF s
  <2> QED
    BY <1>1, <1>2
<1>4. CASE target = 0
  <2>1. Len(kept) = Frames /\ t = s
    BY <1>1, <1>2, <1>4 DEF Decimated
  <2> HIDE DEF s, t
  <2>2. Len(kept) * t = a + s /\ (Len(kept) - 1) * t = a
    BY <1>3, <2>1
  <2> HIDE DEF a
  <2> QED
    BY <1>1, <1>3, <2>2 DEF a, s, t
<1>5. CASE target # 0
  <2> DEFINE b == a \div t
  <2>1. Len(kept) = b + 1
    BY <1>2, <1>5 DEF Decimated, Bucket
  <2>2. b \in Nat /\ t * b <= a /\ a < t * b + t
    <3> HIDE DEF a, t
    <3> QED
      BY <1>1, <1>3, Quotient
  <2> HIDE DEF a, b, s, t
  <2>3. Len(kept) * t = t * b + t /\ (Len(kept) - 1) * t = t * b
    BY <1>1, <2>1, <2>2
  <2>4. Len(kept) * t > a /\ (Len(kept) - 1) * t <= a
    BY <2>2, <2>3
  <2> QED
    BY <2>4 DEF a, s, t
<1> QED
  BY <1>4, <1>5

\* TimeInv holds initially.
LEMMA TimeBegins == InitAll => TimeInv
<1> SUFFICES ASSUME Init
             PROVE  TimeInv
  BY DEF InitAll
<1>1. RenderTyped
  <2>1. kept \in Seq(Nat) /\ next \in 0..Frames /\ lastBucket \in Int
    BY ProxyStreamAssumption DEF Init
  <2> QED
    BY <2>1 DEF Init, RenderTyped
<1>2. Decimated /\ FramesInTime
  BY DEF Init, Decimated, FramesInTime
<1> QED
  BY <1>1, <1>2 DEF TimeInv

(* Each frame of a proxy is the first source frame that begins when it is
   shown or later, and a complete proxy ends with the source, for any number
   of frames and any frame duration that is not below the source's, whatever
   renders fail, crash or are repeated. *)
THEOREM TimeKept == Spec => []KeepsTime
<1>1. TimeInv /\ [Next]_vars => TimeInv'
  BY StepKeepsTime
<1>2. TimeInv => KeepsTime
  <2> SUFFICES ASSUME TimeInv, Ticks(target) >= SourceTicks
               PROVE  /\ FramesInTime
                      /\ complete => /\ Len(kept) * Ticks(target) > (Frames - 1) * SourceTicks
                                     /\ (Len(kept) - 1) * Ticks(target)
                                          <= (Frames - 1) * SourceTicks
    BY DEF KeepsTime, FramesInTime
  <2> QED
    BY WholeInTime DEF TimeInv
<1> QED
  BY <1>1, <1>2, TimeBegins, PTL DEF Spec
-----------------------------------------------------------------------------
(* The frame table. *)

\* What a file is made of, and what a frame table is.
Unit == {"head", "len", "pay"} \X Nat \X Nat
File == Seq(Unit)
Entry == [at : Nat, len : Nat]

\* What a reader finds at c, if f is what it finds at a later place.
EntriesAt(file, f, c) ==
  IF c + PrefixLen > Len(file) THEN <<>>
  ELSE IF file[c + 1][2] > Len(file) - (c + PrefixLen) THEN <<>>
  ELSE << [at |-> c + PrefixLen, len |-> file[c + 1][2]] >> \o f[c + PrefixLen + file[c + 1][2]]

IsScan(file, f) == f = [c \in Nat |-> EntriesAt(file, f, c)]

\* The frame table, with its recursion named.
LEMMA TableIsScan ==
  ASSUME NEW file
  PROVE  Table(file) = (CHOOSE f : IsScan(file, f))[HeaderLen]
  BY DEF Table, IsScan, EntriesAt

\* A length is a number, and a frame ends after it begins.
LEMMA LengthRead ==
  ASSUME NEW file \in File, NEW c \in Nat, ~ (c + PrefixLen > Len(file))
  PROVE  /\ Len(file) \in Nat /\ file[c + 1][2] \in Nat
         /\ c + PrefixLen + file[c + 1][2] \in Nat /\ c + 1 \in 1..Len(file)
<1>1. Len(file) \in Nat /\ c + 1 \in 1..Len(file)
  BY DEF File, PrefixLen
<1>2. file[c + 1] \in Unit
  BY <1>1 DEF File
<1>3. file[c + 1][2] \in Nat
  BY <1>2 DEF Unit
<1> QED
  BY <1>1, <1>3 DEF PrefixLen

\* What a reader finds is a table if what it finds later is.
LEMMA EntriesTyped ==
  ASSUME NEW file \in File, NEW f, NEW c \in Nat,
         \A d \in Nat : d > c => f[d] \in Seq(Entry)
  PROVE  EntriesAt(file, f, c) \in Seq(Entry)
<1> DEFINE len == file[c + 1][2]
           e == [at |-> c + PrefixLen, len |-> len]
<1>1. CASE c + PrefixLen > Len(file)
  BY <1>1 DEF EntriesAt
<1>2. CASE ~ (c + PrefixLen > Len(file))
  <2>1. len \in Nat /\ c + PrefixLen + len \in Nat
    BY <1>2, LengthRead
  <2>2. c + PrefixLen + len > c
    BY <2>1 DEF PrefixLen
  <2>3. f[c + PrefixLen + len] \in Seq(Entry)
    BY <2>1, <2>2
  <2>4. e \in Entry
    BY <2>1 DEF Entry, PrefixLen
  <2>5. <<e>> \in Seq(Entry)
    BY <2>4
  <2>6. <<e>> \o f[c + PrefixLen + len] \in Seq(Entry)
    <3> HIDE DEF e, len
    <3> QED
      BY <2>3, <2>5, ConcatProperties
  <2>7. EntriesAt(file, f, c) \in {<<>>, <<e>> \o f[c + PrefixLen + len]}
    BY <1>2 DEF EntriesAt
  <2> QED
    BY <2>6, <2>7, EmptySeq
<1> QED
  BY <1>1, <1>2

\* Only what is found later matters.
LEMMA EntriesOfLater ==
  ASSUME NEW file \in File, NEW f, NEW g, NEW c \in Nat, \A d \in Nat : d > c => f[d] = g[d]
  PROVE  EntriesAt(file, f, c) = EntriesAt(file, g, c)
<1>1. CASE c + PrefixLen > Len(file)
  BY <1>1 DEF EntriesAt
<1>2. CASE ~ (c + PrefixLen > Len(file))
  <2> DEFINE d == c + PrefixLen + file[c + 1][2]
  <2>1. d \in Nat /\ d > c
    BY <1>2, LengthRead DEF PrefixLen
  <2>2. f[d] = g[d]
    BY <2>1
  <2> QED
    BY <2>2 DEF EntriesAt
<1> QED
  BY <1>1, <1>2

ScansFrom(file, n, g) ==
  /\ g \in [Nat -> Seq(Entry)]
  /\ \A c \in Nat : c + n >= Len(file) => g[c] = EntriesAt(file, g, c)

\* The equation of the frame table has a solution: from the end of the file to
\* its beginning.
LEMMA ScanExists ==
  ASSUME NEW file \in File
  PROVE  \E f : IsScan(file, f)
<1> DEFINE S == {n \in Nat : \E g \in [Nat -> Seq(Entry)] : ScansFrom(file, n, g)}
<1>0. Len(file) \in Nat
  BY DEF File
<1>1. 0 \in S
  <2> DEFINE g == [c \in Nat |-> <<>>]
  <2>1. g \in [Nat -> Seq(Entry)]
    OBVIOUS
  <2>2. ASSUME NEW c \in Nat, c + 0 >= Len(file)
        PROVE  g[c] = EntriesAt(file, g, c)
    BY <1>0, <2>2 DEF EntriesAt, PrefixLen
  <2>3. ScansFrom(file, 0, g)
    BY <2>1, <2>2 DEF ScansFrom
  <2> QED
    BY <2>1, <2>3
<1>2. ASSUME NEW n \in Nat, n \in S
      PROVE  n + 1 \in S
  <2>1. PICK g \in [Nat -> Seq(Entry)] : ScansFrom(file, n, g)
    BY <1>2
  <2> DEFINE h == [c \in Nat |-> IF c + n >= Len(file) THEN g[c] ELSE EntriesAt(file, g, c)]
  <2>2. h \in [Nat -> Seq(Entry)]
    <3>1. \A c \in Nat : EntriesAt(file, g, c) \in Seq(Entry)
      BY EntriesTyped
    <3> QED
      BY <3>1
  <2>3. ASSUME NEW c \in Nat, c + (n + 1) >= Len(file)
        PROVE  h[c] = EntriesAt(file, h, c)
    <3>1. h[c] = EntriesAt(file, g, c)
      BY <2>1 DEF ScansFrom
    <3>2. \A d \in Nat : d > c => h[d] = g[d]
      BY <1>0, <2>3
    <3> HIDE DEF h
    <3>3. EntriesAt(file, h, c) = EntriesAt(file, g, c)
      BY <3>2, EntriesOfLater
    <3> QED
      BY <3>1, <3>3
  <2> HIDE DEF h
  <2>4. ScansFrom(file, n + 1, h)
    BY <2>2, <2>3 DEF ScansFrom
  <2> QED
    BY <2>2, <2>4
<1> HIDE DEF S
<1>3. Len(file) \in S
  BY <1>0, <1>1, <1>2, AllNumbers
<1>4. PICK g \in [Nat -> Seq(Entry)] : ScansFrom(file, Len(file), g)
  BY <1>3 DEF S
<1>5. \A c \in Nat : g[c] = EntriesAt(file, g, c)
  BY <1>0, <1>4 DEF ScansFrom
<1>6. g = [c \in Nat |-> EntriesAt(file, g, c)]
  BY <1>5
<1> QED
  BY <1>6 DEF IsScan

\* The frame table of a file is what its scan finds after the header.
LEMMA TableOf ==
  ASSUME NEW file \in File
  PROVE  \E f : /\ Table(file) = f[HeaderLen]
                /\ \A c \in Nat : f[c] \in Seq(Entry) /\ f[c] = EntriesAt(file, f, c)
<1> DEFINE f == CHOOSE g : IsScan(file, g)
<1>1. IsScan(file, f)
  BY ScanExists
<1>2. Table(file) = f[HeaderLen]
  BY TableIsScan
<1> HIDE DEF f
<1>3. \A c \in Nat : f[c] = EntriesAt(file, f, c)
  BY <1>1 DEF IsScan
<1>4. Len(file) \in Nat
  BY DEF File
<1> DEFINE S == {n \in Nat : \A c \in Nat : c + n >= Len(file) => f[c] \in Seq(Entry)}
<1>5. 0 \in S
  <2>1. \A c \in Nat : c + 0 >= Len(file) => EntriesAt(file, f, c) = <<>>
    BY <1>4 DEF EntriesAt, PrefixLen
  <2>2. \A c \in Nat : c + 0 >= Len(file) => f[c] \in Seq(Entry)
    BY <1>3, <2>1, EmptySeq
  <2> QED
    BY <2>2
<1>6. ASSUME NEW n \in Nat, n \in S
      PROVE  n + 1 \in S
  <2> SUFFICES ASSUME NEW c \in Nat, c + (n + 1) >= Len(file)
               PROVE  f[c] \in Seq(Entry)
    OBVIOUS
  <2>1. \A d \in Nat : d > c => f[d] \in Seq(Entry)
    BY <1>4, <1>6
  <2> QED
    BY <1>3, <2>1, EntriesTyped
<1>7. Len(file) \in S
  <2> HIDE DEF S
  <2> QED
    BY <1>4, <1>5, <1>6, AllNumbers
<1>8. \A c \in Nat : f[c] \in Seq(Entry)
  BY <1>4, <1>7
<1> QED
  BY <1>2, <1>3, <1>8

\* A frame table is a sequence of entries.
LEMMA TableTyped ==
  ASSUME NEW file \in File
  PROVE  Table(file) \in Seq(Entry)
<1>1. PICK f : /\ Table(file) = f[HeaderLen]
               /\ \A c \in Nat : f[c] \in Seq(Entry) /\ f[c] = EntriesAt(file, f, c)
  BY TableOf
<1> QED
  BY <1>1 DEF HeaderLen
-----------------------------------------------------------------------------
(* The ends of the frames. *)

\* What the assumptions say of frames.
LEMMA SizesTyped ==
  /\ Frames \in Nat \ {0} /\ SourceTicks \in Nat \ {0}
  /\ \A k \in Frame : k \in Nat /\ SizeOf[k] \in Nat \ {0}
  BY ProxyStreamAssumption DEF Frame

\* Whether these are the ends of the frames, up to the first n.
AreEnds(frames, n, end) ==
  /\ end[0] = HeaderLen
  /\ \A m \in 1..n : end[m] = end[m - 1] + PrefixLen + SizeOf[frames[m]]

IsEnds(frames, end) ==
  end = [n \in 0..Len(frames) |->
           IF n = 0 THEN HeaderLen ELSE end[n - 1] + PrefixLen + SizeOf[frames[n]]]

\* The equation of the ends has a solution: from the first frame to the last.
LEMMA EndsExist ==
  ASSUME NEW frames \in Seq(Frame)
  PROVE  \E end : IsEnds(frames, end)
<1> DEFINE L == Len(frames)
           S == {n \in Nat : n <= L => \E end \in [0..L -> Nat] : AreEnds(frames, n, end)}
<1>0. L \in Nat
  OBVIOUS
<1>1. 0 \in S
  <2> DEFINE end == [n \in 0..L |-> HeaderLen]
  <2>1. end \in [0..L -> Nat] /\ AreEnds(frames, 0, end)
    BY <1>0 DEF AreEnds, HeaderLen
  <2> QED
    BY <2>1
<1>2. ASSUME NEW n \in Nat, n \in S
      PROVE  n + 1 \in S
  <2> SUFFICES ASSUME n + 1 <= L
               PROVE  \E end \in [0..L -> Nat] : AreEnds(frames, n + 1, end)
    OBVIOUS
  <2>1. PICK end \in [0..L -> Nat] : AreEnds(frames, n, end)
    BY <1>0, <1>2
  <2>2. end[n] \in Nat /\ SizeOf[frames[n + 1]] \in Nat
    BY <1>0, SizesTyped
  <2> DEFINE e == end[n] + PrefixLen + SizeOf[frames[n + 1]]
             new == [m \in 0..L |-> IF m = n + 1 THEN e ELSE end[m]]
  <2>3. e \in Nat
    BY <2>2 DEF PrefixLen
  <2>4. new \in [0..L -> Nat]
    BY <2>3
  <2>5. new[0] = HeaderLen
    BY <2>1 DEF AreEnds
  <2>6. ASSUME NEW m \in 1..(n + 1)
        PROVE  new[m] = new[m - 1] + PrefixLen + SizeOf[frames[m]]
    <3>1. m \in 0..L /\ m - 1 \in 0..L /\ m - 1 # n + 1 /\ new[m - 1] = end[m - 1]
      BY <1>0
    <3>2. CASE m = n + 1
      <4>1. new[m] = e /\ m - 1 = n
        BY <3>1, <3>2
      <4> HIDE DEF new
      <4> QED
        BY <3>1, <3>2, <4>1
    <3>3. CASE m # n + 1
      <4>1. m \in 1..n /\ new[m] = end[m]
        BY <3>1, <3>3
      <4> HIDE DEF new
      <4> QED
        BY <2>1, <3>1, <4>1 DEF AreEnds
    <3> QED
      BY <3>2, <3>3
  <2> HIDE DEF new
  <2> QED
    BY <2>4, <2>5, <2>6 DEF AreEnds
<1>3. L \in S
  <2> HIDE DEF S
  <2> QED
    BY <1>0, <1>1, <1>2, AllNumbers
<1>4. PICK end \in [0..L -> Nat] : AreEnds(frames, L, end)
  BY <1>0, <1>3
<1>5. \A n \in 0..L : end[n] = IF n = 0 THEN HeaderLen
                               ELSE end[n - 1] + PrefixLen + SizeOf[frames[n]]
  BY <1>4 DEF AreEnds
<1>6. IsEnds(frames, end)
  BY <1>4, <1>5 DEF IsEnds
<1> QED
  BY <1>6

\* Ends satisfies its equation, and is a function to numbers.
LEMMA EndsOf ==
  ASSUME NEW frames \in Seq(Frame)
  PROVE  /\ Ends(frames)[0] = HeaderLen
         /\ \A n \in 1..Len(frames) :
              Ends(frames)[n] = Ends(frames)[n - 1] + PrefixLen + SizeOf[frames[n]]
         /\ \A n \in 0..Len(frames) : Ends(frames)[n] \in Nat
<1> DEFINE end == CHOOSE e : IsEnds(frames, e)
           L == Len(frames)
<1>1. Ends(frames) = end
  BY DEF Ends, IsEnds
<1>2. IsEnds(frames, end)
  BY EndsExist
<1> HIDE DEF end
<1>3. L \in Nat
  OBVIOUS
<1>4. \A n \in 0..L : end[n] = IF n = 0 THEN HeaderLen
                               ELSE end[n - 1] + PrefixLen + SizeOf[frames[n]]
  BY <1>2 DEF IsEnds
<1>5. end[0] = HeaderLen /\ \A n \in 1..L : end[n] = end[n - 1] + PrefixLen + SizeOf[frames[n]]
  BY <1>3, <1>4
<1> DEFINE S == {n \in 0..L : end[n] \in Nat}
<1>6. 0 \in S
  BY <1>3, <1>5 DEF HeaderLen
<1>7. ASSUME NEW n \in 0..(L - 1), n \in S
      PROVE  n + 1 \in S
  <2>1. n + 1 \in 1..L /\ (n + 1) - 1 = n
    BY <1>3
  <2>2. SizeOf[frames[n + 1]] \in Nat
    BY <2>1, SizesTyped
  <2>3. end[n + 1] = end[n] + PrefixLen + SizeOf[frames[n + 1]]
    BY <1>5, <2>1
  <2> QED
    BY <1>3, <1>7, <2>1, <2>2, <2>3 DEF PrefixLen
<1>8. \A n \in 0..L : n \in S
  <2> HIDE DEF S
  <2> QED
    BY <1>3, <1>6, <1>7, AllUpTo
<1> QED
  BY <1>1, <1>5, <1>8

\* The ends are in order.
LEMMA EndsGrow ==
  ASSUME NEW frames \in Seq(Frame), NEW n \in 0..Len(frames)
  PROVE  Ends(frames)[n] <= Ends(frames)[Len(frames)]
<1> DEFINE L == Len(frames)
           S == {m \in 0..L : Ends(frames)[m] <= Ends(frames)[L]}
<1>1. L \in Nat
  OBVIOUS
<1>2. L \in S
  BY <1>1, EndsOf
<1>3. ASSUME NEW m \in 0..(L - 1), m + 1 \in S
      PROVE  m \in S
  <2>1. m + 1 \in 1..L /\ m \in 0..L /\ L \in 0..L /\ (m + 1) - 1 = m
    BY <1>1
  <2>2. /\ Ends(frames)[m + 1] = Ends(frames)[m] + PrefixLen + SizeOf[frames[m + 1]]
        /\ Ends(frames)[m] \in Nat /\ Ends(frames)[m + 1] \in Nat /\ Ends(frames)[L] \in Nat
    BY <1>1, <2>1, EndsOf
  <2>3. SizeOf[frames[m + 1]] \in Nat
    BY <2>1, SizesTyped
  <2> QED
    BY <1>3, <2>1, <2>2, <2>3 DEF PrefixLen
<1>4. \A m \in 0..L : m \in S
  <2> HIDE DEF S
  <2> QED
    BY <1>1, <1>2, <1>3, AllDownFrom
<1> QED
  BY <1>4

\* A frame more leaves the ends of the others where they are.
LEMMA EndsAppend ==
  ASSUME NEW frames \in Seq(Frame), NEW k \in Frame
  PROVE  /\ Append(frames, k) \in Seq(Frame) /\ Len(Append(frames, k)) = Len(frames) + 1
         /\ \A n \in 0..Len(frames) : Ends(Append(frames, k))[n] = Ends(frames)[n]
         /\ Ends(Append(frames, k))[Len(frames) + 1]
              = Ends(frames)[Len(frames)] + PrefixLen + SizeOf[k]
<1> DEFINE L == Len(frames)
           more == Append(frames, k)
<1>1. /\ L \in Nat /\ more \in Seq(Frame) /\ Len(more) = L + 1
      /\ (\A n \in 1..L : more[n] = frames[n]) /\ more[L + 1] = k
  BY AppendProperties
<1> HIDE DEF more
<1> DEFINE S == {n \in 0..L : Ends(more)[n] = Ends(frames)[n]}
<1>2. 0 \in S
  BY <1>1, EndsOf
<1>3. ASSUME NEW n \in 0..(L - 1), n \in S
      PROVE  n + 1 \in S
  <2>1. n + 1 \in 1..L /\ n + 1 \in 1..Len(more) /\ (n + 1) - 1 = n /\ n + 1 \in 0..L
    BY <1>1
  <2>2. Ends(more)[n + 1] = Ends(more)[n] + PrefixLen + SizeOf[more[n + 1]]
    BY <1>1, <2>1, EndsOf
  <2>3. Ends(frames)[n + 1] = Ends(frames)[n] + PrefixLen + SizeOf[frames[n + 1]]
    BY <1>1, <2>1, EndsOf
  <2>4. Ends(more)[n] = Ends(frames)[n] /\ more[n + 1] = frames[n + 1]
    BY <1>1, <1>3, <2>1
  <2>5. Ends(more)[n + 1] = Ends(frames)[n + 1]
    BY <2>2, <2>3, <2>4
  <2> QED
    BY <2>1, <2>5
<1>4. \A n \in 0..L : n \in S
  <2> HIDE DEF S
  <2> QED
    BY <1>1, <1>2, <1>3, AllUpTo
<1>5. Ends(more)[L + 1] = Ends(more)[L] + PrefixLen + SizeOf[k]
  <2>1. L + 1 \in 1..Len(more) /\ (L + 1) - 1 = L
    BY <1>1
  <2> QED
    BY <1>1, <2>1, EndsOf
<1>6. L \in S
  BY <1>1, <1>4
<1> QED
  BY <1>1, <1>4, <1>5, <1>6 DEF more
-----------------------------------------------------------------------------
(* Files that hold the beginning of a stream. *)

\* A file holds the beginning of a stream of these frames.
Layout(file, frames) ==
  /\ Len(file) <= Ends(frames)[Len(frames)]
  /\ \A n \in 1..Len(frames) : \A q \in 1..(PrefixLen + SizeOf[frames[n]]) :
       Ends(frames)[n - 1] + q <= Len(file) =>
         file[Ends(frames)[n - 1] + q] = Encoded(frames[n])[q]

\* The units of the encoding of a frame.
LEMMA EncodedIs ==
  ASSUME NEW k \in Frame
  PROVE  /\ Encoded(k) \in File /\ Len(Encoded(k)) = PrefixLen + SizeOf[k]
         /\ Encoded(k)[1] = <<"len", SizeOf[k], 1>>
         /\ \A q \in 1..SizeOf[k] : Encoded(k)[PrefixLen + q] = <<"pay", k, q>>
<1> DEFINE len == << <<"len", SizeOf[k], 1>>, <<"len", SizeOf[k], 2>> >>
           pay == [n \in 1..SizeOf[k] |-> <<"pay", k, n>>]
<1>1. k \in Nat /\ SizeOf[k] \in Nat
  BY SizesTyped
<1>2. len \in Seq(Unit) /\ Len(len) = 2 /\ len[1] = <<"len", SizeOf[k], 1>>
  <2>1. "len" \in {"head", "len", "pay"} /\ SizeOf[k] \in Nat /\ 1 \in Nat /\ 2 \in Nat
    BY <1>1
  <2>2. <<"len", SizeOf[k], 1>> \in Unit /\ <<"len", SizeOf[k], 2>> \in Unit
    BY ONLY <2>1, Zenon DEF Unit
  <2> QED
    BY <2>2
<1>3. pay \in Seq(Unit) /\ Len(pay) = SizeOf[k]
  <2>1. ASSUME NEW n \in 1..SizeOf[k]
        PROVE  <<"pay", k, n>> \in Unit
    <3>1. "pay" \in {"head", "len", "pay"} /\ k \in Nat /\ n \in Nat
      BY <1>1
    <3> QED
      BY ONLY <3>1, Zenon DEF Unit
  <2> QED
    BY <1>1, <2>1
<1>4. \A q \in 1..SizeOf[k] : pay[q] = <<"pay", k, q>>
  OBVIOUS
<1>5. Encoded(k) = len \o pay
  BY DEF Encoded
<1> HIDE DEF len, pay
<1>6. /\ len \o pay \in Seq(Unit) /\ Len(len \o pay) = 2 + SizeOf[k]
      /\ \A i \in 1..(Len(len) + Len(pay)) :
           (len \o pay)[i] = IF i <= Len(len) THEN len[i] ELSE pay[i - Len(len)]
  <2>1. Len(len \o pay) = Len(len) + Len(pay)
    BY <1>2, <1>3, ConcatProperties
  <2> QED
    BY <1>2, <1>3, <2>1, ConcatProperties
<1>7. Encoded(k)[1] = len[1]
  BY <1>1, <1>2, <1>3, <1>5, <1>6
<1>8. ASSUME NEW q \in 1..SizeOf[k]
      PROVE  Encoded(k)[PrefixLen + q] = pay[q]
  <2>1. 2 + q \in 1..(Len(len) + Len(pay)) /\ ~ (2 + q <= Len(len)) /\ (2 + q) - Len(len) = q
    BY <1>1, <1>2, <1>3
  <2> QED
    BY <1>5, <1>6, <2>1 DEF PrefixLen
<1> QED
  BY <1>2, <1>4, <1>5, <1>6, <1>7, <1>8 DEF File, PrefixLen

\* A frame written after the others.
LEMMA LayoutAppend ==
  ASSUME NEW file \in File, NEW frames \in Seq(Frame), NEW k \in Frame,
         Layout(file, frames), Len(file) = Ends(frames)[Len(frames)]
  PROVE  /\ file \o Encoded(k) \in File
         /\ Layout(file \o Encoded(k), Append(frames, k))
         /\ Len(file \o Encoded(k)) = Ends(Append(frames, k))[Len(frames) + 1]
<1> DEFINE L == Len(frames)
           more == Append(frames, k)
           new == file \o Encoded(k)
<1>1. L \in Nat /\ Len(file) \in Nat /\ SizeOf[k] \in Nat /\ PrefixLen \in Nat
  BY SizesTyped DEF File, PrefixLen
<1>2. /\ more \in Seq(Frame) /\ Len(more) = L + 1
      /\ (\A n \in 1..L : more[n] = frames[n]) /\ more[L + 1] = k
  BY AppendProperties
<1>3. /\ \A n \in 0..L : Ends(more)[n] = Ends(frames)[n]
      /\ Ends(more)[L + 1] = Ends(frames)[L] + PrefixLen + SizeOf[k]
  BY EndsAppend
<1>4. Encoded(k) \in File /\ Len(Encoded(k)) = PrefixLen + SizeOf[k]
  BY EncodedIs
<1>5. /\ new \in File /\ Len(new) = Len(file) + Len(Encoded(k))
      /\ \A i \in 1..(Len(file) + Len(Encoded(k))) :
           new[i] = IF i <= Len(file) THEN file[i] ELSE Encoded(k)[i - Len(file)]
  BY <1>4, ConcatProperties DEF File
<1> HIDE DEF more, new
<1>6. Len(new) = Ends(more)[L + 1]
  BY <1>1, <1>3, <1>4, <1>5
<1>7. ASSUME NEW n \in 1..Len(more), NEW q \in 1..(PrefixLen + SizeOf[more[n]]),
             Ends(more)[n - 1] + q <= Len(new)
      PROVE  new[Ends(more)[n - 1] + q] = Encoded(more[n])[q]
  <2>1. CASE n = L + 1
    <3>1. n - 1 = L /\ Ends(more)[n - 1] = Len(file) /\ more[n] = k
      BY <1>1, <1>2, <1>3, <2>1
    <3>2. /\ Len(file) + q \in 1..(Len(file) + Len(Encoded(k)))
          /\ ~ (Len(file) + q <= Len(file)) /\ (Len(file) + q) - Len(file) = q
      <4>1. q \in 1..(PrefixLen + SizeOf[k])
        BY <3>1
      <4>2. q \in Nat /\ q >= 1 /\ q <= Len(Encoded(k)) /\ Len(Encoded(k)) \in Nat
        BY <1>1, <1>4, <4>1
      <4> QED
        BY ONLY <1>1, <4>2
    <3> QED
      BY <1>5, <3>1, <3>2
  <2>2. CASE n # L + 1
    <3>1. n \in 1..L /\ n - 1 \in 0..L /\ n \in 0..L
      BY <1>1, <1>2, <2>2
    <3>2. more[n] = frames[n] /\ Ends(more)[n - 1] = Ends(frames)[n - 1]
      BY <1>2, <1>3, <3>1
    <3>3. /\ Ends(frames)[n] = Ends(frames)[n - 1] + PrefixLen + SizeOf[frames[n]]
          /\ Ends(frames)[n - 1] \in Nat /\ Ends(frames)[n] <= Len(file)
          /\ Ends(frames)[n] \in Nat
      BY <3>1, EndsOf, EndsGrow
    <3>4. SizeOf[frames[n]] \in Nat
      BY <3>1, SizesTyped
    <3> DEFINE p == Ends(frames)[n - 1] + q
    <3>5. /\ p \in Nat /\ p <= Len(file) /\ p \in 1..(Len(file) + Len(Encoded(k)))
          /\ q \in 1..(PrefixLen + SizeOf[frames[n]])
      <4>1. q \in 1..(PrefixLen + SizeOf[frames[n]])
        BY <3>2
      <4>2. q \in Nat /\ q >= 1 /\ q <= PrefixLen + SizeOf[frames[n]]
        BY <1>1, <3>4, <4>1
      <4>3. p \in Nat /\ p >= 1 /\ p <= Ends(frames)[n]
        <5> DEFINE a == Ends(frames)[n - 1]
                   b == Ends(frames)[n]
                   s == SizeOf[frames[n]]
        <5>1. a \in Nat /\ b = a + 2 + s /\ s \in Nat /\ q \in Nat /\ q >= 1 /\ q <= 2 + s
          BY <3>3, <3>4, <4>2 DEF PrefixLen
        <5> HIDE DEF a, b, s
        <5>2. a + q \in Nat /\ a + q >= 1 /\ a + q <= b
          BY <5>1
        <5> QED
          BY <5>2 DEF a, b
      <4> HIDE DEF p
      <4>4. /\ p <= Len(file)
            /\ Len(file) \in Nat /\ Len(Encoded(k)) \in Nat
        BY <1>1, <1>4, <3>3, <4>3
      <4>5. p \in 1..(Len(file) + Len(Encoded(k)))
        BY ONLY <4>3, <4>4
      <4> QED
        BY <4>1, <4>3, <4>4, <4>5
    <3>6. file[p] = Encoded(frames[n])[q]
      BY <3>1, <3>5 DEF Layout
    <3>7. new[p] = file[p]
      <4> HIDE DEF p
      <4> QED
        BY <1>5, <3>5
    <3> QED
      BY <3>2, <3>6, <3>7
  <2> QED
    BY <2>1, <2>2
<1>8. Layout(new, more)
  <2>1. Len(new) <= Ends(more)[Len(more)]
    BY <1>1, <1>2, <1>4, <1>5, <1>6
  <2> QED
    BY <1>7, <2>1 DEF Layout
<1> QED
  BY <1>5, <1>6, <1>8 DEF more, new

\* A file that is cut anywhere.
LEMMA LayoutCut ==
  ASSUME NEW file \in File, NEW rest \in File, NEW frames \in Seq(Frame),
         Layout(file \o rest, frames)
  PROVE  Layout(file, frames)
<1> DEFINE whole == file \o rest
<1>1. /\ Len(file) \in Nat /\ Len(rest) \in Nat /\ Len(whole) = Len(file) + Len(rest)
      /\ \A i \in 1..(Len(file) + Len(rest)) :
           whole[i] = IF i <= Len(file) THEN file[i] ELSE rest[i - Len(file)]
  BY ConcatProperties DEF File
<1> HIDE DEF whole
<1>2. Layout(whole, frames)
  BY DEF whole
<1>3. Len(file) <= Ends(frames)[Len(frames)]
  BY <1>1, <1>2, EndsOf DEF Layout
<1>4. ASSUME NEW n \in 1..Len(frames), NEW q \in 1..(PrefixLen + SizeOf[frames[n]]),
             Ends(frames)[n - 1] + q <= Len(file)
      PROVE  file[Ends(frames)[n - 1] + q] = Encoded(frames[n])[q]
  <2> DEFINE p == Ends(frames)[n - 1] + q
  <2>1. n - 1 \in 0..Len(frames)
    OBVIOUS
  <2>2. SizeOf[frames[n]] \in Nat /\ Ends(frames)[n - 1] \in Nat
    BY <2>1, SizesTyped, EndsOf
  <2>3. p \in 1..Len(file) /\ p \in 1..(Len(file) + Len(rest)) /\ p <= Len(whole)
    BY <1>1, <1>4, <2>2 DEF PrefixLen
  <2>4. whole[p] = Encoded(frames[n])[q]
    BY <1>2, <2>3 DEF Layout
  <2>5. whole[p] = file[p]
    <3> HIDE DEF p
    <3> QED
      BY <1>1, <2>3
  <2> QED
    BY <2>4, <2>5
<1> QED
  BY <1>3, <1>4 DEF Layout

\* The entry of frame n of a stream of these frames.
EntryOf(frames, n) == [at |-> Ends(frames)[n - 1] + PrefixLen, len |-> SizeOf[frames[n]]]

\* A table lists the frames that are in the file in full.
Lists(entries, file, frames) ==
  /\ Len(entries) <= Len(frames)
  /\ \A n \in 1..Len(entries) : /\ entries[n] = EntryOf(frames, n)
                                /\ Ends(frames)[n] <= Len(file)

\* An entry, and the ends around its frame.
LEMMA EntryTyped ==
  ASSUME NEW frames \in Seq(Frame), NEW n \in 1..Len(frames)
  PROVE  /\ EntryOf(frames, n) \in Entry
         /\ n - 1 \in 0..Len(frames) /\ n \in 0..Len(frames)
         /\ Ends(frames)[n - 1] \in Nat /\ Ends(frames)[n] \in Nat
         /\ SizeOf[frames[n]] \in Nat \ {0}
         /\ Ends(frames)[n] = Ends(frames)[n - 1] + PrefixLen + SizeOf[frames[n]]
<1>1. n - 1 \in 0..Len(frames) /\ n \in 0..Len(frames)
  OBVIOUS
<1>2. frames[n] \in Frame /\ Ends(frames)[n - 1] \in Nat /\ Ends(frames)[n] \in Nat
  BY <1>1, EndsOf
<1>3. SizeOf[frames[n]] \in Nat \ {0}
  BY <1>2, SizesTyped
<1>4. Ends(frames)[n] = Ends(frames)[n - 1] + PrefixLen + SizeOf[frames[n]]
  BY EndsOf
<1>5. Ends(frames)[n - 1] + PrefixLen \in Nat
  BY <1>2 DEF PrefixLen
<1>6. EntryOf(frames, n) \in Entry
  BY <1>3, <1>5 DEF EntryOf, Entry
<1> QED
  BY <1>1, <1>2, <1>3, <1>4, <1>6

\* The length prefix of a frame of which it is in the file.
LEMMA LengthIs ==
  ASSUME NEW file \in File, NEW frames \in Seq(Frame), Layout(file, frames),
         NEW n \in 1..Len(frames), Ends(frames)[n - 1] + PrefixLen <= Len(file)
  PROVE  file[Ends(frames)[n - 1] + 1][2] = SizeOf[frames[n]]
<1>1. Len(file) \in Nat /\ Ends(frames)[n - 1] \in Nat /\ SizeOf[frames[n]] \in Nat
  BY EntryTyped DEF File
<1>2. 1 \in 1..(PrefixLen + SizeOf[frames[n]]) /\ Ends(frames)[n - 1] + 1 <= Len(file)
  BY <1>1 DEF PrefixLen
<1>3. file[Ends(frames)[n - 1] + 1] = Encoded(frames[n])[1]
  BY <1>2 DEF Layout
<1>4. Encoded(frames[n])[1] = <<"len", SizeOf[frames[n]], 1>>
  BY EncodedIs
<1> QED
  BY <1>3, <1>4

\* The scan of a stream, from the end of any frame that is in the file.
LEMMA TableReads ==
  ASSUME NEW file \in File, NEW frames \in Seq(Frame), Layout(file, frames),
         Len(file) >= HeaderLen
  PROVE  /\ Table(file) \in Seq(Entry) /\ Lists(Table(file), file, frames)
         /\ Len(Table(file)) < Len(frames) =>
              Ends(frames)[Len(Table(file)) + 1] > Len(file)
<1> DEFINE L == Len(frames)
           E == Ends(frames)
           S == {n \in 0..L : n = L \/ E[n + 1] > Len(file)}
<1>1. PICK f : /\ Table(file) = f[HeaderLen]
               /\ \A c \in Nat : f[c] \in Seq(Entry) /\ f[c] = EntriesAt(file, f, c)
  BY TableOf
<1>2. L \in Nat /\ Len(file) \in Nat
  BY DEF File
<1>3. E[0] = HeaderLen /\ (\A n \in 0..L : E[n] \in Nat)
  BY EndsOf
\* N frames are there in full.
<1>4. PICK N \in S : \A m \in S : N <= m
  <2>1. S \subseteq Nat /\ L \in S
    BY <1>2
  <2> HIDE DEF S
  <2> QED
    BY <2>1, LeastNumber
<1>5. N \in 0..L /\ (N = L \/ E[N + 1] > Len(file))
  BY <1>4
<1>6. \A n \in 0..(N - 1) : n \in 0..(L - 1) /\ E[n + 1] <= Len(file)
  <2> SUFFICES ASSUME NEW n \in 0..(N - 1), E[n + 1] > Len(file)
               PROVE  FALSE
    BY <1>2, <1>3, <1>5
  <2>1. n \in S /\ ~ (N <= n)
    BY <1>2, <1>5
  <2> QED
    BY <1>4, <2>1
<1> HIDE DEF S
<1> DEFINE Rest(n) == [i \in 1..(N - n) |-> EntryOf(frames, n + i)]
           U == {n \in 0..N : f[E[n]] = Rest(n)}
<1>7. N \in U
  <2>1. E[N] \in Nat
    BY <1>3, <1>5
  <2>2. EntriesAt(file, f, E[N]) = <<>>
    <3>1. CASE N = L
      <4>1. E[N] + PrefixLen > Len(file)
        BY <1>2, <2>1, <3>1 DEF Layout, PrefixLen
      <4> QED
        BY <4>1 DEF EntriesAt
    <3>2. CASE N # L /\ E[N] + PrefixLen <= Len(file)
      <4>1. N + 1 \in 1..L /\ (N + 1) - 1 = N
        BY <1>2, <1>5, <3>2
      <4>2. file[E[N] + 1][2] = SizeOf[frames[N + 1]]
        BY <3>2, <4>1, LengthIs
      <4>3. E[N + 1] = E[N] + PrefixLen + SizeOf[frames[N + 1]] /\ SizeOf[frames[N + 1]] \in Nat
        BY <4>1, EntryTyped
      <4>4. SizeOf[frames[N + 1]] > Len(file) - (E[N] + PrefixLen)
        BY <1>2, <1>5, <2>1, <3>2, <4>3 DEF PrefixLen
      <4> QED
        BY <4>2, <4>4 DEF EntriesAt
    <3>3. CASE ~ (E[N] + PrefixLen <= Len(file))
      <4>1. E[N] + PrefixLen > Len(file)
        BY <1>2, <2>1, <3>3 DEF PrefixLen
      <4> QED
        BY <4>1 DEF EntriesAt
    <3> QED
      BY <3>1, <3>2, <3>3
  <2>3. Rest(N) = <<>>
    BY <1>2, <1>5
  <2>4. f[E[N]] = Rest(N)
    BY <1>1, <2>1, <2>2, <2>3
  <2> QED
    BY <1>2, <1>5, <2>4
<1>8. ASSUME NEW n \in 0..(N - 1), n + 1 \in U
      PROVE  n \in U
  <2>1. n + 1 \in 1..L /\ (n + 1) - 1 = n /\ n \in 0..N /\ n \in Nat
    BY <1>2, <1>5
  <2>2. /\ E[n + 1] = E[n] + PrefixLen + SizeOf[frames[n + 1]]
        /\ SizeOf[frames[n + 1]] \in Nat /\ E[n] \in Nat /\ E[n + 1] \in Nat
        /\ EntryOf(frames, n + 1) \in Entry
    BY <2>1, EntryTyped
  <2>3. E[n] + PrefixLen + SizeOf[frames[n + 1]] <= Len(file)
    BY <1>6, <2>2
  <2>4. /\ ~ (E[n] + PrefixLen > Len(file)) /\ E[n] + PrefixLen <= Len(file)
        /\ ~ (SizeOf[frames[n + 1]] > Len(file) - (E[n] + PrefixLen))
    <3> DEFINE from == E[n]
               size == SizeOf[frames[n + 1]]
               all == Len(file)
    <3>1. from \in Nat /\ size \in Nat /\ all \in Nat /\ from + 2 + size <= all
      BY <1>2, <2>2, <2>3 DEF PrefixLen
    <3> HIDE DEF from, size, all
    <3>2. ~ (from + 2 > all) /\ from + 2 <= all /\ ~ (size > all - (from + 2))
      BY ONLY <3>1
    <3> QED
      BY <3>2 DEF from, size, all, PrefixLen
  <2>5. file[E[n] + 1][2] = SizeOf[frames[n + 1]]
    BY <2>1, <2>4, LengthIs
  <2>6. EntryOf(frames, n + 1) = [at |-> E[n] + PrefixLen, len |-> SizeOf[frames[n + 1]]]
    BY <2>1 DEF EntryOf
  <2>7. EntriesAt(file, f, E[n]) = << EntryOf(frames, n + 1) >> \o f[E[n + 1]]
    BY <2>2, <2>4, <2>5, <2>6 DEF EntriesAt
  <2>8. f[E[n]] = << EntryOf(frames, n + 1) >> \o Rest(n + 1)
    BY <1>1, <1>8, <2>2, <2>7
  <2>9. << EntryOf(frames, n + 1) >> \o Rest(n + 1) = Rest(n)
    <3>1. \A m \in 0..N : Rest(m) \in Seq(Entry) /\ Len(Rest(m)) = N - m
      <4> SUFFICES ASSUME NEW m \in 0..N
                   PROVE  Rest(m) \in Seq(Entry) /\ Len(Rest(m)) = N - m
        OBVIOUS
      <4>1. \A i \in 1..(N - m) : EntryOf(frames, m + i) \in Entry
        <5> SUFFICES ASSUME NEW i \in 1..(N - m)
                     PROVE  EntryOf(frames, m + i) \in Entry
          OBVIOUS
        <5>1. m + i \in 1..L
          BY <1>2, <1>5
        <5> QED
          BY <5>1, EntryTyped
      <4>2. N - m \in Nat
        BY <1>2, <1>5
      <4> QED
        BY <4>1, <4>2
    <3>2. /\ Rest(n) \in Seq(Entry) /\ Len(Rest(n)) = N - n
          /\ Rest(n + 1) \in Seq(Entry) /\ Len(Rest(n + 1)) = N - (n + 1)
      <4>1. n + 1 \in 0..N
        BY <1>2, <1>5
      <4> QED
        BY <2>1, <3>1, <4>1
    <3>3. \A i \in 1..(N - n) : Rest(n)[i] = EntryOf(frames, n + i)
      OBVIOUS
    <3>4. \A i \in 1..(N - (n + 1)) : Rest(n + 1)[i] = EntryOf(frames, (n + 1) + i)
      OBVIOUS
    <3> DEFINE e == EntryOf(frames, n + 1)
               r == Rest(n + 1)
               all == Rest(n)
    <3>5. /\ <<e>> \in Seq(Entry) /\ Len(<<e>>) = 1 /\ <<e>>[1] = e
      BY <2>2
    <3> HIDE DEF Rest, e, r, all
    <3>6. /\ <<e>> \o r \in Seq(Entry) /\ Len(<<e>> \o r) = 1 + (N - (n + 1))
          /\ \A i \in 1..(Len(<<e>>) + Len(r)) :
               (<<e>> \o r)[i] = IF i <= Len(<<e>>) THEN <<e>>[i] ELSE r[i - Len(<<e>>)]
      <4>1. r \in Seq(Entry) /\ Len(r) = N - (n + 1)
        BY <3>2 DEF r
      <4>2. Len(<<e>> \o r) = Len(<<e>>) + Len(r)
        BY <3>5, <4>1, ConcatProperties
      <4> QED
        BY <3>5, <4>1, <4>2, ConcatProperties
    <3>7. ASSUME NEW i \in 1..Len(all)
          PROVE  (<<e>> \o r)[i] = all[i]
      <4>1. i \in 1..(N - n) /\ i \in Nat /\ n \in Nat /\ N \in Nat
        BY <1>5, <2>1, <3>2, <3>7 DEF all
      <4>2. Len(r) = N - (n + 1)
        BY <3>2 DEF r
      <4>3. all[i] = EntryOf(frames, n + i)
        BY <3>3, <4>1 DEF all
      <4>4. CASE i = 1
        BY <3>5, <3>6, <4>1, <4>2, <4>3, <4>4 DEF e
      <4>5. CASE i # 1
        <5>1. i - 1 \in 1..(N - (n + 1)) /\ (n + 1) + (i - 1) = n + i
          BY <4>1, <4>5
        <5>2. r[i - 1] = EntryOf(frames, n + i)
          BY <3>4, <5>1 DEF r
        <5> QED
          BY <3>5, <3>6, <4>1, <4>2, <4>3, <4>5, <5>2
      <4> QED
        BY <4>4, <4>5
    <3>8. Len(all) = 1 + (N - (n + 1)) /\ all \in Seq(Entry)
      BY <1>5, <2>1, <3>2 DEF all
    <3>9. <<e>> \o r = all
      BY <3>6, <3>7, <3>8, SeqEqual
    <3> QED
      BY <3>9 DEF e, r, all
  <2> QED
    BY <2>1, <2>8, <2>9
<1>9. 0 \in U
  <2>1. N \in Nat /\ 0 \in 0..N
    BY <1>5
  <2> HIDE DEF U
  <2> QED
    BY <1>7, <1>8, <2>1, AllDownFrom
<1>10. Table(file) = [i \in 1..N |-> EntryOf(frames, 0 + i)]
  <2>1. N - 0 = N
    BY <1>5
  <2> QED
    BY <1>1, <1>3, <1>9, <2>1
<1>11. Table(file) \in Seq(Entry)
  BY TableTyped
<1>12. Len(Table(file)) = N
  BY <1>5, <1>10
<1>13. ASSUME NEW n \in 1..N
       PROVE  Table(file)[n] = EntryOf(frames, n) /\ Ends(frames)[n] <= Len(file)
  <2>1. 0 + n = n /\ n - 1 \in 0..(N - 1) /\ (n - 1) + 1 = n
    BY <1>5
  <2>2. E[n] <= Len(file)
    BY <1>6, <2>1
  <2> QED
    BY <1>10, <2>1, <2>2
<1> QED
  BY <1>2, <1>5, <1>11, <1>12, <1>13 DEF Lists
-----------------------------------------------------------------------------
(* Rendering: what is in the file and the buffer together is the stream. *)

\* The stream as it is written: what has reached the file and what has not.
Written == disk \o buffer

StreamInv ==
  /\ disk \in File /\ buffer \in File /\ kept \in Seq(Frame)
  /\ Layout(Written, kept)
  /\ enc = "encode" => Len(Written) = Ends(kept)[Len(kept)]
  /\ enc = "idle" => buffer = <<>>
  /\ complete => enc = "idle" /\ Len(Written) = Ends(kept)[Len(kept)]
  /\ Len(Written) > 0 => target \in Targets /\ Written[1] = <<"head", Ticks(target), 1>>

\* A stream without frames.
LEMMA NoFrames ==
  /\ <<>> \in Seq(Frame) /\ Len(<<>>) = 0 /\ Ends(<<>>)[0] = HeaderLen /\ <<>> \in File
<1>1. <<>> \in Seq(Frame) /\ Len(<<>>) = 0 /\ <<>> \in File
  BY EmptySeq DEF File
<1> QED
  BY <1>1, EndsOf

\* Nothing has been written, whatever the frames.
LEMMA LayoutEmpty ==
  ASSUME NEW frames \in Seq(Frame)
  PROVE  Layout(<<>>, frames)
<1>1. Len(<<>>) = 0 /\ Len(frames) \in Nat /\ Ends(frames)[Len(frames)] \in Nat
  BY EndsOf
<1>2. ASSUME NEW n \in 1..Len(frames), NEW q \in 1..(PrefixLen + SizeOf[frames[n]])
      PROVE  ~ (Ends(frames)[n - 1] + q <= 0)
  <2>1. Ends(frames)[n - 1] \in Nat /\ SizeOf[frames[n]] \in Nat /\ PrefixLen \in Nat
    BY EntryTyped DEF PrefixLen
  <2> QED
    BY <2>1
<1> QED
  BY <1>1, <1>2 DEF Layout

\* A header without frames.
LEMMA LayoutHeader ==
  ASSUME NEW t \in Nat
  PROVE  /\ Header(t) \in File /\ Len(Header(t)) = HeaderLen
         /\ Header(t)[1] = <<"head", t, 1>> /\ Layout(Header(t), <<>>)
<1>1. Header(t) = << <<"head", t, 1>>, <<"head", t, 2>> >>
  BY DEF Header
<1>2. "head" \in {"head", "len", "pay"} /\ 1 \in Nat /\ 2 \in Nat
  OBVIOUS
<1>3. <<"head", t, 1>> \in Unit /\ <<"head", t, 2>> \in Unit
  BY <1>2, Zenon DEF Unit
<1>4. Header(t) \in File /\ Len(Header(t)) = 2 /\ Header(t)[1] = <<"head", t, 1>>
  BY <1>1, <1>3 DEF File
<1>5. Layout(Header(t), <<>>)
  BY <1>4, NoFrames DEF Layout, HeaderLen
<1> QED
  BY <1>4, <1>5 DEF HeaderLen

\* What TimeInv says of the frame that comes next.
LEMMA TimeGives ==
  ASSUME TimeInv
  PROVE  target \in Nat /\ next \in 0..Frames /\ Ticks(target) \in Nat \ {0}
         /\ (next < Frames => next \in Frame)
<1>1. target \in Nat /\ next \in 0..Frames
  BY DEF TimeInv, RenderTyped
<1> QED
  BY <1>1, TicksTyped, SizesTyped DEF Frame

\* The file is the beginning of the stream.
LEMMA WrittenIs ==
  ASSUME disk \in File, buffer \in File
  PROVE  /\ Written \in File /\ Len(disk) \in Nat /\ Len(buffer) \in Nat
         /\ Len(Written) = Len(disk) + Len(buffer)
         /\ \A i \in 1..Len(disk) : Written[i] = disk[i]
<1>1. Len(disk) \in Nat /\ Len(buffer) \in Nat
  BY DEF File
<1>2. Written \in File /\ Len(Written) = Len(disk) + Len(buffer)
  BY ConcatProperties DEF File, Written
<1>3. ASSUME NEW i \in 1..Len(disk)
      PROVE  Written[i] = disk[i]
  <2>1. i \in 1..(Len(disk) + Len(buffer)) /\ i <= Len(disk)
    BY <1>1
  <2> QED
    BY <2>1, ConcatProperties DEF File, Written
<1> QED
  BY <1>1, <1>2, <1>3

\* Writing in two pieces writes the same file.
LEMMA PiecesJoin ==
  ASSUME NEW a, NEW b, NEW c, a \in Seq(Unit), b \in Seq(Unit), c \in Seq(Unit)
  PROVE  a \o (b \o c) = (a \o b) \o c
BY ConcatAssociative

\* A frame of the source is written behind the others, or dropped.
LEMMA FrameLaidOut ==
  ASSUME TimeInv, StreamInv, EncodeFrame
  PROVE  StreamInv'
<1>1. /\ enc = "encode" /\ enc' = enc /\ disk' = disk /\ target' = target
      /\ complete' = complete /\ ~complete /\ next \in Frame /\ Ticks(target)' = Ticks(target)
  BY TimeGives DEF EncodeFrame, StreamInv, Ticks
<1>2. /\ disk \in File /\ buffer \in File /\ kept \in Seq(Frame) /\ Written \in File
      /\ Layout(Written, kept) /\ Len(Written) = Ends(kept)[Len(kept)]
  BY <1>1, WrittenIs DEF StreamInv
<1>3. CASE Keeps(next)
  <2>1. kept' = Append(kept, next) /\ buffer' = buffer \o Encoded(next)
    BY <1>3 DEF EncodeFrame
  <2>2. Encoded(next) \in File
    BY <1>1, EncodedIs
  <2>3. buffer' \in File
    BY <1>2, <2>1, <2>2, ConcatProperties DEF File
  <2>4. Written' = Written \o Encoded(next)
    <3>0. disk \in Seq(Unit) /\ buffer \in Seq(Unit) /\ Encoded(next) \in Seq(Unit)
      BY <1>2, <2>2 DEF File
    <3>1. disk \o (buffer \o Encoded(next)) = (disk \o buffer) \o Encoded(next)
      BY <3>0, PiecesJoin
    <3> QED
      BY <1>1, <2>1, <3>1 DEF Written
  <2>5. /\ Layout(Written', kept') /\ Len(Written') = Ends(kept')[Len(kept) + 1]
        /\ Written' \in File /\ kept' \in Seq(Frame) /\ Len(kept') = Len(kept) + 1
    BY <1>1, <1>2, <2>1, <2>4, LayoutAppend, EndsAppend
  <2>6. Len(Written) > 0 /\ Written'[1] = Written[1]
    <3>1. Ends(kept)[Len(kept)] \in Nat /\ Ends(kept)[0] = HeaderLen /\ 0 \in 0..Len(kept)
      BY <1>2, EndsOf
    <3>2. Ends(kept)[0] <= Ends(kept)[Len(kept)]
      BY <1>2, <3>1, EndsGrow
    <3>3. Len(Written) \in Nat /\ Len(Written) >= 1
      BY <1>2, <3>1, <3>2 DEF HeaderLen
    <3>4. /\ Len(Encoded(next)) \in Nat /\ 1 \in 1..(Len(Written) + Len(Encoded(next)))
          /\ 1 <= Len(Written)
      BY <2>2, <3>3 DEF File
    <3>5. (Written \o Encoded(next))[1] = Written[1]
      BY <1>2, <2>2, <3>4, ConcatProperties DEF File
    <3> QED
      BY <2>4, <3>3, <3>5
  <2>7. target' \in Targets /\ Written'[1] = <<"head", Ticks(target)', 1>>
    BY <1>1, <2>6 DEF StreamInv
  <2> QED
    BY <1>1, <1>2, <2>3, <2>5, <2>7 DEF StreamInv
<1>4. CASE ~Keeps(next)
  <2>1. kept' = kept /\ buffer' = buffer
    BY <1>4 DEF EncodeFrame
  <2>2. Written' = Written
    BY <1>1, <2>1 DEF Written
  <2> QED
    BY <1>1, <2>1, <2>2 DEF StreamInv
<1> QED
  BY <1>3, <1>4

\* A step that moves units from the buffer to the file.
LEMMA FlushLaidOut ==
  ASSUME StreamInv, FlushSome \/ FinishRender
  PROVE  StreamInv' /\ Written' = Written /\ Len(disk') >= Len(disk)
<1>1. /\ disk \in File /\ buffer \in File /\ kept' = kept /\ target' = target
      /\ Ticks(target)' = Ticks(target) /\ enc = "encode" /\ ~complete
  BY DEF StreamInv, FlushSome, FinishRender, Ticks
<1>2. CASE FlushSome
  <2>1. PICK n \in 1..Len(buffer) :
          /\ disk' = disk \o SubSeq(buffer, 1, n)
          /\ buffer' = SubSeq(buffer, n + 1, Len(buffer))
    BY <1>2 DEF FlushSome
  <2> DEFINE L == Len(buffer)
             a == SubSeq(buffer, 1, n)
             b == SubSeq(buffer, n + 1, L)
  <2>2. L \in Nat /\ n \in Int /\ n + 1 \in Int /\ 1 \in Int /\ L \in Int
    BY <1>1 DEF File
  <2>3. a \in File
    <3>1. \A i \in 1..n : buffer[i] \in Unit
      BY <1>1, <2>2 DEF File
    <3> QED
      BY <2>2, <3>1, SubSeqProperties DEF File
  <2>4. b \in File
    <3>1. \A i \in (n + 1)..L : buffer[i] \in Unit
      BY <1>1, <2>2 DEF File
    <3> QED
      BY <2>2, <3>1, SubSeqProperties DEF File
  <2>5. a \o b = buffer
    <3>1. 1 \in 1..(L + 1) /\ n \in (1 - 1)..L /\ L \in n..L
      BY <2>2
    <3>2. a \o b = SubSeq(buffer, 1, L)
      BY <1>1, <3>1, ConcatAdjacentSubSeq DEF File
    <3>3. SubSeq(buffer, 1, L) = buffer
      BY <1>1, SubSeqFull DEF File
    <3> QED
      BY <3>2, <3>3
  <2> HIDE DEF a, b
  <2>6. disk' = disk \o a /\ buffer' = b
    BY <2>1 DEF a, b
  <2>7. disk' \in File /\ Len(disk') = Len(disk) + Len(a) /\ Len(a) \in Nat /\ Len(disk) \in Nat
    BY <1>1, <2>3, <2>6, ConcatProperties DEF File
  <2>8. Written' = Written
    <3>0. disk \in Seq(Unit) /\ a \in Seq(Unit) /\ b \in Seq(Unit)
      BY <1>1, <2>3, <2>4 DEF File
    <3>1. (disk \o a) \o b = disk \o (a \o b)
      BY <3>0, PiecesJoin
    <3> QED
      BY <2>5, <2>6, <3>1 DEF Written
  <2>9. StreamInv'
    BY <1>1, <1>2, <2>4, <2>6, <2>7, <2>8 DEF StreamInv, FlushSome
  <2> QED
    BY <2>7, <2>8, <2>9
<1>3. CASE FinishRender
  <2>1. disk' = disk \o buffer /\ buffer' = <<>> /\ enc' = "idle" /\ complete' = TRUE
    BY <1>3 DEF FinishRender
  <2>2. /\ disk' \in File /\ buffer' \in File
        /\ Len(disk') = Len(disk) + Len(buffer) /\ Len(buffer) \in Nat /\ Len(disk) \in Nat
    BY <1>1, <2>1, ConcatProperties, NoFrames DEF File
  <2>3. Written' = Written
    <3>1. (disk \o buffer) \o <<>> = disk \o buffer
      BY <1>1, WrittenIs, ConcatEmptySeq DEF File, Written
    <3> QED
      BY <2>1, <3>1 DEF Written
  <2>4. StreamInv'
    BY <1>1, <2>1, <2>2, <2>3 DEF StreamInv
  <2> QED
    BY <2>2, <2>3, <2>4
<1> QED
  BY <1>2, <1>3

\* A render begins the file anew, with its header in the buffer.
LEMMA RenderLaidOut ==
  ASSUME StreamInv, NEW t \in Targets, Render(t)
  PROVE  StreamInv'
<1>1. /\ enc' = "encode" /\ target' = t /\ kept' = <<>> /\ complete' = FALSE
      /\ disk' = <<>> /\ buffer' = Header(Ticks(t)) /\ Ticks(target)' = Ticks(t)
  BY DEF Render, Ticks
<1>2. Ticks(t) \in Nat
  BY TicksTyped, ProxyStreamAssumption
<1>3. Written' = Header(Ticks(t)) /\ disk' \in File /\ buffer' \in File
  <2>1. Header(Ticks(t)) \in File
    BY <1>2, LayoutHeader
  <2> QED
    BY <1>1, <2>1, NoFrames, ConcatEmptySeq DEF Written, File
<1>4. /\ Len(Written') = HeaderLen /\ Layout(Written', kept')
      /\ Written'[1] = <<"head", Ticks(t), 1>> /\ Ends(kept')[Len(kept')] = HeaderLen
  BY <1>1, <1>2, <1>3, LayoutHeader, NoFrames
<1> QED
  BY <1>1, <1>3, <1>4, NoFrames DEF StreamInv

\* The end of the process cuts the stream.
LEMMA CutLaidOut ==
  ASSUME StreamInv, CutRender
  PROVE  StreamInv'
<1>1. /\ enc' = "idle" /\ buffer' = <<>> /\ UNCHANGED <<target, kept, disk, complete>>
      /\ Ticks(target)' = Ticks(target) /\ disk \in File /\ buffer \in File /\ kept \in Seq(Frame)
  BY DEF CutRender, StreamInv, Ticks
<1>2. Written' = disk
  BY <1>1, ConcatEmptySeq DEF Written, File
<1>3. Layout(disk, kept)
  BY <1>1, LayoutCut DEF StreamInv, Written
<1>4. complete => Len(disk) = Ends(kept)[Len(kept)]
  <2> SUFFICES ASSUME complete
               PROVE  Len(disk) = Ends(kept)[Len(kept)]
    OBVIOUS
  <2>1. buffer = <<>> /\ Len(Written) = Ends(kept)[Len(kept)]
    BY DEF StreamInv
  <2>2. Written = disk
    BY <1>1, <2>1, ConcatEmptySeq DEF Written, File
  <2> QED
    BY <2>1, <2>2
<1>5. Len(disk) > 0 => target \in Targets /\ disk[1] = <<"head", Ticks(target), 1>>
  BY <1>1, WrittenIs DEF StreamInv
<1> QED
  BY <1>1, <1>2, <1>3, <1>4, <1>5, NoFrames DEF StreamInv

\* A render that fails removes the file.
LEMMA FailLaidOut ==
  ASSUME StreamInv, FailRender
  PROVE  StreamInv'
<1>1. /\ enc' = "idle" /\ disk' = <<>> /\ buffer' = <<>> /\ ~complete' /\ kept' = kept
      /\ kept \in Seq(Frame)
  BY DEF StreamInv, FailRender
<1>2. Written' = <<>>
  BY <1>1, NoFrames, ConcatEmptySeq DEF Written
<1>3. Layout(<<>>, kept)
  BY <1>1, LayoutEmpty
<1> QED
  BY <1>1, <1>2, <1>3, NoFrames DEF StreamInv

\* Steps of a job leave the stream alone.
LEMMA StreamUnchanged ==
  ASSUME StreamInv, UNCHANGED encVars
  PROVE  StreamInv'
  BY DEF StreamInv, encVars, Written, Ticks

\* StreamInv is inductive.
LEMMA StepLaysOut ==
  ASSUME TimeInv, StreamInv, [Next]_vars
  PROVE  StreamInv'
<1>1. CASE UNCHANGED encVars
  BY <1>1, StreamUnchanged
<1>2. CASE BeginRender
  BY <1>2, RenderLaidOut DEF BeginRender
<1>3. CASE EncodeFrame
  BY <1>3, FrameLaidOut
<1>4. CASE FlushSome \/ FinishRender
  BY <1>4, FlushLaidOut
<1>5. CASE RenderFails
  BY <1>5, FailLaidOut DEF RenderFails
<1>6. CASE Crash
  BY <1>6, CutLaidOut DEF Crash
<1>7. UNCHANGED encVars \/ BeginRender \/ EncodeFrame \/ FlushSome \/ FinishRender
      \/ RenderFails \/ Crash
  BY DEF Next, vars, RenderStep, Create, OpenMovie, OpenStream, ScanTable, DecodeMovie, DecodeAt,
     WriteThumbnail, Abandon, Cancel
<1> QED
  BY <1>1, <1>2, <1>3, <1>4, <1>5, <1>6, <1>7

\* StreamInv holds initially.
LEMMA InitLaysOut == InitAll => StreamInv
<1> SUFFICES ASSUME Init
             PROVE  StreamInv
  BY DEF InitAll
<1>1. Written = <<>>
  BY NoFrames, ConcatEmptySeq DEF Init, Written
<1>2. Layout(<<>>, <<>>)
  BY NoFrames, LayoutEmpty
<1> QED
  BY <1>1, <1>2, NoFrames DEF Init, StreamInv

\* A frame that is in the file in full decodes as what it is, and as no other.
LEMMA DecodesAsItIs ==
  ASSUME NEW file \in File, NEW frames \in Seq(Frame), Layout(file, frames),
         NEW n \in 1..Len(frames), Ends(frames)[n] <= Len(file), NEW k \in Frame
  PROVE  Decodes(file, EntryOf(frames, n), k) <=> k = frames[n]
<1> DEFINE p == Ends(frames)[n - 1]
           a == p + PrefixLen
           f == frames[n]
           s == SizeOf[f]
           pay == SubSeq(file, a + 1, a + s)
           Pay(c) == SubSeq(Encoded(c), PrefixLen + 1, PrefixLen + SizeOf[c])
<1>1. /\ Len(file) \in Nat /\ f \in Frame /\ s \in Nat \ {0} /\ a \in Nat
      /\ a + s <= Len(file) /\ PrefixLen = 2 /\ p \in Nat /\ a = p + 2
  <2>1. /\ p \in Nat /\ s \in Nat \ {0} /\ PrefixLen = 2
        /\ Ends(frames)[n] = p + PrefixLen + s /\ Len(file) \in Nat
    BY EntryTyped DEF File, PrefixLen
  <2> QED
    BY <2>1
<1>2. EntryOf(frames, n).at = a /\ EntryOf(frames, n).len = s
  BY DEF EntryOf
<1> HIDE DEF a, p, s
<1>3. \A i \in 1..s : file[a + i] = <<"pay", f, i>>
  <2> SUFFICES ASSUME NEW i \in 1..s
               PROVE  file[a + i] = <<"pay", f, i>>
    OBVIOUS
  <2>1. /\ PrefixLen + i \in 1..(PrefixLen + s) /\ a + i <= Len(file)
        /\ p + (PrefixLen + i) = a + i
    <3>1. i \in Nat /\ i >= 1 /\ i <= s
      BY <1>1
    <3> QED
      BY ONLY <1>1, <3>1
  <2>2. file[a + i] = Encoded(f)[PrefixLen + i]
    BY <2>1 DEF Layout, p, s
  <2> QED
    BY <1>1, <2>2, EncodedIs DEF s
<1>4. /\ pay \in Seq(Unit) /\ Len(pay) = s
      /\ \A i \in 1..s : pay[i] = <<"pay", f, i>>
  <2>1. \A i \in (a + 1)..(a + s) : file[i] \in Unit
    BY <1>1 DEF File
  <2>2. a + 1 \in Int /\ a + s \in Int /\ a + 1 <= a + s /\ (a + s) - (a + 1) + 1 = s
    BY ONLY <1>1
  <2> HIDE DEF pay
  <2>3. pay \in Seq(Unit) /\ Len(pay) = s /\ \A i \in 1..s : pay[i] = file[(a + 1) + i - 1]
    BY <2>1, <2>2, SubSeqProperties DEF pay
  <2>4. \A i \in 1..s : (a + 1) + i - 1 = a + i
    BY <1>1
  <2> QED
    BY <1>3, <2>3, <2>4
<1>5. ASSUME NEW c \in Frame
      PROVE  /\ Pay(c) \in Seq(Unit) /\ Len(Pay(c)) = SizeOf[c]
             /\ \A i \in 1..SizeOf[c] : Pay(c)[i] = <<"pay", c, i>>
  <2> DEFINE z == SizeOf[c]
             e == Encoded(c)
             x == SubSeq(e, 2 + 1, 2 + z)
  <2>1. z \in Nat \ {0} /\ e \in File /\ Len(e) = 2 + z
        /\ \A i \in 1..z : e[2 + i] = <<"pay", c, i>>
    BY SizesTyped, EncodedIs DEF PrefixLen
  <2> HIDE DEF z, e
  <2>2. \A i \in (2 + 1)..(2 + z) : e[i] \in Unit
    BY <2>1 DEF File
  <2>3. 2 + 1 \in Int /\ 2 + z \in Int /\ 2 + 1 <= 2 + z /\ (2 + z) - (2 + 1) + 1 = z
    BY <2>1
  <2> HIDE DEF x
  <2>4. x \in Seq(Unit) /\ Len(x) = z /\ \A i \in 1..z : x[i] = e[(2 + 1) + i - 1]
    BY <2>2, <2>3, SubSeqProperties DEF x
  <2>5. \A i \in 1..z : (2 + 1) + i - 1 = 2 + i
    BY <2>1
  <2>6. \A i \in 1..z : x[i] = <<"pay", c, i>>
    BY <2>1, <2>4, <2>5
  <2>7. Pay(c) = x
    BY DEF x, e, z, PrefixLen
  <2> QED
    BY <2>4, <2>6, <2>7 DEF z
<1>6. Decodes(file, EntryOf(frames, n), k) <=> pay = Pay(k)
  BY <1>1, <1>2 DEF Decodes
<1> HIDE DEF pay, Pay
<1>7. ASSUME pay = Pay(k)
      PROVE  k = f
  <2>1. SizeOf[k] \in Nat \ {0} /\ 1 \in 1..SizeOf[k] /\ 1 \in 1..s
    BY <1>1, SizesTyped
  <2>2. pay[1] = <<"pay", f, 1>> /\ Pay(k)[1] = <<"pay", k, 1>>
    BY <1>4, <1>5, <2>1
  <2> QED
    BY <1>7, <2>2
<1>8. pay = Pay(f)
  <2>1. Pay(f) \in Seq(Unit) /\ Len(Pay(f)) = s /\ \A i \in 1..s : Pay(f)[i] = <<"pay", f, i>>
    BY <1>1, <1>5 DEF s
  <2> QED
    BY <1>4, <2>1, SeqEqual
<1> QED
  BY <1>6, <1>7, <1>8

\* Where the file is the beginning of the stream, its table lists whole frames.
LEMMA StreamReadable ==
  ASSUME StreamInv
  PROVE  WholeFramesReadable
<1> SUFFICES ASSUME Len(disk) >= HeaderLen
             PROVE  LET t == Table(disk) IN
                    /\ Len(t) <= Len(kept)
                    /\ \A n \in 1..Len(t) : Decodes(disk, t[n], kept[n])
                    /\ Len(t) < Len(kept) => Ends(kept)[Len(t) + 1] > Len(disk)
                    /\ complete => Len(t) = Len(kept)
  BY DEF WholeFramesReadable
<1> DEFINE t == Table(disk)
<1>1. disk \in File /\ kept \in Seq(Frame) /\ Layout(disk, kept)
  BY LayoutCut DEF StreamInv, Written
<1>2. /\ t \in Seq(Entry) /\ Lists(t, disk, kept)
      /\ Len(t) < Len(kept) => Ends(kept)[Len(t) + 1] > Len(disk)
  BY <1>1, TableReads
<1> HIDE DEF t
<1>3. Len(t) \in Nat /\ Len(kept) \in Nat /\ Len(t) <= Len(kept) /\ Len(disk) \in Nat
  BY <1>1, <1>2 DEF Lists, File
<1>4. ASSUME NEW n \in 1..Len(t)
      PROVE  Decodes(disk, t[n], kept[n])
  <2>1. t[n] = EntryOf(kept, n) /\ Ends(kept)[n] <= Len(disk) /\ n \in 1..Len(kept)
    BY <1>2, <1>3 DEF Lists
  <2>2. kept[n] \in Frame
    BY <1>1, <2>1
  <2> QED
    BY <1>1, <2>1, <2>2, DecodesAsItIs
<1>5. ASSUME complete, Len(t) < Len(kept)
      PROVE  FALSE
  <2>1. disk = Written /\ Len(disk) = Ends(kept)[Len(kept)]
    BY <1>1, <1>5, ConcatEmptySeq DEF StreamInv, Written, File
  <2>2. Len(t) + 1 \in 0..Len(kept) /\ Len(kept) \in 0..Len(kept)
    BY <1>3, <1>5
  <2>3. Ends(kept)[Len(t) + 1] <= Ends(kept)[Len(kept)] /\ Ends(kept)[Len(t) + 1] \in Nat
    BY <1>1, <2>2, EndsGrow, EndsOf
  <2> QED
    BY <1>2, <1>3, <1>5, <2>1, <2>3
<1> QED
  BY <1>2, <1>3, <1>4, <1>5 DEF t
-----------------------------------------------------------------------------
(* Jobs, and the boundaries they ask for. *)

InLoop == job \in {"seek", "write"}

JobInv ==
  /\ movie \in BOOLEAN /\ lost \in BOOLEAN /\ orphan \in File
  /\ job \in {"idle", "open", "scan", "seek", "write"}
  /\ interval \in Nat /\ ticks \in Nat /\ table \in Seq(Entry) /\ index \in Nat
  /\ ~Reading => ~lost
  /\ ~InLoop => index = 0
  /\ job # "idle" => interval > 0
  /\ Reading => ticks > 0
  /\ job = "scan" => ~movie
  /\ movie /\ InLoop => ticks = SourceTicks
  /\ InLoop => index = 0 \/ index < CountOf(FrameCount, ticks, interval)

\* As many boundaries as lie before the end.
LEMMA CountIs ==
  ASSUME NEW frames \in Nat, NEW d \in Nat \ {0}, NEW ivl \in Nat \ {0}, frames > 0
  PROVE  /\ CountOf(frames, d, ivl) \in Nat \ {0}
         /\ \A i \in Nat : i < CountOf(frames, d, ivl) <=> i * ivl < frames * d
<1> DEFINE a == frames * d
           b == a + ivl - 1
           c == b \div ivl
<1>1. a \in Nat /\ a > 0
  <2>1. frames * d \in Nat /\ frames * d # 0
    OBVIOUS
  <2> QED
    BY <2>1
<1>2. b \in Nat /\ b = a + ivl - 1
  <2> HIDE DEF a
  <2> QED
    BY <1>1
<1>3. c \in Nat /\ ivl * c <= b /\ b < ivl * c + ivl
  <2> HIDE DEF b
  <2> QED
    BY <1>2, Quotient
<1>4. CountOf(frames, d, ivl) = c
  BY DEF CountOf
<1> HIDE DEF a, b, c
<1>5. ASSUME NEW i \in Nat
      PROVE  i < c <=> i * ivl < a
  <2>1. CASE i < c
    <3>1. i + 1 <= c
      BY <1>3, <2>1
    <3>2. ivl * (i + 1) <= ivl * c
      BY <1>3, <3>1
    <3>3. ivl * (i + 1) = i * ivl + ivl /\ i * ivl \in Nat /\ ivl * c \in Nat
      BY <1>3
    <3>4. i * ivl < a
      BY <1>1, <1>2, <1>3, <3>2, <3>3
    <3> QED
      BY <2>1, <3>4
  <2>2. CASE ~ (i < c)
    <3>1. ivl * c <= ivl * i
      BY <1>3, <2>2
    <3>2. ivl * i = i * ivl /\ i * ivl \in Nat /\ ivl * c \in Nat
      BY <1>3
    <3>3. ~ (i * ivl < a)
      BY <1>1, <1>2, <1>3, <3>1, <3>2
    <3> QED
      BY <2>2, <3>3
  <2> QED
    BY <2>1, <2>2
<1>6. c # 0
  <2>1. 0 * ivl = 0
    OBVIOUS
  <2> QED
    BY <1>1, <1>5, <2>1
<1> QED
  BY <1>3, <1>4, <1>5, <1>6 DEF a

\* A video has a number of frames.
LEMMA FrameCountTyped ==
  ASSUME JobInv
  PROVE  FrameCount \in Nat
<1>1. Frames \in Nat /\ Len(table) \in Nat
  BY SizesTyped DEF JobInv
<1> QED
  BY <1>1 DEF FrameCount

\* Every boundary asked for lies before the end.
LEMMA BeforeTheEnd ==
  ASSUME JobInv, InLoop, FrameCount > 0
  PROVE  index * interval < FrameCount * ticks
<1>1. /\ FrameCount \in Nat /\ ticks \in Nat \ {0} /\ interval \in Nat \ {0} /\ index \in Nat
      /\ index = 0 \/ index < CountOf(FrameCount, ticks, interval)
  BY FrameCountTyped DEF JobInv, InLoop, Reading
<1>2. index < CountOf(FrameCount, ticks, interval)
  <2>1. CountOf(FrameCount, ticks, interval) \in Nat \ {0}
    BY <1>1, CountIs
  <2> QED
    BY <1>1, <2>1
<1> QED
  BY <1>1, <1>2, CountIs

\* What a job that returns leaves.
LEMMA ReturnTyped ==
  ASSUME JobInv, Return, UNCHANGED movie
  PROVE  JobInv'
<1>1. /\ job' = "idle" /\ interval' = 0 /\ ticks' = 0 /\ table' = <<>> /\ index' = 0
      /\ lost' = FALSE /\ orphan' = <<>> /\ movie' \in BOOLEAN
  BY DEF JobInv, Return
<1>2. <<>> \in Seq(Entry) /\ <<>> \in File
  BY EmptySeq DEF File
<1> QED
  BY <1>1, <1>2 DEF JobInv, InLoop, Reading

\* What a job reads from is a file.
LEMMA ContentTyped ==
  ASSUME JobInv, StreamInv
  PROVE  Content \in File
  BY DEF JobInv, StreamInv, Content

\* Steps of a render leave a job as it is, unless they remove its file.
LEMMA JobUnchanged ==
  ASSUME JobInv, UNCHANGED <<movie, jobVars, readVars>>
  PROVE  JobInv'
  BY DEF JobInv, jobVars, readVars, InLoop, Reading, FrameCount, CountOf

\* JobInv is inductive.
LEMMA StepTypesJob ==
  ASSUME TimeInv, StreamInv, JobInv, [Next]_vars
  PROVE  JobInv'
<1>0. UNCHANGED movie
  BY DEF Next, vars
<1>1. CASE UNCHANGED <<jobVars, readVars>>
  BY <1>0, <1>1, JobUnchanged
<1>2. CASE RenderFails /\ Reading /\ ~lost
  <2>1. /\ UNCHANGED jobVars /\ lost' = TRUE /\ orphan' = disk \o buffer
    BY <1>2 DEF RenderFails
  <2>2. orphan' \in File
    BY <2>1, WrittenIs DEF StreamInv, Written
  <2> QED
    BY <1>0, <1>2, <2>1, <2>2 DEF JobInv, jobVars, InLoop, Reading, FrameCount, CountOf
<1>3. CASE Return
  BY <1>0, <1>3, ReturnTyped
<1>4. ASSUME NEW ivl \in Intervals, Create(ivl)
      PROVE  JobInv'
  <2>1. ivl \in Nat \ {0}
    BY ThumbnailsAssumption
  <2> QED
    BY <1>0, <1>4, <2>1 DEF JobInv, Create, InLoop, Reading, readVars
<1>5. CASE OpenMovie
  <2>1. SourceTicks \in Nat \ {0}
    BY SizesTyped
  <2> QED
    BY <1>0, <1>5, <2>1 DEF JobInv, OpenMovie, InLoop, Reading, readVars
<1>6. CASE OpenStream
  <2>1. disk[1] = <<"head", Ticks(target), 1>>
    <3>1. Len(disk) \in Nat /\ 1 \in 1..Len(disk) /\ Written[1] = disk[1] /\ Len(Written) > 0
      BY <1>6, WrittenIs DEF OpenStream, StreamInv, HeaderLen
    <3> QED
      BY <3>1 DEF StreamInv
  <2>2. ticks' \in Nat \ {0}
    BY <1>6, <2>1, TimeGives DEF OpenStream
  <2> QED
    BY <1>0, <1>6, <2>2 DEF JobInv, OpenStream, InLoop, Reading, readVars
<1>7. CASE ScanTable
  <2>1. table' \in Seq(Entry)
    BY <1>7, ContentTyped, TableTyped DEF ScanTable
  <2> QED
    BY <1>0, <1>7, <2>1 DEF JobInv, ScanTable, InLoop, Reading, readVars
<1>8. CASE DecodeMovie \/ DecodeAt
  <2>1. /\ job = "seek" /\ job' = "write"
        /\ UNCHANGED <<interval, ticks, table, index, lost, orphan>>
    BY <1>8 DEF DecodeMovie, DecodeAt, readVars
  <2>2. InLoop /\ InLoop' /\ Reading /\ Reading' /\ FrameCount' = FrameCount
    BY <1>0, <2>1 DEF InLoop, Reading, FrameCount
  <2>3. CountOf(FrameCount, ticks, interval)' = CountOf(FrameCount, ticks, interval)
    BY <2>1, <2>2 DEF CountOf
  <2> QED
    BY <1>0, <2>1, <2>2, <2>3 DEF JobInv
<1>9. CASE WriteThumbnail /\ index + 1 < CountOf(FrameCount, ticks, interval)
  <2>1. /\ job = "write" /\ job' = "seek" /\ index' = index + 1
        /\ UNCHANGED <<interval, ticks, table, lost, orphan>>
    BY <1>9 DEF WriteThumbnail, readVars
  <2>2. InLoop /\ InLoop' /\ Reading /\ Reading' /\ FrameCount' = FrameCount
    BY <1>0, <2>1 DEF InLoop, Reading, FrameCount
  <2>3. CountOf(FrameCount, ticks, interval)' = CountOf(FrameCount, ticks, interval)
    BY <2>1, <2>2 DEF CountOf
  <2> QED
    BY <1>0, <1>9, <2>1, <2>2, <2>3 DEF JobInv
<1>10. \/ UNCHANGED <<jobVars, readVars>> \/ (RenderFails /\ Reading /\ ~lost) \/ Return
       \/ (\E ivl \in Intervals : Create(ivl)) \/ OpenMovie \/ OpenStream \/ ScanTable
       \/ DecodeMovie \/ DecodeAt
       \/ (WriteThumbnail /\ index + 1 < CountOf(FrameCount, ticks, interval))
  <2>1. RenderFails => UNCHANGED <<jobVars, readVars>> \/ (RenderFails /\ Reading /\ ~lost)
    BY DEF RenderFails
  <2>2. WriteThumbnail =>
          Return \/ (WriteThumbnail /\ index + 1 < CountOf(FrameCount, ticks, interval))
    BY DEF WriteThumbnail
  <2>3. Abandon \/ Cancel \/ Crash => Return
    BY DEF Abandon, Cancel, Crash
  <2>4. BeginRender \/ RenderStep => UNCHANGED <<jobVars, readVars>>
    BY DEF BeginRender, RenderStep
  <2> QED
    BY <2>1, <2>2, <2>3, <2>4 DEF Next, vars
<1> QED
  BY <1>1, <1>2, <1>3, <1>4, <1>5, <1>6, <1>7, <1>8, <1>9, <1>10

\* JobInv holds initially.
LEMMA InitTypesJob == InitAll => JobInv
<1>1. <<>> \in Seq(Entry) /\ <<>> \in File
  BY EmptySeq DEF File
<1> SUFFICES ASSUME InitAll
             PROVE  JobInv
  OBVIOUS
<1>2. /\ movie \in BOOLEAN /\ job = "idle" /\ interval = 0 /\ ticks = 0 /\ table = <<>>
      /\ index = 0 /\ lost = FALSE /\ orphan = <<>>
  BY DEF InitAll
<1> QED
  BY <1>1, <1>2 DEF JobInv, InLoop, Reading

\* What the assumptions say of a movie.
LEMMA MovieIs ==
  /\ Len(Packets) \in Nat
  /\ \A n \in 1..Len(Packets) : FrameAt(n) => Packets[n] \in Frame
  /\ \A k \in Frame : \E n \in 1..Len(Packets) : Packets[n] = k /\ FrameAt(n)
  /\ \A m, n \in 1..Len(Packets) :
       m < n /\ FrameAt(m) /\ FrameAt(n) => Packets[m] < Packets[n]
<1>1. Len(Packets) \in Nat /\ \A n \in 1..Len(Packets) : FrameAt(n) => Packets[n] \in Frame
  BY ThumbnailsAssumption DEF FrameAt
<1>2. \A k \in Frame : k # -1
  BY SizesTyped
<1>3. \A k \in Frame : \E n \in 1..Len(Packets) : Packets[n] = k /\ FrameAt(n)
  BY <1>2, ThumbnailsAssumption DEF FrameAt
<1> QED
  BY <1>1, <1>3, ThumbnailsAssumption

\* A movie is decoded from a frame that is not after the time.
LEMMA SeekMovieIs ==
  ASSUME NEW time \in Nat
  PROVE  /\ SeekMovie(time) \in 1..Len(Packets) /\ FrameAt(SeekMovie(time))
         /\ Packets[SeekMovie(time)] \in Frame
         /\ Packets[SeekMovie(time)] * SourceTicks <= time
<1> DEFINE Early == {n \in Sync : Packets[n] * SourceTicks <= time}
<1>1. Early \subseteq 0..Len(Packets) /\ Len(Packets) \in Nat
  BY MovieIs, ThumbnailsAssumption
<1>2. Early # {}
  <2>1. PICK n \in Sync : Packets[n] = 0
    BY ThumbnailsAssumption
  <2>2. 0 * SourceTicks <= time
    BY SizesTyped
  <2>3. n \in Early
    BY <2>1, <2>2
  <2> QED
    BY <2>3
<1>3. \E n \in Early : \A m \in Early : m <= n
  <2> HIDE DEF Early
  <2> QED
    BY <1>1, <1>2, GreatestNumber
<1>4. \E n \in Sync : /\ Packets[n] * SourceTicks <= time
                      /\ \A m \in Sync : Packets[m] * SourceTicks <= time => m <= n
  BY <1>3
<1>5. SeekMovie(time) \in Sync /\ Packets[SeekMovie(time)] * SourceTicks <= time
  BY <1>4 DEF SeekMovie
<1> QED
  BY <1>5, MovieIs, ThumbnailsAssumption

\* The frames from there on are given, and no frame is twice in a movie.
LEMMA FramesFollow ==
  ASSUME NEW time \in Nat, NEW n \in 1..Len(Packets), FrameAt(n),
         Packets[n] >= Packets[SeekMovie(time)]
  PROVE  n \in Fill(SeekMovie(time))
<1> DEFINE s == SeekMovie(time)
<1>1. /\ s \in 1..Len(Packets) /\ FrameAt(s) /\ Len(Packets) \in Nat
      /\ Packets[s] \in Nat /\ Packets[n] \in Nat
  BY SeekMovieIs, MovieIs, SizesTyped
<1> HIDE DEF s
<1>2. ~ (n < s)
  <2> SUFFICES ASSUME n < s
               PROVE  FALSE
    OBVIOUS
  <2>1. Packets[n] < Packets[s]
    BY <1>1, MovieIs
  <2> QED
    BY <1>1, <2>1 DEF s
<1>3. n \in s..Len(Packets)
  BY <1>1, <1>2
<1> QED
  BY <1>3 DEF Fill, s

\* The boundaries at which a movie gives no frame.
LEMMA MovieMisses ==
  ASSUME NEW time \in Nat, NextFrames(time) = {}
  PROVE  2 * time >= (2 * Frames - 1) * SourceTicks
<1>1. Frames \in Nat \ {0} /\ SourceTicks \in Nat \ {0} /\ Frames - 1 \in Frame
  BY SizesTyped DEF Frame
<1>2. PICK n \in 1..Len(Packets) : Packets[n] = Frames - 1 /\ FrameAt(n)
  BY <1>1, MovieIs
<1>3. Packets[n] >= Packets[SeekMovie(time)]
  <2>1. Packets[SeekMovie(time)] \in Frame
    BY SeekMovieIs
  <2> QED
    BY <1>1, <1>2, <2>1 DEF Frame
<1>4. ~ Reached(n, time)
  BY <1>2, <1>3, FramesFollow DEF NextFrames
<1> DEFINE f == Frames - 1
           x == f * SourceTicks
<1>5. x \in Nat /\ ~ (2 * f * SourceTicks + SourceTicks >= 2 * time)
  BY <1>1, <1>2, <1>4 DEF Reached
<1>6. 2 * f * SourceTicks = 2 * x /\ (2 * Frames - 1) * SourceTicks = 2 * x + SourceTicks
  <2>1. 2 * Frames - 1 = 2 * f + 1 /\ f \in Nat
    BY <1>1
  <2> HIDE DEF f
  <2>2. (2 * f + 1) * SourceTicks = 2 * (f * SourceTicks) + SourceTicks
    BY <1>1, <2>1
  <2>3. 2 * f * SourceTicks = 2 * (f * SourceTicks)
    BY <1>1, <2>1
  <2> QED
    BY <2>1, <2>2, <2>3
<1> HIDE DEF x
<1> QED
  BY <1>1, <1>5, <1>6

\* The frame nearest to a time, to half a frame.
LEMMA SeekIndexIs ==
  ASSUME NEW time \in Nat, NEW d \in Nat \ {0}
  PROVE  /\ SeekIndex(time, d) \in Nat
         /\ 2 * (SeekIndex(time, d) * d) <= 2 * time + d
         /\ 2 * time < 2 * (SeekIndex(time, d) * d) + d
<1> DEFINE a == 2 * time + d
           b == 2 * d
           q == a \div b
<1>1. a \in Nat /\ b \in Nat \ {0}
  OBVIOUS
<1>2. q \in Nat /\ b * q <= a /\ a < b * q + b
  <2> HIDE DEF a, b
  <2> QED
    BY <1>1, Quotient
<1>3. SeekIndex(time, d) = q
  BY DEF SeekIndex
<1> HIDE DEF q
<1>4. b * q = 2 * (q * d) /\ q * d \in Nat
  BY <1>2
<1> QED
  BY <1>2, <1>3, <1>4

\* The boundaries at which a stream has no frame.
LEMMA StreamMisses ==
  ASSUME NEW time \in Nat, NEW d \in Nat \ {0}, NEW len \in Nat, SeekIndex(time, d) >= len
  PROVE  2 * time >= (2 * len - 1) * d
<1> DEFINE q == SeekIndex(time, d)
<1>1. q \in Nat /\ 2 * (q * d) <= 2 * time + d /\ q >= len
  BY SeekIndexIs
<1> HIDE DEF q
<1>2. len * d <= q * d /\ len * d \in Nat /\ q * d \in Nat
  <2>1. d * len <= d * q
    BY <1>1
  <2> QED
    BY <1>1, <2>1
<1>3. (2 * len - 1) * d = 2 * (len * d) - d
  OBVIOUS
<1> QED
  BY <1>1, <1>2, <1>3

\* A boundary is a number.
LEMMA BoundaryTyped ==
  ASSUME JobInv
  PROVE  index * interval \in Nat /\ 2 * index * interval = 2 * (index * interval)
<1>1. index \in Nat /\ interval \in Nat
  BY DEF JobInv
<1> QED
  BY <1>1

\* A job asks for boundaries before the end, and misses the last half frame.
LEMMA MissesLittle ==
  ASSUME JobInv
  PROVE  MissesOnlyTheLastHalf
<1> SUFFICES ASSUME job = "seek", FrameCount > 0
             PROVE  /\ index * interval < FrameCount * ticks
                    /\ NoFrame => 2 * (index * interval) >= (2 * FrameCount - 1) * ticks
  BY BoundaryTyped DEF MissesOnlyTheLastHalf
<1>1. InLoop /\ Reading
  BY DEF InLoop, Reading
<1>2. index * interval < FrameCount * ticks
  BY <1>1, BeforeTheEnd
<1> DEFINE time == index * interval
<1>3. time \in Nat /\ ticks \in Nat \ {0} /\ movie \in BOOLEAN
  BY <1>1, BoundaryTyped DEF JobInv
<1> HIDE DEF time
<1>4. ASSUME NoFrame, movie
      PROVE  2 * time >= (2 * FrameCount - 1) * ticks
  <2>1. NextFrames(time) = {} /\ FrameCount = Frames /\ ticks = SourceTicks
    BY <1>1, <1>4 DEF NoFrame, FrameCount, JobInv, time
  <2> QED
    BY <1>3, <2>1, MovieMisses
<1>5. ASSUME NoFrame, ~movie
      PROVE  2 * time >= (2 * FrameCount - 1) * ticks
  <2>1. SeekIndex(time, ticks) >= FrameCount
    BY <1>5 DEF NoFrame, FrameCount, FrameIndex, time
  <2> QED
    BY <1>3, <2>1, FrameCountTyped, StreamMisses
<1> QED
  BY <1>2, <1>4, <1>5 DEF time
-----------------------------------------------------------------------------
(* What a job has read. *)

\* No profile raises the frame rate.
Slow == \A t \in Targets : Ticks(t) >= SourceTicks

\* The frames of a stream are those shown when its own are, or the next.
InTime(frames, d) ==
  \A n \in 1..Len(frames) : /\ frames[n] * SourceTicks >= (n - 1) * d
                            /\ frames[n] * SourceTicks < (n - 1) * d + SourceTicks

\* What a job has read of a file comes from these frames.
ReadFrom(file, frames) ==
  /\ Layout(file, frames) /\ InTime(frames, ticks)
  /\ InLoop => Lists(table, file, frames)

(* The file a job reads is the stream that is being written, of which it has
   the frame rate and perhaps a part of the table, or a removed one. *)
ReadInv ==
  Reading /\ ~movie /\ ~rewritten /\ Slow =>
    /\ \E t \in Targets : ticks = Ticks(t)
    /\ ~lost => target \in Targets /\ ticks = Ticks(target) /\ ReadFrom(disk, kept)
    /\ lost => \E frames \in Seq(Frame) : ReadFrom(orphan, frames)

\* The frames kept are in time, if the profile does not raise the rate.
LEMMA KeptInTime ==
  ASSUME TimeInv, Slow, target \in Targets
  PROVE  InTime(kept, Ticks(target))
  BY DEF TimeInv, Slow, FramesInTime, InTime

\* More of a file has been written.
LEMMA ListsMore ==
  ASSUME NEW entries, NEW file \in File, NEW more \in File, NEW frames \in Seq(Frame),
         Lists(entries, file, frames), Len(more) >= Len(file), entries \in Seq(Entry)
  PROVE  Lists(entries, more, frames)
<1>1. Len(file) \in Nat /\ Len(more) \in Nat /\ Len(entries) \in Nat /\ Len(frames) \in Nat
  BY DEF File
<1>2. \A n \in 1..Len(entries) : Ends(frames)[n] \in Nat
  BY <1>1, EndsOf DEF Lists
<1> QED
  BY <1>1, <1>2 DEF Lists

\* Another frame has been written.
LEMMA ListsAppend ==
  ASSUME NEW entries \in Seq(Entry), NEW file \in File, NEW frames \in Seq(Frame),
         NEW k \in Frame, Lists(entries, file, frames)
  PROVE  Lists(entries, file, Append(frames, k))
<1> DEFINE more == Append(frames, k)
<1>1. /\ Len(frames) \in Nat /\ Len(entries) \in Nat /\ Len(entries) <= Len(frames)
      /\ Len(more) = Len(frames) + 1 /\ (\A n \in 1..Len(frames) : more[n] = frames[n])
      /\ \A n \in 0..Len(frames) : Ends(more)[n] = Ends(frames)[n]
  BY EndsAppend, AppendProperties DEF Lists
<1> HIDE DEF more
<1>2. ASSUME NEW n \in 1..Len(entries)
      PROVE  entries[n] = EntryOf(more, n) /\ Ends(more)[n] <= Len(file)
  <2>1. n \in 1..Len(frames) /\ n \in 0..Len(frames) /\ n - 1 \in 0..Len(frames)
    BY <1>1
  <2>2. more[n] = frames[n] /\ Ends(more)[n - 1] = Ends(frames)[n - 1]
        /\ Ends(more)[n] = Ends(frames)[n]
    BY <1>1, <2>1
  <2> QED
    BY <2>2 DEF Lists, EntryOf
<1> QED
  BY <1>1, <1>2 DEF Lists, more

\* The frames and the file that the steps of a render leave.
LEMMA RenderKeepsRead ==
  ASSUME TimeInv, StreamInv, TimeInv', StreamInv', JobInv, Slow, target \in Targets,
         EncodeFrame \/ FlushSome \/ FinishRender, UNCHANGED <<jobVars, readVars>>,
         ticks = Ticks(target), ReadFrom(disk, kept)
  PROVE  ReadFrom(disk, kept)' /\ Ticks(target)' = Ticks(target)
<1>1. /\ target' = target /\ Ticks(target)' = Ticks(target) /\ ticks' = ticks
      /\ table' = table /\ InLoop' = InLoop /\ table \in Seq(Entry)
  BY DEF EncodeFrame, FlushSome, FinishRender, jobVars, Ticks, InLoop, JobInv
<1>2. /\ disk \in File /\ disk' \in File /\ buffer' \in File /\ kept \in Seq(Frame)
      /\ kept' \in Seq(Frame)
  BY DEF StreamInv
<1>3. Layout(disk', kept')
  BY <1>2, LayoutCut DEF StreamInv, Written
<1>4. InTime(kept', ticks')
  <2>1. InTime(kept, Ticks(target))'
    <3>1. Slow' /\ target' \in Targets'
      BY <1>1 DEF Slow, Ticks
    <3> QED
      BY <3>1, <1>1 DEF TimeInv, Slow, FramesInTime, InTime
  <2> QED
    BY <1>1, <2>1 DEF InTime
<1>5. ASSUME InLoop
      PROVE  Lists(table, disk', kept')
  <2>1. Lists(table, disk, kept)
    BY <1>5 DEF ReadFrom
  <2>2. CASE EncodeFrame
    <3>1. disk' = disk /\ kept' \in {kept, Append(kept, next)} /\ next \in Frame
      BY <2>2, TimeGives DEF EncodeFrame
    <3> QED
      BY <1>1, <1>2, <2>1, <3>1, ListsAppend
  <2>3. CASE FlushSome \/ FinishRender
    <3>1. kept' = kept /\ Len(disk') >= Len(disk)
      BY <2>3, FlushLaidOut DEF FlushSome, FinishRender
    <3> QED
      BY <1>1, <1>2, <2>1, <3>1, ListsMore
  <2> QED
    BY <2>2, <2>3
<1> QED
  BY <1>1, <1>3, <1>4, <1>5 DEF ReadFrom

\* The table of any file, if it has a header or not, lists whole frames.
LEMMA TableLists ==
  ASSUME NEW file \in File, NEW frames \in Seq(Frame), Layout(file, frames)
  PROVE  Lists(Table(file), file, frames)
<1>1. CASE Len(file) >= HeaderLen
  BY <1>1, TableReads
<1>2. CASE ~ (Len(file) >= HeaderLen)
  <2>1. PICK f : /\ Table(file) = f[HeaderLen]
                 /\ \A c \in Nat : f[c] \in Seq(Entry) /\ f[c] = EntriesAt(file, f, c)
    BY TableOf
  <2>2. HeaderLen \in Nat /\ HeaderLen + PrefixLen > Len(file)
    BY <1>2 DEF HeaderLen, PrefixLen, File
  <2>3. Table(file) = <<>>
    BY <2>1, <2>2 DEF EntriesAt
  <2> QED
    BY <2>3 DEF Lists
<1> QED
  BY <1>1, <1>2

\* A step that leaves what a job has read as it is, and the file.
LEMMA ReadKept ==
  ASSUME ReadInv, Reading' => Reading, InLoop' => InLoop,
         UNCHANGED <<movie, ticks, table, lost, orphan>>, rewritten' = FALSE => rewritten = FALSE,
         UNCHANGED <<target, disk, kept>> \/ (Reading => lost), rewritten' \in BOOLEAN,
         rewritten \in BOOLEAN
  PROVE  ReadInv'
<1> SUFFICES ASSUME Reading', ~movie', ~rewritten', Slow'
             PROVE  /\ \E t \in Targets : ticks' = Ticks(t)'
                    /\ ~lost' => /\ target' \in Targets /\ ticks' = Ticks(target)'
                                 /\ ReadFrom(disk, kept)'
                    /\ lost' => \E frames \in Seq(Frame) : ReadFrom(orphan, frames)'
  BY DEF ReadInv
<1>1. Reading /\ ~movie /\ ~rewritten /\ Slow
  BY DEF Slow, Ticks
<1>2. (\E t \in Targets : ticks = Ticks(t)) => (\E t \in Targets : ticks' = Ticks(t)')
  BY DEF Ticks
<1>3. ASSUME NEW frames \in Seq(Frame), ReadFrom(orphan, frames)
      PROVE  ReadFrom(orphan, frames)'
  BY <1>3 DEF ReadFrom
<1>4. ASSUME ~lost
      PROVE  /\ target' = target /\ Ticks(target)' = Ticks(target)
             /\ ReadFrom(disk, kept) => ReadFrom(disk, kept)'
  <2>1. UNCHANGED <<target, disk, kept>>
    BY <1>1, <1>4
  <2> QED
    BY <2>1 DEF ReadFrom, Ticks
<1> QED
  BY <1>1, <1>2, <1>3, <1>4 DEF ReadInv

\* ReadInv is inductive, with what is known of the stream and the job.
LEMMA StepReads ==
  ASSUME TimeInv, TimeInv', StreamInv, StreamInv', JobInv, ReadInv, [Next]_vars,
         rewritten \in BOOLEAN, rewritten' \in BOOLEAN
  PROVE  ReadInv'
<1>0. movie' = movie
  BY DEF Next, vars
<1>1. CASE UNCHANGED <<encVars, jobVars, readVars, rewritten>>
  BY <1>0, <1>1, ReadKept DEF encVars, jobVars, readVars, Reading, InLoop
<1>2. CASE BeginRender
  <2>1. UNCHANGED <<jobVars, readVars>> /\ rewritten' = (rewritten \/ (Reading /\ ~lost))
    BY <1>2 DEF BeginRender
  <2>2. CASE rewritten'
    BY <2>2 DEF ReadInv
  <2>3. CASE ~rewritten'
    BY <1>0, <2>1, <2>3, ReadKept DEF jobVars, readVars, Reading, InLoop
  <2> QED
    BY <2>2, <2>3
<1>3. CASE RenderStep
  <2>1. /\ UNCHANGED <<jobVars, readVars, rewritten>>
        /\ (EncodeFrame \/ FlushSome \/ FinishRender)
        /\ Reading' = Reading /\ InLoop' = InLoop
    BY <1>3 DEF RenderStep, historyVars, jobVars, Reading, InLoop
  <2>2. CASE Reading => lost
    BY <1>0, <2>1, <2>2, ReadKept DEF jobVars, readVars
  <2>3. CASE Reading /\ ~lost
    <3> SUFFICES ASSUME ~movie, ~rewritten, Slow
                 PROVE  /\ \E t \in Targets : ticks' = Ticks(t)'
                        /\ target' \in Targets /\ ticks' = Ticks(target)'
                        /\ ReadFrom(disk, kept)'
      BY <1>0, <2>1, <2>3 DEF ReadInv, readVars, Slow, Ticks
    <3>1. target \in Targets /\ ticks = Ticks(target) /\ ReadFrom(disk, kept)
      BY <2>3 DEF ReadInv
    <3>2. ReadFrom(disk, kept)' /\ Ticks(target)' = Ticks(target)
      BY <2>1, <3>1, RenderKeepsRead
    <3>3. target' = target /\ ticks' = ticks
      BY <2>1 DEF EncodeFrame, FlushSome, FinishRender, jobVars
    <3> QED
      BY <3>1, <3>2, <3>3
  <2> QED
    BY <2>2, <2>3
<1>4. CASE RenderFails
  <2>1. /\ UNCHANGED <<jobVars, rewritten, target, kept>>
        /\ Reading' = Reading /\ InLoop' = InLoop
    BY <1>4 DEF RenderFails, FailRender, historyVars, jobVars, Reading, InLoop
  <2>2. CASE ~ (Reading /\ ~lost)
    <3>1. UNCHANGED readVars
      BY <1>4, <2>2 DEF RenderFails
    <3>2. lost \in BOOLEAN
      BY DEF JobInv
    <3> QED
      BY <1>0, <2>1, <2>2, <3>1, <3>2, ReadKept DEF jobVars, readVars
  <2>3. CASE Reading /\ ~lost
    <3>1. lost' = TRUE /\ orphan' = Written
      BY <1>4, <2>3 DEF RenderFails, Written
    <3> SUFFICES ASSUME ~movie, ~rewritten, Slow
                 PROVE  /\ \E t \in Targets : ticks' = Ticks(t)'
                        /\ \E frames \in Seq(Frame) : ReadFrom(orphan, frames)'
      BY <1>0, <2>1, <3>1 DEF ReadInv, Slow, Ticks
    <3>2. (\E t \in Targets : ticks = Ticks(t)) /\ ReadFrom(disk, kept)
      BY <2>3 DEF ReadInv
    <3>3. \E t \in Targets : ticks' = Ticks(t)'
      BY <2>1, <3>2 DEF jobVars, Ticks
    <3>4. kept \in Seq(Frame) /\ Layout(Written, kept) /\ InTime(kept, ticks)
      BY <3>2 DEF StreamInv, ReadFrom
    <3>5. InLoop => Lists(table, Written, kept)
      <4>1. disk \in File /\ Written \in File /\ Len(Written) >= Len(disk)
        BY WrittenIs DEF StreamInv
      <4>2. table \in Seq(Entry)
        BY DEF JobInv
      <4> QED
        BY <3>2, <3>4, <4>1, <4>2, ListsMore DEF ReadFrom
    <3>6. ReadFrom(Written, kept)
      BY <3>4, <3>5 DEF ReadFrom
    <3>7. PICK file : file = Written
      OBVIOUS
    <3>8. PICK frames \in Seq(Frame) : frames = kept
      BY <3>4
    <3>9. ReadFrom(file, frames)
      BY <3>6, <3>7, <3>8
    <3>10. ReadFrom(file, frames)'
      BY <2>1, <3>9 DEF jobVars, ReadFrom, InLoop
    <3>11. orphan' = file
      BY <3>1, <3>7
    <3>12. ReadFrom(orphan, frames)'
      BY <3>10, <3>11 DEF ReadFrom, InLoop
    <3> QED
      BY <3>3, <3>8, <3>12
  <2> QED
    BY <2>2, <2>3
<1>5. CASE ~Reading'
  BY <1>5 DEF ReadInv
<1>6. CASE movie
  BY <1>0, <1>6 DEF ReadInv
<1>7. CASE OpenStream
  <2>1. /\ UNCHANGED <<disk, buffer, kept, target, rewritten, lost>> /\ ~Reading /\ ~movie
        /\ ~InLoop' /\ ticks' = disk[1][2] /\ Len(disk) >= HeaderLen
        /\ Ticks(target)' = Ticks(target)
    BY <1>7 DEF OpenStream, encVars, historyVars, readVars, Reading, InLoop, Ticks
  <2>2. ~lost'
    BY <2>1 DEF JobInv
  <2>3. target \in Targets /\ disk[1] = <<"head", Ticks(target), 1>>
    <3>1. Len(disk) \in Nat /\ 1 \in 1..Len(disk) /\ Written[1] = disk[1] /\ Len(Written) > 0
      BY <2>1, WrittenIs DEF StreamInv, HeaderLen
    <3> QED
      BY <3>1 DEF StreamInv
  <2>4. ticks' = Ticks(target)
    BY <2>1, <2>3
  <2>5. Layout(disk, kept)
    BY LayoutCut DEF StreamInv, Written
  <2> SUFFICES ASSUME Slow
               PROVE  /\ \E t \in Targets : ticks' = Ticks(t)'
                      /\ target' \in Targets /\ ticks' = Ticks(target)'
                      /\ ReadFrom(disk, kept)'
    BY <2>2 DEF ReadInv, Slow, Ticks
  <2>6. InTime(kept, Ticks(target))
    BY <2>3, KeptInTime
  <2>7. ReadFrom(disk, kept)'
    <3>1. Layout(disk, kept)'
      BY <2>1, <2>5
    <3>2. InTime(kept, ticks)'
      BY <2>1, <2>4, <2>6 DEF InTime
    <3> QED
      BY <2>1, <3>1, <3>2 DEF ReadFrom
  <2> QED
    BY <2>1, <2>3, <2>4, <2>7
<1>8. CASE ScanTable
  <2>1. /\ UNCHANGED <<disk, kept, target, rewritten, lost, orphan, ticks>> /\ Reading
        /\ table' = Table(Content) /\ Ticks(target)' = Ticks(target)
    BY <1>8 DEF ScanTable, encVars, historyVars, readVars, Reading, Ticks
  <2> SUFFICES ASSUME ~movie, ~rewritten, Slow
               PROVE  /\ \E t \in Targets : ticks' = Ticks(t)'
                      /\ ~lost => /\ target' \in Targets /\ ticks' = Ticks(target)'
                                  /\ ReadFrom(disk, kept)'
                      /\ lost => \E frames \in Seq(Frame) : ReadFrom(orphan, frames)'
    BY <1>0, <2>1 DEF ReadInv, Slow, Ticks
  <2>2. \E t \in Targets : ticks' = Ticks(t)'
    BY <2>1 DEF ReadInv, Ticks
  <2>3. ASSUME ~lost
        PROVE  target \in Targets /\ ticks = Ticks(target) /\ ReadFrom(disk, kept)'
    <3>1. target \in Targets /\ ticks = Ticks(target) /\ Layout(disk, kept) /\ InTime(kept, ticks)
      BY <2>1, <2>3 DEF ReadInv, ReadFrom
    <3>2. Lists(Table(disk), disk, kept) /\ Content = disk
      BY <2>3, <3>1, TableLists DEF StreamInv, Content
    <3> QED
      BY <2>1, <3>1, <3>2 DEF ReadFrom
  <2>4. ASSUME lost
        PROVE  \E frames \in Seq(Frame) : ReadFrom(orphan, frames)'
    <3>1. PICK frames \in Seq(Frame) : Layout(orphan, frames) /\ InTime(frames, ticks)
      BY <2>1, <2>4 DEF ReadInv, ReadFrom
    <3>2. Lists(Table(orphan), orphan, frames) /\ Content = orphan
      BY <2>4, <3>1, TableLists DEF JobInv, Content
    <3>3. ReadFrom(orphan, frames)'
      BY <2>1, <3>1, <3>2 DEF ReadFrom
    <3> QED
      BY <3>3
  <2> QED
    BY <2>1, <2>2, <2>3, <2>4
<1>9. CASE DecodeAt \/ (WriteThumbnail /\ index + 1 < CountOf(FrameCount, ticks, interval))
  <2>1. /\ UNCHANGED <<disk, kept, target, rewritten, lost, orphan, ticks, table>>
        /\ Reading /\ InLoop
    BY <1>9 DEF DecodeAt, WriteThumbnail, encVars, historyVars, readVars, Reading, InLoop
  <2> QED
    BY <1>0, <2>1, ReadKept
<1>10. \/ UNCHANGED <<encVars, jobVars, readVars, rewritten>>
       \/ BeginRender \/ RenderStep \/ RenderFails \/ ~Reading' \/ movie \/ OpenStream
       \/ ScanTable \/ DecodeAt
       \/ (WriteThumbnail /\ index + 1 < CountOf(FrameCount, ticks, interval))
  <2>1. \A ivl \in Intervals : Create(ivl) => ~Reading'
    BY DEF Create, Reading
  <2>2. Return => ~Reading'
    BY DEF Return, Reading
  <2>3. WriteThumbnail =>
          Return \/ (WriteThumbnail /\ index + 1 < CountOf(FrameCount, ticks, interval))
    BY DEF WriteThumbnail
  <2>4. Abandon \/ Cancel \/ Crash => Return
    BY DEF Abandon, Cancel, Crash
  <2>5. OpenMovie \/ DecodeMovie => movie
    BY DEF OpenMovie, DecodeMovie
  <2> QED
    BY <2>1, <2>2, <2>3, <2>4, <2>5 DEF Next, vars, historyVars
<1> QED
  BY <1>1, <1>2, <1>3, <1>4, <1>5, <1>6, <1>7, <1>8, <1>9, <1>10

\* The frame a movie gives for a boundary, to half a frame before it.
LEMMA MovieShows ==
  ASSUME NEW time \in Nat, NEW n \in NextFrames(time), \A m \in NextFrames(time) : n <= m
  PROVE  ShowsTime(Packets[n], time)
<1> DEFINE k == Packets[n]
           from == SeekMovie(time)
<1>1. /\ n \in 1..Len(Packets) /\ FrameAt(n) /\ k \in Frame /\ k \in Nat
      /\ from \in 1..Len(Packets) /\ FrameAt(from) /\ Packets[from] \in Frame
      /\ Packets[from] \in Nat /\ Packets[from] * SourceTicks <= time /\ from <= n
      /\ Len(Packets) \in Nat /\ SourceTicks \in Nat \ {0}
  <2>1. from \in 1..Len(Packets) /\ FrameAt(from) /\ Packets[from] \in Frame
        /\ Packets[from] * SourceTicks <= time
    BY SeekMovieIs
  <2>2. n \in from..Len(Packets) /\ FrameAt(n)
    BY DEF NextFrames, Fill
  <2>3. Len(Packets) \in Nat
    BY MovieIs
  <2> HIDE DEF from
  <2>4. n \in 1..Len(Packets) /\ from <= n
    BY <2>1, <2>2, <2>3
  <2> QED
    BY <2>1, <2>2, <2>3, <2>4, MovieIs, SizesTyped
<1>2. Reached(n, time)
  BY DEF NextFrames
<1> DEFINE x == k * SourceTicks
<1>3. x \in Nat /\ 2 * k * SourceTicks = 2 * x
  BY <1>1
<1>4. 2 * x + SourceTicks >= 2 * time
  BY <1>2, <1>3 DEF Reached
<1>5. 2 * x - 2 * time < 3 * SourceTicks
  <2>1. CASE n = from
    BY <1>1, <1>3, <2>1
  <2>2. CASE n # from
    <3>1. from < n
      BY <1>1, <2>2
    <3>2. Packets[from] < k
      BY <1>1, <3>1, MovieIs
    <3>3. k - 1 \in Frame /\ k - 1 \in Nat /\ k - 1 >= Packets[from] /\ k - 1 < k
      <4>1. Frames \in Nat /\ k \in 0..(Frames - 1)
        BY <1>1, SizesTyped DEF Frame
      <4> DEFINE f == Packets[from]
      <4>2. f \in Nat /\ f < k
        BY <1>1, <3>2
      <4> HIDE DEF f, k
      <4>3. k - 1 \in 0..(Frames - 1) /\ k - 1 \in Nat /\ k - 1 >= f /\ k - 1 < k
        BY <4>1, <4>2
      <4> QED
        BY <4>3 DEF f, Frame
    <3>4. PICK m \in 1..Len(Packets) : Packets[m] = k - 1 /\ FrameAt(m)
      BY <3>3, MovieIs
    <3>5. m \in Fill(from)
      BY <3>3, <3>4, FramesFollow
    <3>6. m < n
      <4> SUFFICES ASSUME n <= m
                   PROVE  FALSE
        BY <1>1
      <4>1. n # m
        BY <1>1, <3>3, <3>4
      <4>2. n < m
        BY <1>1, <4>1
      <4>3. k < Packets[m]
        BY <1>1, <3>4, <4>2, MovieIs
      <4> QED
        BY <1>1, <3>3, <3>4, <4>3
    <3>7. ~ Reached(m, time)
      <4>1. ~ (n <= m)
        BY <1>1, <3>6
      <4> QED
        BY <3>5, <4>1 DEF NextFrames
    <3>8. ~ (2 * (k - 1) * SourceTicks + SourceTicks >= 2 * time)
      BY <3>4, <3>7 DEF Reached
    <3>9. 2 * (k - 1) * SourceTicks = 2 * x - 2 * SourceTicks
      BY <1>1
    <3> HIDE DEF x
    <3> QED
      BY <1>1, <1>3, <3>8, <3>9
  <2> QED
    BY <2>1, <2>2
<1> HIDE DEF x
<1>6. 2 * (x - time) >= -SourceTicks /\ 2 * (x - time) < SourceTicks + 2 * SourceTicks
  BY <1>1, <1>3, <1>4, <1>5
<1>7. Ticks(0) = SourceTicks
  BY DEF Ticks
<1> QED
  BY <1>6, <1>7 DEF ShowsTime, x

\* The frame of a stream that is sought, to half of its duration.
LEMMA StreamShows ==
  ASSUME NEW time \in Nat, NEW t \in Targets, NEW frames \in Seq(Frame),
         InTime(frames, Ticks(t)), NEW n \in 1..Len(frames), n = SeekIndex(time, Ticks(t)) + 1
  PROVE  ShowsTime(frames[n], time)
<1> DEFINE d == Ticks(t)
           i == SeekIndex(time, d)
           k == frames[n]
           x == k * SourceTicks
           y == i * d
<1>1. d \in Nat \ {0} /\ SourceTicks \in Nat \ {0}
  BY TicksTyped, ProxyStreamAssumption
<1>2. k \in Nat
  BY SizesTyped
<1>3. i \in Nat /\ 2 * y <= 2 * time + d /\ 2 * time < 2 * y + d
  BY <1>1, SeekIndexIs
<1>4. x >= (n - 1) * d /\ x < (n - 1) * d + SourceTicks
  BY DEF InTime
<1>5. n - 1 = i
  BY <1>3
<1> HIDE DEF d, i
<1>6. x \in Nat /\ y \in Nat
  BY <1>1, <1>2, <1>3
<1>7. x >= y /\ x < y + SourceTicks
  BY <1>4, <1>5
<1> HIDE DEF x, y
<1>8. 2 * (x - time) >= -d /\ 2 * (x - time) < d + 2 * SourceTicks
  BY <1>1, <1>3, <1>6, <1>7
<1> QED
  BY <1>8 DEF ShowsTime, x, d

\* The frame that is about to be written is near the boundary.
ShowInv == job = "write" /\ ~rewritten /\ Slow => ShowsTime(image, index * interval)

\* The frame decoded, of a movie or a stream, is near the boundary.
LEMMA DecodeShows ==
  ASSUME StreamInv, JobInv, ReadInv, DecodeMovie \/ DecodeAt, ~rewritten, Slow
  PROVE  ShowsTime(image', index * interval)
<1> DEFINE time == index * interval
<1>1. time \in Nat
  BY BoundaryTyped
<1> HIDE DEF time
<1>2. CASE DecodeMovie
  <2>1. PICK n \in NextFrames(time) : /\ \A m \in NextFrames(time) : n <= m
                                      /\ image' = Packets[n]
    BY <1>2 DEF DecodeMovie, time
  <2> QED
    BY <1>1, <2>1, MovieShows DEF time
<1>3. CASE DecodeAt
  <2> DEFINE n == SeekIndex(time, ticks) + 1
  <2>1. PICK k \in Frame : Decodes(Content, table[n], k) /\ image' = k
    BY <1>3 DEF DecodeAt, FrameIndex, time
  <2>2. /\ ~movie /\ Reading /\ InLoop /\ ticks \in Nat \ {0} /\ table \in Seq(Entry)
        /\ SeekIndex(time, ticks) < Len(table)
    BY <1>3 DEF DecodeAt, Reading, InLoop, JobInv, FrameIndex, time
  <2>3. SeekIndex(time, ticks) \in Nat
    BY <1>1, <2>2, SeekIndexIs
  <2>4. n \in 1..Len(table)
    BY <2>2, <2>3
  <2>5. PICK t \in Targets : ticks = Ticks(t)
    BY <2>2 DEF ReadInv
  <2>6. PICK frames \in Seq(Frame) : ReadFrom(Content, frames)
    <3>1. kept \in Seq(Frame)
      BY DEF StreamInv
    <3> QED
      BY <2>2, <3>1 DEF ReadInv, Content
  <2>7. Layout(Content, frames) /\ InTime(frames, ticks) /\ Lists(table, Content, frames)
    BY <2>2, <2>6 DEF ReadFrom
  <2> HIDE DEF n
  <2>8. /\ n \in 1..Len(frames) /\ table[n] = EntryOf(frames, n)
        /\ Ends(frames)[n] <= Len(Content)
    <3>1. Len(table) \in Nat /\ Len(frames) \in Nat
      BY <2>2
    <3> QED
      BY <2>4, <2>7, <3>1 DEF Lists
  <2>9. k = frames[n]
    BY <2>1, <2>7, <2>8, ContentTyped, DecodesAsItIs
  <2>10. ShowsTime(frames[n], time)
    BY <1>1, <2>5, <2>7, <2>8, StreamShows DEF n
  <2> QED
    BY <2>1, <2>9, <2>10 DEF time
<1> QED
  BY <1>2, <1>3

\* ShowInv is inductive.
LEMMA StepShows ==
  ASSUME StreamInv, JobInv, ReadInv, ShowInv, [Next]_vars,
         rewritten \in BOOLEAN, rewritten' \in BOOLEAN
  PROVE  ShowInv'
<1>1. CASE DecodeMovie \/ DecodeAt
  <2>1. UNCHANGED <<index, interval, rewritten>>
    BY <1>1 DEF DecodeMovie, DecodeAt, historyVars
  <2> QED
    BY <1>1, <2>1, DecodeShows DEF ShowInv, Slow, ShowsTime, Ticks
<1>2. CASE UNCHANGED jobVars /\ (rewritten => rewritten')
  BY <1>2 DEF ShowInv, jobVars, Slow, ShowsTime, Ticks
<1>3. CASE job' # "write"
  BY <1>3 DEF ShowInv
<1>4. DecodeMovie \/ DecodeAt \/ (UNCHANGED jobVars /\ (rewritten => rewritten')) \/ job' # "write"
  <2>1. \A ivl \in Intervals : Create(ivl) => job' # "write"
    BY DEF Create
  <2>2. Return => job' # "write"
    BY DEF Return
  <2>3. WriteThumbnail => job' # "write"
    BY <2>2 DEF WriteThumbnail
  <2>4. Abandon \/ Cancel \/ Crash => Return
    BY DEF Abandon, Cancel, Crash
  <2>5. OpenMovie \/ OpenStream \/ ScanTable => job' # "write"
    BY DEF OpenMovie, OpenStream, ScanTable
  <2>6. BeginRender \/ RenderStep \/ RenderFails => UNCHANGED jobVars /\ (rewritten => rewritten')
    BY DEF BeginRender, RenderStep, RenderFails, historyVars
  <2> QED
    BY <2>1, <2>2, <2>3, <2>4, <2>5, <2>6 DEF Next, vars, historyVars
<1> QED
  BY <1>1, <1>2, <1>3, <1>4
-----------------------------------------------------------------------------
(* The directory of thumbnails. *)

\* The thumbnails there are: the first c, and none of them has another interval.
FirstThumbs(c) ==
  /\ Indices = 0..(c - 1) /\ index <= c
  /\ c > 0 => meta > 0
  /\ ~mixed => covered <= c * meta

DirInv ==
  /\ meta \in Nat /\ covered \in Nat /\ mixed \in BOOLEAN /\ rewritten \in BOOLEAN
  /\ job # "idle" => meta > 0 /\ (~mixed => meta = interval)
  /\ \E c \in Nat : FirstThumbs(c)
  /\ ~mixed /\ ~rewritten /\ Slow => \A i \in Indices : ShowsTime(thumbs[i], i * meta)

\* A step that leaves the directory alone.
LEMMA DirKept ==
  ASSUME JobInv, JobInv', DirInv, UNCHANGED <<meta, thumbs, covered, mixed>>,
         rewritten' \in BOOLEAN, rewritten => rewritten', job' # "idle" => job # "idle",
         job' # "idle" => interval' = interval, index' = index \/ index' = 0
  PROVE  DirInv'
<1>1. PICK c \in Nat : FirstThumbs(c)
  BY DEF DirInv
<1>2. FirstThumbs(c)'
  <2>1. index \in Nat /\ index' <= c
    BY <1>1 DEF JobInv, FirstThumbs
  <2> QED
    BY <1>1, <2>1 DEF FirstThumbs, Indices
<1>3. ~mixed' /\ ~rewritten' /\ Slow' =>
        \A i \in Indices' : ShowsTime(thumbs'[i], i * meta')
  BY DEF DirInv, Indices, Slow
<1>4. job' # "idle" => meta' > 0 /\ (~mixed' => meta' = interval')
  BY DEF DirInv
<1> QED
  BY <1>2, <1>3, <1>4 DEF DirInv

\* A job that begins, with the interval of the directory or another.
LEMMA CreateKeeps ==
  ASSUME JobInv, DirInv, NEW ivl \in Intervals, Create(ivl)
  PROVE  DirInv'
<1>1. /\ ivl \in Nat \ {0} /\ meta' = ivl /\ interval' = ivl /\ index' = index /\ job' # "idle"
      /\ thumbs' = thumbs /\ covered' = covered /\ rewritten' = rewritten
      /\ mixed' = (mixed \/ meta \notin {0, ivl}) /\ Indices' = Indices
  BY ThumbnailsAssumption DEF Create, Indices
<1>2. PICK c \in Nat : FirstThumbs(c)
  BY DEF DirInv
\* Where the interval is another one, there are no thumbnails yet.
<1>3. ASSUME ~mixed'
      PROVE  ~mixed /\ (meta = ivl \/ (c = 0 /\ covered = 0))
  <2>1. ~mixed /\ meta \in {0, ivl}
    BY <1>1, <1>3 DEF DirInv
  <2>2. CASE meta = 0
    <3>1. c = 0 /\ covered <= 0
      BY <1>2, <2>1, <2>2 DEF FirstThumbs
    <3> QED
      BY <2>1, <3>1 DEF DirInv
  <2> QED
    BY <2>1, <2>2
<1>4. FirstThumbs(c)'
  <2>1. ~mixed' => covered' <= c * meta'
    BY <1>1, <1>2, <1>3 DEF FirstThumbs
  <2> QED
    BY <1>1, <1>2, <2>1 DEF FirstThumbs
<1>5. ASSUME ~mixed', ~rewritten', Slow', NEW i \in Indices'
      PROVE  ShowsTime(thumbs'[i], i * meta')
  <2>1. i \in 0..(c - 1)
    BY <1>1, <1>2 DEF FirstThumbs
  <2>2. meta = ivl /\ ~mixed
    BY <1>3, <1>5, <2>1
  <2>3. Slow
    BY <1>5 DEF Slow
  <2> QED
    BY <1>1, <1>5, <2>2, <2>3 DEF DirInv
<1>6. mixed' \in BOOLEAN
  BY <1>1 DEF DirInv
<1> QED
  BY <1>1, <1>4, <1>5, <1>6 DEF DirInv

\* A thumbnail more, or one that is there already; perhaps the last.
LEMMA WriteKeeps ==
  ASSUME JobInv, ShowInv, DirInv, WriteThumbnail
  PROVE  DirInv'
<1>1. /\ job = "write" /\ InLoop /\ meta > 0 /\ (~mixed => meta = interval)
      /\ index \in Nat /\ interval \in Nat \ {0} /\ ticks \in Nat \ {0} /\ meta \in Nat
  BY DEF WriteThumbnail, InLoop, JobInv, Reading, DirInv
<1>2. /\ thumbs' = [i \in Indices \cup {index} |-> IF i = index THEN image ELSE thumbs[i]]
      /\ meta' = meta /\ mixed' = mixed /\ rewritten' = rewritten
  BY <1>1 DEF WriteThumbnail, Indices
<1>3. PICK c \in Nat : FirstThumbs(c)
  BY DEF DirInv
<1>4. Indices' = Indices \cup {index} /\ Indices = 0..(c - 1) /\ index <= c
  BY <1>2, <1>3 DEF FirstThumbs, Indices
<1>5. PICK e \in Nat : Indices' = 0..(e - 1) /\ index + 1 <= e /\ c <= e /\ e > 0
  <2>1. CASE index = c
    <3>1. c + 1 \in Nat /\ Indices' = 0..((c + 1) - 1) /\ index + 1 <= c + 1 /\ c + 1 > 0
      BY <1>1, <1>4, <2>1
    <3> QED
      BY <3>1
  <2>2. CASE index # c
    <3>1. Indices' = 0..(c - 1) /\ index + 1 <= c /\ c > 0
      BY <1>1, <1>4, <2>2
    <3> QED
      BY <3>1
  <2> QED
    BY <2>1, <2>2
<1>6. /\ FrameCount \in Nat /\ FrameCount * ticks \in Nat
      /\ \/ index' = index + 1 /\ covered' = covered /\ job' = "seek" /\ interval' = interval
         \/ /\ index' = 0 /\ covered' = FrameCount * ticks /\ job' = "idle"
            /\ ~ (index + 1 < CountOf(FrameCount, ticks, interval))
  <2>1. FrameCount \in Nat
    BY FrameCountTyped
  <2>2. FrameCount * ticks \in Nat
    BY <1>1, <2>1
  <2> QED
    BY <2>1, <2>2 DEF WriteThumbnail, Return
<1>7. ~mixed /\ covered' = covered => covered' <= e * meta
  <2> SUFFICES ASSUME ~mixed
               PROVE  covered <= e * meta
    OBVIOUS
  <2>1. covered <= c * meta /\ covered \in Nat
    BY <1>3 DEF FirstThumbs, DirInv
  <2>2. c * meta <= e * meta /\ c * meta \in Nat /\ e * meta \in Nat
    <3>1. meta * c <= meta * e
      BY <1>1, <1>5
    <3> QED
      BY <1>1, <1>5, <3>1
  <2> QED
    BY <2>1, <2>2
\* A job that has finished has gone through the whole stream.
<1>8. ~mixed /\ covered' = FrameCount * ticks
        /\ ~ (index + 1 < CountOf(FrameCount, ticks, interval)) => covered' <= e * meta
  <2> SUFFICES ASSUME ~mixed, ~ (index + 1 < CountOf(FrameCount, ticks, interval))
               PROVE  FrameCount * ticks <= e * meta
    OBVIOUS
  <2>1. CASE FrameCount = 0
    <3>1. FrameCount * ticks = 0 /\ e * meta \in Nat
      BY <1>1, <1>5, <2>1
    <3> QED
      BY <3>1
  <2>2. CASE FrameCount > 0
    <3>1. ~ ((index + 1) * interval < FrameCount * ticks)
      <4>1. index + 1 \in Nat
        BY <1>1
      <4> QED
        BY <1>1, <1>6, <2>2, <4>1, CountIs
    <3>2. meta * (index + 1) <= meta * e
      BY <1>1, <1>5
    <3>3. /\ (index + 1) * interval = meta * (index + 1) /\ meta * e = e * meta
          /\ meta * (index + 1) \in Nat /\ e * meta \in Nat
      BY <1>1, <1>5
    <3> QED
      BY <1>6, <3>1, <3>2, <3>3
  <2> QED
    BY <1>6, <2>1, <2>2
<1>9. FirstThumbs(e)'
  <2>1. index' <= e /\ (~mixed' => covered' <= e * meta') /\ meta' > 0
    BY <1>1, <1>2, <1>5, <1>6, <1>7, <1>8
  <2> QED
    BY <1>5, <2>1 DEF FirstThumbs
<1>10. ASSUME ~mixed', ~rewritten', Slow', NEW i \in Indices'
       PROVE  ShowsTime(thumbs'[i], i * meta')
  <2>1. Slow /\ ~mixed /\ ~rewritten /\ meta' = interval
    BY <1>1, <1>2, <1>10 DEF Slow
  <2>2. CASE i = index
    <3>1. thumbs'[i] = image
      BY <1>2, <2>2
    <3> QED
      BY <1>1, <2>1, <2>2, <3>1 DEF ShowInv
  <2>3. CASE i # index
    <3>1. i \in Indices /\ thumbs'[i] = thumbs[i]
      BY <1>2, <1>4, <1>10, <2>3
    <3> QED
      BY <1>2, <2>1, <3>1 DEF DirInv
  <2> QED
    BY <2>2, <2>3
<1>11. covered' \in Nat
  BY <1>6 DEF DirInv
<1>12. job' # "idle" => meta' > 0 /\ (~mixed' => meta' = interval')
  BY <1>1, <1>2, <1>6
<1>13. meta' \in Nat /\ mixed' \in BOOLEAN /\ rewritten' \in BOOLEAN
  BY <1>2 DEF DirInv
<1> QED
  BY <1>5, <1>9, <1>10, <1>11, <1>12, <1>13 DEF DirInv

\* DirInv is inductive.
LEMMA StepKeepsDir ==
  ASSUME JobInv, JobInv', ShowInv, DirInv, [Next]_vars
  PROVE  DirInv'
<1>0. rewritten \in BOOLEAN
  BY DEF DirInv
<1>1. ASSUME NEW ivl \in Intervals, Create(ivl)
      PROVE  DirInv'
  BY <1>1, CreateKeeps
<1>2. CASE WriteThumbnail
  BY <1>2, WriteKeeps
<1>3. CASE Return /\ UNCHANGED <<dirVars, historyVars>>
  BY <1>0, <1>3, DirKept DEF Return, dirVars, historyVars
<1>4. CASE UNCHANGED <<dirVars, jobVars, covered, mixed>> /\ rewritten' \in BOOLEAN
           /\ (rewritten => rewritten')
  BY <1>4, DirKept DEF dirVars, jobVars
<1>5. CASE OpenMovie \/ OpenStream \/ ScanTable \/ DecodeMovie \/ DecodeAt
  <2>1. /\ job # "idle" /\ UNCHANGED <<dirVars, historyVars, interval>>
        /\ (index' = index \/ index' = 0)
    BY <1>5 DEF OpenMovie, OpenStream, ScanTable, DecodeMovie, DecodeAt
  <2> QED
    BY <1>0, <2>1, DirKept DEF dirVars, historyVars
<1>6. \/ (\E ivl \in Intervals : Create(ivl)) \/ WriteThumbnail
      \/ Return /\ UNCHANGED <<dirVars, historyVars>>
      \/ /\ UNCHANGED <<dirVars, jobVars, covered, mixed>> /\ rewritten' \in BOOLEAN
         /\ rewritten => rewritten'
      \/ OpenMovie \/ OpenStream \/ ScanTable \/ DecodeMovie \/ DecodeAt
  <2>1. Abandon \/ Cancel \/ Crash => Return /\ UNCHANGED <<dirVars, historyVars>>
    BY DEF Abandon, Cancel, Crash
  <2>2. BeginRender \/ RenderStep \/ RenderFails =>
          /\ UNCHANGED <<dirVars, jobVars, covered, mixed>> /\ rewritten' \in BOOLEAN
          /\ rewritten => rewritten'
    <3>1. BeginRender => rewritten' \in BOOLEAN /\ (rewritten => rewritten')
      BY <1>0 DEF BeginRender
    <3>2. BeginRender => UNCHANGED <<dirVars, jobVars, covered, mixed>>
      BY DEF BeginRender
    <3>3. RenderStep \/ RenderFails => UNCHANGED <<dirVars, jobVars, covered, mixed, rewritten>>
      BY DEF RenderStep, RenderFails, historyVars
    <3> QED
      BY <1>0, <3>1, <3>2, <3>3
  <2> QED
    BY <1>0, <2>1, <2>2 DEF Next, vars, historyVars
<1> QED
  BY <1>1, <1>2, <1>3, <1>4, <1>5, <1>6

\* A distance in time is a number.
LEMMA DistanceIs ==
  ASSUME NEW i \in Nat, NEW time \in Nat, meta \in Nat
  PROVE  /\ i * meta \in Nat /\ Distance(i, time) \in Nat
         /\ i * meta <= time => Distance(i, time) = time - i * meta
         /\ i * meta >= time => Distance(i, time) = i * meta - time
<1> DEFINE x == i * meta
<1>1. x \in Nat
  OBVIOUS
<1>2. Distance(i, time) = IF x < time THEN time - x ELSE x - time
  BY DEF Distance
<1> HIDE DEF x
<1>3. /\ Distance(i, time) \in Nat
      /\ x <= time => Distance(i, time) = time - x
      /\ x >= time => Distance(i, time) = x - time
  BY <1>1, <1>2
<1> QED
  BY <1>1, <1>3 DEF x

\* read_nearest returns an index at the least distance.
LEMMA NearestIs ==
  ASSUME NEW time \in Nat, meta \in Nat, Indices \subseteq Nat, Indices # {}
  PROVE  /\ Nearest(time) \in Indices
         /\ \A j \in Indices : Distance(Nearest(time), time) <= Distance(j, time)
<1> DEFINE Near == {Distance(i, time) : i \in Indices}
<1>1. \A i \in Indices : i \in Nat /\ Distance(i, time) \in Nat
  BY DistanceIs
<1>2. PICK d \in Near : \A e \in Near : d <= e
  <2>1. Near \subseteq Nat /\ Near # {}
    BY <1>1
  <2> HIDE DEF Near
  <2> QED
    BY <2>1, LeastNumber
<1> DEFINE First == {i \in Indices : Distance(i, time) = d}
<1>3. PICK i \in First : \A j \in First : i <= j
  <2>1. First \subseteq Nat /\ First # {}
    BY <1>1, <1>2
  <2> HIDE DEF First
  <2> QED
    BY <2>1, LeastNumber
<1> DEFINE Chosen(n) == \A j \in Indices :
             \/ Distance(n, time) < Distance(j, time)
             \/ Distance(n, time) = Distance(j, time) /\ n <= j
<1>4. i \in Indices /\ Chosen(i)
  <2>1. i \in Indices /\ Distance(i, time) = d
    BY <1>3
  <2>2. ASSUME NEW j \in Indices
        PROVE  \/ Distance(i, time) < Distance(j, time)
               \/ Distance(i, time) = Distance(j, time) /\ i <= j
    <3>1. d <= Distance(j, time) /\ Distance(j, time) \in Nat /\ d \in Nat
      BY <1>1, <1>2
    <3>2. CASE Distance(j, time) = d
      BY <1>3, <2>1, <3>2
    <3>3. CASE Distance(j, time) # d
      BY <2>1, <3>1, <3>3
    <3> QED
      BY <3>2, <3>3
  <2> QED
    BY <2>1, <2>2
<1>5. Nearest(time) = CHOOSE n \in Indices : Chosen(n)
  BY DEF Nearest
<1>6. Nearest(time) \in Indices /\ Chosen(Nearest(time))
  <2> HIDE DEF Chosen
  <2> QED
    BY <1>4, <1>5
<1>7. ASSUME NEW j \in Indices
      PROVE  Distance(Nearest(time), time) <= Distance(j, time)
  <2>1. Distance(Nearest(time), time) \in Nat /\ Distance(j, time) \in Nat
    BY <1>1, <1>6
  <2> QED
    BY <1>6, <2>1
<1> QED
  BY <1>6, <1>7

\* No multiple of the interval is nearer than the one that read_thumbnail takes.
LEMMA NoneNearer ==
  ASSUME NEW time \in Nat, meta \in Nat \ {0}, NEW i \in Nat
  PROVE  /\ IndexForTime(time) \in Nat
         /\ Distance(IndexForTime(time), time) <= Distance(i, time)
<1> DEFINE j == IndexForTime(time)
           x == j * meta
           y == i * meta
<1>1. j = SeekIndex(time, meta)
  BY DEF IndexForTime, SeekIndex
<1>2. j \in Nat /\ 2 * x <= 2 * time + meta /\ 2 * time < 2 * x + meta
  BY <1>1, SeekIndexIs
<1> HIDE DEF j
<1>3. i > j => y >= x + meta
  <2> SUFFICES ASSUME i > j
               PROVE  y >= x + meta
    OBVIOUS
  <2>1. meta * (j + 1) <= meta * i
    BY <1>2
  <2>2. meta * (j + 1) = x + meta /\ meta * i = y
    BY <1>2
  <2> QED
    BY <2>1, <2>2
<1>4. i < j => x >= y + meta
  <2> SUFFICES ASSUME i < j
               PROVE  x >= y + meta
    OBVIOUS
  <2>1. meta * (i + 1) <= meta * j
    BY <1>2
  <2>2. meta * (i + 1) = y + meta /\ meta * j = x
    BY <1>2
  <2> QED
    BY <2>1, <2>2
<1>5. /\ x \in Nat /\ Distance(j, time) \in Nat
      /\ x <= time => Distance(j, time) = time - x
      /\ x >= time => Distance(j, time) = x - time
  BY <1>2, DistanceIs
<1>6. /\ y \in Nat /\ Distance(i, time) \in Nat
      /\ y <= time => Distance(i, time) = time - y
      /\ y >= time => Distance(i, time) = y - time
  BY DistanceIs
<1>7. i = j => y = x
  OBVIOUS
<1> HIDE DEF x, y
<1>8. Distance(j, time) <= Distance(i, time)
  <2>1. CASE i = j
    BY <1>5, <2>1
  <2>2. CASE i > j
    BY <1>2, <1>3, <1>5, <1>6, <2>2
  <2>3. CASE i < j
    BY <1>2, <1>4, <1>5, <1>6, <2>3
  <2> QED
    BY <1>2, <2>1, <2>2, <2>3
<1> QED
  BY <1>2, <1>8 DEF j

\* Some thumbnail is at most an interval away.
LEMMA OneNear ==
  ASSUME NEW c \in Nat \ {0}, meta \in Nat \ {0}, NEW time \in Nat, time <= c * meta
  PROVE  \E i \in 0..(c - 1) : Distance(i, time) <= meta
<1> DEFINE q == time \div meta
<1>1. q \in Nat /\ meta * q <= time /\ time < meta * q + meta
  BY Quotient
<1> HIDE DEF q
<1>2. CASE q < c
  <2>1. q \in 0..(c - 1) /\ q * meta = meta * q /\ meta * q \in Nat
    BY <1>1, <1>2
  <2>2. Distance(q, time) = time - q * meta
    BY <1>1, <2>1, DistanceIs
  <2>3. Distance(q, time) <= meta
    BY <1>1, <2>1, <2>2
  <2> QED
    BY <2>1, <2>3
<1>3. CASE ~ (q < c)
  <2> DEFINE i == c - 1
             x == i * meta
  <2>1. i \in 0..(c - 1) /\ i \in Nat
    OBVIOUS
  <2>2. x \in Nat /\ c * meta = x + meta /\ meta * c = c * meta
    OBVIOUS
  <2>3. meta * c <= meta * q
    BY <1>1, <1>3
  <2>4. x <= time => Distance(i, time) = time - x
    BY <2>1, DistanceIs
  <2> HIDE DEF x
  <2>5. meta * q \in Nat
    BY <1>1
  <2>6. Distance(i, time) <= meta
    BY <1>1, <2>2, <2>3, <2>4, <2>5
  <2> QED
    BY <2>1, <2>6
<1> QED
  BY <1>2, <1>3

\* Both lookups find what is nearest, once a job has finished.
LEMMA LookupsNear ==
  ASSUME DirInv, ~mixed, covered > 0, NEW time \in 0..covered
  PROVE  /\ Opens /\ Indices # {} /\ Distance(Nearest(time), time) <= meta
         /\ \/ IndexForTime(time) \in Indices
               /\ Distance(IndexForTime(time), time) = Distance(Nearest(time), time)
            \/ \A i \in Indices : i < IndexForTime(time)
<1>1. PICK c \in Nat : FirstThumbs(c)
  BY DEF DirInv
<1>2. covered \in Nat /\ covered <= c * meta /\ meta \in Nat /\ Indices = 0..(c - 1)
  BY <1>1 DEF DirInv, FirstThumbs
<1>3. c > 0
  <2>1. c = 0 => c * meta = 0
    BY <1>2
  <2> QED
    BY <1>2, <2>1
<1>4. meta > 0 /\ Opens
  BY <1>1, <1>3 DEF FirstThumbs, Opens
<1>5. time \in Nat /\ time <= c * meta /\ c * meta \in Nat
  BY <1>2
<1>6. PICK i \in 0..(c - 1) : Distance(i, time) <= meta
  BY <1>2, <1>3, <1>4, <1>5, OneNear
<1>7. Indices \subseteq Nat /\ Indices # {}
  <2>1. 0 \in 0..(c - 1)
    BY <1>3
  <2> QED
    BY <1>2, <2>1
<1>8. /\ Nearest(time) \in Indices
      /\ \A j \in Indices : Distance(Nearest(time), time) <= Distance(j, time)
  BY <1>2, <1>5, <1>7, NearestIs
<1>9. Nearest(time) \in Nat /\ i \in Nat
  BY <1>2, <1>8
<1>10. Distance(Nearest(time), time) <= meta
  <2>1. Distance(Nearest(time), time) \in Nat /\ Distance(i, time) \in Nat
    BY <1>2, <1>5, <1>9, DistanceIs
  <2>2. Distance(Nearest(time), time) <= Distance(i, time)
    BY <1>2, <1>8
  <2> QED
    BY <1>2, <1>6, <2>1, <2>2
<1> DEFINE j == IndexForTime(time)
<1>11. j \in Nat /\ Distance(j, time) <= Distance(Nearest(time), time)
  BY <1>2, <1>4, <1>5, <1>9, NoneNearer
<1> HIDE DEF j
<1>12. CASE j \in Indices
  <2>1. Distance(Nearest(time), time) <= Distance(j, time)
    BY <1>8, <1>12
  <2>2. Distance(Nearest(time), time) \in Nat /\ Distance(j, time) \in Nat
    BY <1>2, <1>5, <1>9, <1>11, DistanceIs
  <2>3. Distance(j, time) = Distance(Nearest(time), time)
    BY <1>11, <2>1, <2>2
  <2> QED
    BY <1>4, <1>7, <1>10, <1>12, <2>3 DEF j
<1>13. CASE j \notin Indices
  <2>1. \A n \in Indices : n < j
    BY <1>2, <1>11, <1>13
  <2> QED
    BY <1>4, <1>7, <1>10, <2>1 DEF j
<1> QED
  BY <1>12, <1>13

\* What a job has read, what it is about to write, and what is there.
ThumbInv == TimeInv /\ StreamInv /\ JobInv /\ ReadInv /\ ShowInv /\ DirInv

\* ThumbInv holds initially.
LEMMA InitThumbs == InitAll => ThumbInv
<1> SUFFICES ASSUME InitAll
             PROVE  ThumbInv
  OBVIOUS
<1>1. TimeInv /\ StreamInv /\ JobInv
  BY TimeBegins, InitLaysOut, InitTypesJob
<1>2. job = "idle" /\ meta = 0 /\ covered = 0 /\ mixed = FALSE /\ rewritten = FALSE
      /\ index = 0 /\ thumbs = <<>>
  BY DEF InitAll
<1>3. ReadInv /\ ShowInv
  BY <1>2 DEF ReadInv, Reading, ShowInv
<1>4. Indices = {}
  BY <1>2 DEF Indices
<1>5. FirstThumbs(0)
  <2>1. 0..(0 - 1) = {} /\ 0 * meta = 0
    BY <1>2
  <2> QED
    BY <1>2, <1>4, <2>1 DEF FirstThumbs
<1>6. DirInv
  BY <1>2, <1>4, <1>5 DEF DirInv
<1> QED
  BY <1>1, <1>3, <1>6 DEF ThumbInv

\* ThumbInv is inductive.
LEMMA StepKeepsThumbs ==
  ASSUME ThumbInv, [Next]_vars
  PROVE  ThumbInv'
<1>1. TimeInv /\ StreamInv /\ JobInv /\ ReadInv /\ ShowInv /\ DirInv
  BY DEF ThumbInv
<1>2. TimeInv'
  BY <1>1, StepKeepsTime
<1>3. StreamInv'
  BY <1>1, StepLaysOut
<1>4. JobInv'
  BY <1>1, StepTypesJob
<1>5. DirInv'
  BY <1>1, <1>4, StepKeepsDir
<1>6. rewritten \in BOOLEAN /\ rewritten' \in BOOLEAN
  BY <1>1, <1>5 DEF DirInv
<1>7. ReadInv'
  BY <1>1, <1>2, <1>3, <1>6, StepReads
<1>8. ShowInv'
  BY <1>1, <1>6, StepShows
<1> QED
  BY <1>2, <1>3, <1>4, <1>5, <1>7, <1>8 DEF ThumbInv

\* ThumbInv is an invariant.
LEMMA ThumbsInvariant == Spec => []ThumbInv
  BY InitThumbs, StepKeepsThumbs, PTL DEF Spec

(* Whatever part of a stream is on the disk, while it is rendered, after a
   failure, or after a crash in the middle of any write, its table lists the
   frames that are there in full, each under its own index, for any sizes of
   payloads, and all of them once the render has finished. *)
THEOREM FramesReadable == Spec => []WholeFramesReadable
<1>1. ThumbInv => WholeFramesReadable
  BY StreamReadable DEF ThumbInv
<1> QED
  BY <1>1, ThumbsInvariant, PTL

(* A thumbnail job asks for boundaries before the end of its video only, and
   finds no frame only at one in the second half of the last, for any movie,
   any part of any stream, and any interval. *)
THEOREM BoundariesAsked == Spec => []MissesOnlyTheLastHalf
<1>1. ThumbInv => MissesOnlyTheLastHalf
  BY MissesLittle DEF ThumbInv
<1> QED
  BY <1>1, ThumbsInvariant, PTL

(* Each thumbnail shows its time, to half a frame of the proxy and a frame of
   the source, and after a job has finished both lookups find the thumbnail
   that is nearest, for any movie, profiles and interval, whatever renders and
   jobs fail, crash, or run at the same time, if no stream was rendered again
   under a job and the directory has had one interval. *)
THEOREM ThumbnailsInTime == Spec => []ThumbnailsShowTheirTime
<1>1. ThumbInv => ThumbnailsShowTheirTime
  <2> SUFFICES ASSUME DirInv, ~mixed, ~rewritten, Slow
               PROVE  /\ \A i \in Indices : ShowsTime(thumbs[i], i * meta)
                      /\ \A time \in 0..covered : covered > 0 =>
                           /\ Opens /\ Indices # {} /\ Distance(Nearest(time), time) <= meta
                           /\ \/ IndexForTime(time) \in Indices
                                 /\ Distance(IndexForTime(time), time)
                                      = Distance(Nearest(time), time)
                              \/ \A i \in Indices : i < IndexForTime(time)
    BY DEF ThumbInv, ThumbnailsShowTheirTime, Slow
  <2>1. \A i \in Indices : ShowsTime(thumbs[i], i * meta)
    BY DEF DirInv
  <2> QED
    BY <2>1, LookupsNear
<1> QED
  BY <1>1, ThumbsInvariant, PTL
=============================================================================
