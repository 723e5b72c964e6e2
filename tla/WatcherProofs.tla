---------------------------- MODULE WatcherProofs ----------------------------
(***************************************************************************)
(* Theorems about the watcher, for any paths, nested directories, backends *)
(* and numbers of changes, calls and faults.                               *)
(***************************************************************************)
EXTENDS WatcherProperties, FiniteSetTheorems, SequenceTheorems, TLAPS

AnyEvent ==
  {e \in [kind : {"Created", "Modified", "Deleted", "Renamed"}, path : Path, old : Path] :
     e.kind # "Renamed" => e.old = e.path}

Plain(e) == e.kind # "Renamed"

FilesTyped ==
  /\ fs \in [Path -> Nat] /\ clock \in Nat /\ files \in [Path -> Nat]
  /\ fresh \in [Path -> Nat] /\ todo \subseteq Path
  /\ backend \in Backend /\ dirs \subseteq Dir /\ watching \subseteq Dir
  /\ holder \in {"none", "scanner", "watch"} /\ closed \in BOOLEAN

EventsTyped ==
  /\ batch \subseteq AnyEvent /\ (\A e \in batch : Plain(e))
  /\ chan \in Seq(AnyEvent) /\ pending \in Seq(AnyEvent) /\ work \in Seq(AnyEvent)
  /\ due \in Nat /\ due <= Len(pending)
  /\ pc \in {"idle", "recv", "try", "handle", "invalidate"}
  /\ pc \in {"handle", "invalidate"} => work # <<>>

AssetsTyped ==
  /\ caches \in [Path -> SUBSET Nat] /\ importing \subseteq Path \X Nat
  /\ owed \subseteq Path \X Nat
  /\ \A x \in owed : x[2] \in caches[x[1]]

Typed == FilesTyped /\ EventsTyped /\ AssetsTyped

(* The scanner holds no events of an earlier scan, and what it tracks is
   watched. *)
InDirs(p) == \E d \in dirs : p \in Under[d]

Scanning ==
  /\ holder = "scanner" => batch = {} /\ ~closed
  /\ closed => batch = {}
  /\ \A e, f \in batch : e.path = f.path => e = f
  /\ \A p \in Path : files[p] # 0 => InDirs(p)
  /\ holder = "scanner" => \A p \in Path : p \in todo \/ fresh[p] # 0 => InDirs(p)
  /\ holder = "watch" => \A p \in Path : p \in todo \/ fresh[p] # 0 =>
                            \E d \in watching : p \in Under[d]

(* An event that no renaming onto its own path comes after: the debouncer
   puts nothing but an event of the same target in its place. *)
AllPlain(s, p) == \A i \in DOMAIN s : s[i].path = p => Plain(s[i])

InChan(p) ==
  \E i \in DOMAIN chan :
    /\ chan[i].path = p
    /\ \A k \in DOMAIN chan : i <= k /\ chan[k].path = p => Plain(chan[k])

InPending(p) ==
  /\ \E i \in DOMAIN pending : pending[i].path = p /\ Plain(pending[i])
  /\ AllPlain(chan, p)

SureEvent(p) == (\E e \in batch : e.path = p) \/ InChan(p) \/ InPending(p) \/ InWork(p)

Sure(x) == SureEvent(x[1]) \/ ScanWillFind(x[1]) \/ BeingDropped(x[1], x[2])

OwedIsSure == \A x \in owed \ excused : Sure(x)

Inv == Typed /\ Scanning /\ OwedIsSure
-----------------------------------------------------------------------------
(* Events and sequences of them. *)

LEMMA EventFacts ==
  /\ \A e \in AnyEvent : e.path \in Path /\ e.old \in Path /\ TargetPath(e) \in Path
  /\ \A e \in AnyEvent : Plain(e) => TargetPath(e) = e.path
  /\ \A p \in Path, kind \in {"Created", "Modified", "Deleted"} :
       /\ Event(kind, p) \in AnyEvent /\ Plain(Event(kind, p)) /\ Event(kind, p).path = p
  /\ \A p, q \in Path : Renamed(p, q) \in AnyEvent /\ Renamed(p, q).path = q
  BY DEF AnyEvent, TargetPath, Plain, Event, Renamed

LEMMA RemoveIndexFacts ==
  ASSUME NEW S, NEW s \in Seq(S), NEW i \in DOMAIN s
  PROVE  /\ RemoveIndex(s, i) \in Seq(S) /\ Len(RemoveIndex(s, i)) = Len(s) - 1
         /\ \A j \in DOMAIN s : j # i =>
              \E k \in DOMAIN RemoveIndex(s, i) : RemoveIndex(s, i)[k] = s[j]
<1> DEFINE r == RemoveIndex(s, i)
<1>1. Len(s) \in Nat /\ i \in 1..Len(s) /\ Len(s) - 1 \in Nat /\ DOMAIN s = 1..Len(s)
  OBVIOUS
<1>2. \A k \in 1..Len(s) - 1 : r[k] = (IF k < i THEN s[k] ELSE s[k + 1]) /\ r[k] \in S
  BY <1>1 DEF RemoveIndex
<1>3. r = [k \in 1..Len(s) - 1 |-> r[k]]
  BY DEF RemoveIndex
<1>4. r \in Seq(S) /\ Len(r) = Len(s) - 1 /\ DOMAIN r = 1..Len(s) - 1
  <2> HIDE DEF r
  <2>1. r \in [1..Len(s) - 1 -> S]
    BY <1>2, <1>3
  <2>2. r \in Seq(S)
    BY <1>1, <2>1, SeqDef
  <2>3. DOMAIN r = 1..Len(s) - 1 /\ DOMAIN r = 1..Len(r) /\ Len(r) \in Nat
    BY <2>1, <2>2
  <2>4. ASSUME NEW m \in Nat, NEW n \in Nat, 1..m = 1..n
        PROVE  m <= n
    <3>1. m \in 1..m \/ m = 0
      OBVIOUS
    <3> QED
      BY <2>4, <3>1
  <2>5. Len(r) = Len(s) - 1
    <3> DEFINE m == Len(r)
               n == Len(s) - 1
    <3>1. m \in Nat /\ n \in Nat /\ 1..m = 1..n
      BY <1>1, <2>3
    <3> HIDE DEF m, n
    <3>2. m <= n /\ n <= m
      BY <2>4, <3>1
    <3>3. m = n
      BY <3>1, <3>2
    <3> QED
      BY <3>3 DEF m, n
  <2> QED
    BY <2>2, <2>3, <2>5
<1>5. ASSUME NEW j \in DOMAIN s, j # i
      PROVE  \E k \in DOMAIN r : r[k] = s[j]
  <2> HIDE DEF r
  <2>1. CASE j < i
    BY <1>1, <1>2, <1>4, <2>1
  <2>2. CASE j > i
    <3>1. j - 1 \in DOMAIN r /\ ~(j - 1 < i) /\ (j - 1) + 1 = j
      BY <1>1, <1>4, <2>2
    <3>2. r[j - 1] = s[j]
      BY <1>2, <1>4, <3>1
    <3> QED
      BY <3>1, <3>2
  <2> QED
    BY <1>1, <1>5, <2>1, <2>2
<1> QED
  BY <1>4, <1>5

\* A push takes the place of at most the pending event of the same path.
LEMMA PushFacts ==
  ASSUME NEW s \in Seq(AnyEvent), NEW e \in AnyEvent, NEW d \in Nat, d <= Len(s)
  PROVE  /\ Push(s, e) \in Seq(AnyEvent)
         /\ DueAfterPush(s, d, e) \in Nat /\ DueAfterPush(s, d, e) <= Len(Push(s, e))
         /\ \E i \in DOMAIN Push(s, e) : Push(s, e)[i] = e
         /\ \A j \in DOMAIN s : s[j].path # e.path =>
              \E i \in DOMAIN Push(s, e) : Push(s, e)[i] = s[j]
<1> DEFINE r == IF Holds(s, e.path) THEN RemoveIndex(s, IndexOf(s, e.path)) ELSE s
<1>1. Holds(s, e.path) => IndexOf(s, e.path) \in DOMAIN s /\ s[IndexOf(s, e.path)].path = e.path
  BY DEF Holds, IndexOf
<1>2. r \in Seq(AnyEvent)
  BY <1>1, RemoveIndexFacts
<1>3. /\ Len(s) \in Nat /\ DOMAIN s = 1..Len(s)
      /\ Len(r) = IF Holds(s, e.path) THEN Len(s) - 1 ELSE Len(s)
  BY <1>1, RemoveIndexFacts
<1>4. \A j \in DOMAIN s : s[j].path # e.path => \E k \in DOMAIN r : r[k] = s[j]
  BY <1>1, RemoveIndexFacts
<1>5. Push(s, e) = Append(r, e)
  BY DEF Push
<1>6. DueAfterPush(s, d, e) \in Nat /\ DueAfterPush(s, d, e) <= Len(r) + 1
  BY <1>1, <1>3 DEF DueAfterPush
<1> HIDE DEF r
<1>7. /\ Append(r, e) \in Seq(AnyEvent) /\ Len(Append(r, e)) = Len(r) + 1
      /\ DOMAIN r = 1..Len(r) /\ Len(r) \in Nat /\ Append(r, e)[Len(r) + 1] = e
      /\ DOMAIN Append(r, e) = 1..Len(r) + 1 /\ \A k \in 1..Len(r) : Append(r, e)[k] = r[k]
  BY <1>2
<1>8. \A k \in DOMAIN r : \E i \in DOMAIN Append(r, e) : Append(r, e)[i] = r[k]
  BY <1>7
<1>9. \E i \in DOMAIN Append(r, e) : Append(r, e)[i] = e
  BY <1>7
<1> QED
  BY <1>4, <1>5, <1>6, <1>7, <1>8, <1>9

\* The first element of a sequence that is not empty, and the others.
LEMMA HeadTail ==
  ASSUME NEW S, NEW s \in Seq(S), s # <<>>
  PROVE  /\ Head(s) = s[1] /\ 1 \in DOMAIN s /\ Head(s) \in S /\ Tail(s) \in Seq(S)
         /\ Len(Tail(s)) = Len(s) - 1 /\ Len(s) \in Nat \ {0}
         /\ \A i \in DOMAIN Tail(s) : i \in Nat /\ i + 1 \in DOMAIN s /\ Tail(s)[i] = s[i + 1]
         /\ \A i \in DOMAIN s : i \in Nat /\ (i # 1 => i - 1 \in DOMAIN Tail(s))
  OBVIOUS

LEMMA Targets ==
  ASSUME NEW s \in Seq(AnyEvent), s # <<>>
  PROVE  TargetsOf(s) = {TargetPath(Head(s))} \cup TargetsOf(Tail(s))
<1>1. ASSUME NEW p \in TargetsOf(s)
      PROVE  p = TargetPath(Head(s)) \/ p \in TargetsOf(Tail(s))
  <2>1. PICK i \in DOMAIN s : p = TargetPath(s[i])
    BY DEF TargetsOf
  <2>2. CASE i = 1
    BY <2>1, <2>2, HeadTail
  <2>3. CASE i # 1
    <3>1. i - 1 \in DOMAIN Tail(s) /\ Tail(s)[i - 1] = s[i]
      BY <2>3, HeadTail
    <3> QED
      BY <2>1, <3>1 DEF TargetsOf
  <2> QED
    BY <2>2, <2>3
<1>2. \A i \in DOMAIN Tail(s) : TargetPath(Tail(s)[i]) \in TargetsOf(s)
  BY HeadTail DEF TargetsOf
<1>3. TargetPath(Head(s)) \in TargetsOf(s)
  BY HeadTail DEF TargetsOf
<1> QED
  BY <1>1, <1>2, <1>3 DEF TargetsOf

Elements(s) == {s[i] : i \in DOMAIN s}

LEMMA ConcatElements ==
  ASSUME NEW S, NEW s \in Seq(S), NEW t \in Seq(S)
  PROVE  s \o t \in Seq(S) /\ Elements(s \o t) = Elements(s) \cup Elements(t)
<1>1. /\ s \o t \in Seq(S) /\ Len(s \o t) = Len(s) + Len(t)
      /\ \A i \in 1..Len(s) + Len(t) :
           (s \o t)[i] = IF i <= Len(s) THEN s[i] ELSE t[i - Len(s)]
  BY ConcatProperties
<1>2. /\ DOMAIN s = 1..Len(s) /\ DOMAIN t = 1..Len(t) /\ DOMAIN (s \o t) = 1..Len(s) + Len(t)
      /\ Len(s) \in Nat /\ Len(t) \in Nat
  BY <1>1, LenProperties
<1>3. \A i \in DOMAIN s : i \in DOMAIN (s \o t) /\ (s \o t)[i] = s[i]
  BY <1>1, <1>2
<1>4. ASSUME NEW j \in DOMAIN t
      PROVE  j + Len(s) \in DOMAIN (s \o t) /\ (s \o t)[j + Len(s)] = t[j]
  <2>1. j + Len(s) \in 1..Len(s) + Len(t) /\ ~(j + Len(s) <= Len(s)) /\ (j + Len(s)) - Len(s) = j
    BY <1>2
  <2> QED
    BY <1>1, <1>2, <2>1
<1>5. \A i \in DOMAIN (s \o t) : i \in DOMAIN s \/ (i - Len(s) \in DOMAIN t
                                                   /\ (s \o t)[i] = t[i - Len(s)])
  BY <1>1, <1>2
<1>6. Elements(s \o t) \subseteq Elements(s) \cup Elements(t)
  BY <1>3, <1>5 DEF Elements
<1>7. Elements(s) \subseteq Elements(s \o t) /\ Elements(t) \subseteq Elements(s \o t)
  BY <1>3, <1>4 DEF Elements
<1> QED
  BY <1>1, <1>6, <1>7

(* The notify backend reports a change by the events that it sends, but for
   the paths whose events a renaming may replace. *)
Reported(new, events, lost) ==
  /\ new \in [Path -> Nat] /\ events \in Seq(AnyEvent)
  /\ \A p \in Path \ lost :
       /\ \A e \in Elements(events) : e.path = p => Plain(e)
       /\ new[p] # fs[p] /\ Watched(p) => \E e \in Elements(events) : e.path = p
  /\ \A e \in Elements(events) : Watched(e.path)

LEMMA TellFacts ==
  ASSUME NEW p \in Path, NEW kind \in {"Create", "To", "Remove", "From", "Modify"}
  PROVE  /\ Tell(p, kind) \in Seq(AnyEvent)
         /\ \A e \in Elements(Tell(p, kind)) : e.path = p /\ Plain(e) /\ Watched(p)
         /\ Watched(p) => \E e \in Elements(Tell(p, kind)) : e.path = p
<1>1. CASE ~Watched(p)
  BY <1>1 DEF Tell, Elements
<1>2. CASE Watched(p)
  <2>1. \E k \in {"Created", "Modified", "Deleted"} : Tell(p, kind) = <<Event(k, p)>>
    BY <1>2 DEF Tell, Mapped, Notice
  <2>2. PICK k \in {"Created", "Modified", "Deleted"} : Tell(p, kind) = <<Event(k, p)>>
    BY <2>1
  <2>3. Event(k, p) \in AnyEvent /\ Plain(Event(k, p)) /\ Event(k, p).path = p
    BY EventFacts
  <2>4. Elements(<<Event(k, p)>>) = {Event(k, p)}
    BY DEF Elements
  <2> QED
    BY <1>2, <2>2, <2>3, <2>4
<1> QED
  BY <1>1, <1>2

LEMMA RenameReported ==
  ASSUME Typed, NEW p \in Path, NEW q \in Path, p # q, fs[p] # 0
  PROVE  Reported([fs EXCEPT ![p] = 0, ![q] = fs[p]], TellRename(p, q),
                  IF Watched(p) /\ Watched(q) THEN {q} ELSE {})
<1> DEFINE new == [fs EXCEPT ![p] = 0, ![q] = fs[p]]
           a == Tell(p, "From")
           b == Tell(q, "To")
           c == IF Watched(p) /\ Watched(q) THEN Mapped(Notice("Both", <<p, q>>)) ELSE <<>>
           lost == IF Watched(p) /\ Watched(q) THEN {q} ELSE {}
<1>1. new \in [Path -> Nat] /\ \A x \in Path : new[x] # fs[x] => x = p \/ x = q
  BY DEF Typed, FilesTyped
<1>2. /\ a \in Seq(AnyEvent) /\ (\A e \in Elements(a) : e.path = p /\ Plain(e) /\ Watched(p))
      /\ Watched(p) => \E e \in Elements(a) : e.path = p
  BY TellFacts
<1>3. /\ b \in Seq(AnyEvent) /\ (\A e \in Elements(b) : e.path = q /\ Plain(e) /\ Watched(q))
      /\ Watched(q) => \E e \in Elements(b) : e.path = q
  BY TellFacts
<1>4. /\ c \in Seq(AnyEvent)
      /\ \A e \in Elements(c) : e.path = q /\ Watched(p) /\ Watched(q)
  <2>1. CASE Watched(p) /\ Watched(q)
    <3>1. c = <<Renamed(p, q)>>
      BY <2>1 DEF Mapped, Notice
    <3>2. Elements(<<Renamed(p, q)>>) = {Renamed(p, q)}
      BY DEF Elements
    <3>3. Renamed(p, q) \in AnyEvent /\ Renamed(p, q).path = q
      BY EventFacts
    <3> HIDE DEF c
    <3> QED
      BY <2>1, <3>1, <3>2, <3>3
  <2>2. CASE ~(Watched(p) /\ Watched(q))
    BY <2>2 DEF Elements
  <2> QED
    BY <2>1, <2>2
<1>5. TellRename(p, q) = (a \o b) \o c
  BY DEF TellRename
<1> HIDE DEF a, b, c, new
<1>6. /\ (a \o b) \o c \in Seq(AnyEvent)
      /\ Elements((a \o b) \o c) = Elements(a) \cup Elements(b) \cup Elements(c)
  <2>1. a \o b \in Seq(AnyEvent) /\ Elements(a \o b) = Elements(a) \cup Elements(b)
    BY <1>2, <1>3, ConcatElements
  <2>2. c \in Seq(AnyEvent)
    BY <1>4
  <2> DEFINE d == a \o b
  <2> HIDE DEF d
  <2>3. d \in Seq(AnyEvent) /\ Elements(d) = Elements(a) \cup Elements(b)
    BY <2>1 DEF d
  <2>4. d \o c \in Seq(AnyEvent) /\ Elements(d \o c) = Elements(d) \cup Elements(c)
    BY <2>2, <2>3, ConcatElements
  <2> QED
    BY <2>3, <2>4 DEF d
<1>7. Reported(new, (a \o b) \o c, lost)
  BY <1>1, <1>2, <1>3, <1>4, <1>6 DEF Reported
<1> QED
  BY <1>5, <1>7 DEF new

LEMMA ChangeReported ==
  ASSUME Typed, NEW p \in Changing[backend], NEW q \in Changing[backend],
         Write(p) \/ Delete(p) \/ Rename(p, q)
  PROVE  \E new, events, lost : Change(new, events, lost) /\ Reported(new, events, lost)
<1>0. p \in Path /\ q \in Path
  BY WatcherAssumption DEF Typed, FilesTyped
<1>1. CASE Write(p)
  <2> DEFINE kind == IF fs[p] = 0 THEN "Create" ELSE "Modify"
             new == [fs EXCEPT ![p] = clock + 1]
  <2>0. clock + 1 \in Nat /\ kind \in {"Create", "To", "Remove", "From", "Modify"}
    BY DEF Typed, FilesTyped
  <2>1. new \in [Path -> Nat] /\ \A x \in Path : new[x] # fs[x] => x = p
    BY <2>0 DEF Typed, FilesTyped
  <2>2. Change(new, Tell(p, kind), {})
    BY <1>1 DEF Write
  <2> HIDE DEF new, kind
  <2>3. /\ Tell(p, kind) \in Seq(AnyEvent)
        /\ \A e \in Elements(Tell(p, kind)) : e.path = p /\ Plain(e) /\ Watched(p)
        /\ Watched(p) => \E e \in Elements(Tell(p, kind)) : e.path = p
    BY <1>0, <2>0, TellFacts
  <2>4. Reported(new, Tell(p, kind), {})
    BY <2>1, <2>3 DEF Reported
  <2> QED
    BY <2>2, <2>4
<1>2. CASE Delete(p)
  <2> DEFINE new == [fs EXCEPT ![p] = 0]
  <2>1. new \in [Path -> Nat] /\ \A x \in Path : new[x] # fs[x] => x = p
    BY DEF Typed, FilesTyped
  <2>2. Change(new, Tell(p, "Remove"), {})
    BY <1>2 DEF Delete
  <2> HIDE DEF new
  <2>3. /\ Tell(p, "Remove") \in Seq(AnyEvent)
        /\ \A e \in Elements(Tell(p, "Remove")) : e.path = p /\ Plain(e) /\ Watched(p)
        /\ Watched(p) => \E e \in Elements(Tell(p, "Remove")) : e.path = p
    BY <1>0, TellFacts
  <2>4. Reported(new, Tell(p, "Remove"), {})
    BY <2>1, <2>3 DEF Reported
  <2> QED
    BY <2>2, <2>4
<1>3. CASE Rename(p, q)
  BY <1>0, <1>3, RenameReported DEF Rename
<1> QED
  BY <1>1, <1>2, <1>3
-----------------------------------------------------------------------------
(* What is on the way to a path stays so while the channel grows. *)

Extends(s, t, added) ==
  /\ DOMAIN s \subseteq DOMAIN t /\ \A i \in DOMAIN s : t[i] = s[i]
  /\ \A i \in DOMAIN t : i \in DOMAIN s \/ t[i] \in added
  /\ \A e \in added : \E i \in DOMAIN t \ DOMAIN s : t[i] = e

LEMMA ConcatExtends ==
  ASSUME NEW S, NEW s \in Seq(S), NEW u \in Seq(S)
  PROVE  Extends(s, s \o u, Elements(u))
<1>1. /\ s \o u \in Seq(S) /\ Len(s \o u) = Len(s) + Len(u)
      /\ \A i \in 1..Len(s) + Len(u) :
           (s \o u)[i] = IF i <= Len(s) THEN s[i] ELSE u[i - Len(s)]
  BY ConcatProperties
<1>2. /\ DOMAIN s = 1..Len(s) /\ DOMAIN u = 1..Len(u) /\ DOMAIN (s \o u) = 1..Len(s) + Len(u)
      /\ Len(s) \in Nat /\ Len(u) \in Nat
  BY <1>1, LenProperties
<1>3. \A i \in DOMAIN s : i \in DOMAIN (s \o u) /\ (s \o u)[i] = s[i]
  BY <1>1, <1>2
<1>4. ASSUME NEW j \in DOMAIN u
      PROVE  j + Len(s) \in DOMAIN (s \o u) \ DOMAIN s /\ (s \o u)[j + Len(s)] = u[j]
  <2>1. /\ j + Len(s) \in 1..Len(s) + Len(u) /\ ~(j + Len(s) <= Len(s))
        /\ (j + Len(s)) - Len(s) = j /\ j + Len(s) \notin 1..Len(s)
    BY <1>2
  <2> QED
    BY <1>1, <1>2, <2>1
<1>5. \A i \in DOMAIN (s \o u) : i \in DOMAIN s \/ (i - Len(s) \in DOMAIN u
                                                   /\ (s \o u)[i] = u[i - Len(s)])
  BY <1>1, <1>2
<1>6. \A i \in DOMAIN (s \o u) : i \in DOMAIN s \/ (s \o u)[i] \in Elements(u)
  BY <1>5 DEF Elements
<1>7. \A e \in Elements(u) : \E i \in DOMAIN (s \o u) \ DOMAIN s : (s \o u)[i] = e
  BY <1>4 DEF Elements
<1> QED
  BY <1>3, <1>6, <1>7 DEF Extends

LEMMA AppendExtends ==
  ASSUME NEW S, NEW s \in Seq(S), NEW e \in S
  PROVE  Append(s, e) \in Seq(S) /\ Extends(s, Append(s, e), {e})
<1>1. /\ Append(s, e) \in Seq(S) /\ Append(s, e)[Len(s) + 1] = e
      /\ DOMAIN s = 1..Len(s) /\ Len(s) \in Nat /\ DOMAIN Append(s, e) = 1..Len(s) + 1
      /\ \A i \in 1..Len(s) : Append(s, e)[i] = s[i]
  OBVIOUS
<1> QED
  BY <1>1 DEF Extends

LEMMA ChanExtended ==
  ASSUME Typed, NEW p, NEW added, Extends(chan, chan', added), chan' \in Seq(AnyEvent),
         pending' = pending, \A e \in added : e.path = p => Plain(e)
  PROVE  /\ InChan(p) => InChan(p)'
         /\ InPending(p) => InPending(p)'
         /\ (\E e \in added : e.path = p) => InChan(p)'
<1>1. /\ \A i, k \in DOMAIN chan' : k \in DOMAIN chan /\ i <= k => i \in DOMAIN chan
      /\ DOMAIN chan \subseteq DOMAIN chan' /\ \A i \in DOMAIN chan : chan'[i] = chan[i]
  BY DEF Extends, Typed, EventsTyped
<1>2. \A i \in DOMAIN chan' : i \notin DOMAIN chan /\ chan'[i].path = p => Plain(chan'[i])
  BY DEF Extends
<1>3. InChan(p) => InChan(p)'
  BY <1>1, <1>2 DEF InChan, Plain
<1>4. InPending(p) => InPending(p)'
  BY <1>1, <1>2 DEF InPending, AllPlain, Plain
<1>5. ASSUME NEW e \in added, e.path = p
      PROVE  InChan(p)'
  <2>1. PICK i \in DOMAIN chan' \ DOMAIN chan : chan'[i] = e
    BY DEF Extends
  <2>2. \A k \in DOMAIN chan' : i <= k => k \notin DOMAIN chan
    BY <1>1, <2>1
  <2> QED
    BY <1>2, <1>5, <2>1, <2>2 DEF InChan, Plain
<1> QED
  BY <1>3, <1>4, <1>5
-----------------------------------------------------------------------------
(* Changes of files. *)

LEMMA TypedChange ==
  ASSUME Typed, NEW new, NEW events, NEW lost, Change(new, events, lost),
         Reported(new, events, lost)
  PROVE  Typed'
<1>1. chan' \in Seq(AnyEvent) /\ clock' \in Nat
  <2>1. chan \o events \in Seq(AnyEvent)
    BY ConcatProperties DEF Typed, EventsTyped, Reported
  <2> QED
    BY <2>1 DEF Change, Typed, EventsTyped, FilesTyped
<1>2. FilesTyped'
  BY <1>1 DEF Change, Reported, Typed, FilesTyped, trackVars, scanVars
<1>3. EventsTyped'
  BY <1>1 DEF Change, Typed, EventsTyped, frontVars
<1>4. AssetsTyped'
  BY DEF Change, Owe, Typed, FilesTyped, AssetsTyped, assetVars
<1> QED
  BY <1>2, <1>3, <1>4 DEF Typed

LEMMA SureChange ==
  ASSUME Inv, NEW new, NEW events, NEW lost, Change(new, events, lost),
         Reported(new, events, lost)
  PROVE  OwedIsSure'
<1>1. /\ UNCHANGED <<backend, dirs, files, closed, batch, pending, pc, work, doomed, caches>>
      /\ fs' = new /\ chan' = IF backend = "notify" THEN chan \o events ELSE chan
  BY DEF Change, trackVars, frontVars, assetVars
<1>2. /\ owed' = owed \cup {<<p, fs[p]>> : p \in {q \in Path :
                   /\ fs[q] \in caches[q] /\ fs[q] # new[q] /\ Watched(q)
                   /\ backend = "polling" => files[q] # 0}}
      /\ excused' = excused \cup {x \in owed' :
           IF backend = "polling" THEN new[x[1]] = files[x[1]] ELSE x[1] \in lost}
  BY DEF Change, Owe
<1> SUFFICES ASSUME NEW x \in owed', x \notin excused'
             PROVE  Sure(x)'
  BY DEF OwedIsSure
<1>3. x[1] \in Path /\ (x \in owed \/ (fs[x[1]] # new[x[1]] /\ Watched(x[1])))
  <2>1. CASE x \in owed
    <3>1. owed \subseteq Path \X Nat
      BY DEF Inv, Typed, AssetsTyped
    <3>2. x \in Path \X Nat
      BY <2>1, <3>1
    <3>3. x[1] \in Path
      BY <3>2
    <3> QED
      BY <2>1, <3>3
  <2>2. CASE x \notin owed
    <3>1. PICK p \in Path : x = <<p, fs[p]>> /\ fs[p] # new[p] /\ Watched(p)
      BY <1>2, <2>2
    <3>2. x[1] = p
      BY <3>1
    <3> QED
      BY <3>1, <3>2
  <2> QED
    BY <2>1, <2>2
<1>4. (Watched(x[1]) <=> Watched(x[1])') /\ (InWork(x[1]) <=> InWork(x[1])')
  BY <1>1 DEF Watched, InWork, TargetsOf
<1>5. CASE backend = "polling"
  <2>1. new[x[1]] # files[x[1]] /\ chan' = chan
    BY <1>1, <1>2, <1>5
  <2>2. CASE x \in owed
    <3>1. Sure(x)
      BY <1>2, <2>2 DEF Inv, OwedIsSure
    <3> QED
      BY <1>1, <1>4, <2>1, <3>1
         DEF Sure, SureEvent, ScanWillFind, BeingDropped, InChan, InPending, AllPlain, Target
  <2>3. CASE fs[x[1]] # new[x[1]] /\ Watched(x[1])
    BY <1>1, <1>4, <1>5, <2>1, <2>3 DEF Sure, ScanWillFind
  <2> QED
    BY <1>3, <2>2, <2>3
<1>6. CASE backend # "polling"
  <2>1. backend = "notify" /\ x[1] \notin lost
    BY <1>2, <1>6, WatcherAssumption DEF Inv, Typed, FilesTyped
  <2>2. /\ \A e \in Elements(events) : e.path = x[1] => Plain(e)
        /\ new[x[1]] # fs[x[1]] /\ Watched(x[1]) => \E e \in Elements(events) : e.path = x[1]
        /\ events \in Seq(AnyEvent) /\ chan \in Seq(AnyEvent) /\ Typed
    BY <1>3, <2>1 DEF Reported, Inv, Typed, EventsTyped
  <2>3. chan' \in Seq(AnyEvent) /\ Extends(chan, chan', Elements(events))
    BY <1>1, <2>1, <2>2, ConcatProperties, ConcatExtends
  <2>4. /\ InChan(x[1]) => InChan(x[1])'
        /\ InPending(x[1]) => InPending(x[1])'
        /\ (\E e \in Elements(events) : e.path = x[1]) => InChan(x[1])'
    BY <1>1, <2>2, <2>3, ChanExtended
  <2>5. CASE x \in owed
    <3>1. Sure(x)
      BY <1>2, <2>5 DEF Inv, OwedIsSure
    <3> QED
      BY <1>1, <1>4, <1>6, <2>4, <3>1 DEF Sure, SureEvent, ScanWillFind, BeingDropped, Target
  <2>6. CASE fs[x[1]] # new[x[1]] /\ Watched(x[1])
    BY <2>2, <2>4, <2>6 DEF Sure, SureEvent
  <2> QED
    BY <1>3, <2>5, <2>6
<1> QED
  BY <1>5, <1>6
-----------------------------------------------------------------------------
(* The other steps. *)

LEMMA TypedScans ==
  ASSUME Typed, NEW p, NEW d,
         Read(p) \/ ScanBegin \/ ScanEnd \/ (d \in Dir /\ WatchBegin(d)) \/ WatchEnd
  PROVE  Typed'
<1>0. /\ d \in Dir => Under[d] \subseteq Path
      /\ UNION {Under[c] : c \in dirs} \subseteq Path
  BY WatcherAssumption DEF Typed, FilesTyped
<1>1. \A e \in Differences : e \in AnyEvent /\ Plain(e)
  <2> SUFFICES ASSUME NEW e \in Differences
               PROVE  e \in AnyEvent /\ Plain(e)
    OBVIOUS
  <2>1. PICK q \in Path, kind \in {"Created", "Modified", "Deleted"} : e = Event(kind, q)
    BY DEF Differences
  <2> QED
    BY <2>1, EventFacts
<1>2. FilesTyped'
  <2> USE DEF Typed, FilesTyped, fileVars, trackVars
  <2>1. CASE Read(p)
    BY <2>1 DEF Read
  <2>2. CASE ScanBegin
    BY <1>0, <2>2 DEF ScanBegin, BeginScan, Nobody
  <2>3. CASE ScanEnd
    BY <2>3 DEF ScanEnd, Nobody
  <2>4. CASE d \in Dir /\ WatchBegin(d)
    BY <1>0, <2>4 DEF WatchBegin, BeginScan, Nobody
  <2>5. CASE WatchEnd
    BY <2>5 DEF WatchEnd, Nobody
  <2> QED
    BY <2>1, <2>2, <2>3, <2>4, <2>5
<1>3. EventsTyped'
  <2>1. batch' = batch \/ batch' = Differences
    BY DEF Read, ScanBegin, ScanEnd, WatchBegin, WatchEnd
  <2>2. UNCHANGED <<chan, pending, work, due, pc>>
    BY DEF Read, ScanBegin, ScanEnd, WatchBegin, WatchEnd, frontVars
  <2> QED
    BY <1>1, <2>1, <2>2 DEF Typed, EventsTyped
<1>4. AssetsTyped'
  BY DEF Typed, AssetsTyped, Read, ScanBegin, ScanEnd, WatchBegin, WatchEnd, assetVars,
     historyVars
<1> QED
  BY <1>2, <1>3, <1>4 DEF Typed

LEMMA TypedCalls ==
  ASSUME Typed, NEW p, NEW d,
         \/ Send \/ (d \in Dir /\ WatchNotify(d)) \/ Unwatch(d) \/ Close \/ Elapse
         \/ (p \in Path /\ ImportBegin(p)) \/ ImportEnd \/ UNCHANGED vars
  PROVE  Typed'
<1> USE DEF fileVars, scanVars, trackVars, frontVars, frontRest, assetVars, historyVars
<1>1. FilesTyped'
  <2>1. CASE Unwatch(d)
    <3>1. files' \in [Path -> Nat]
      BY <2>1 DEF Unwatch, Typed, FilesTyped
    <3> QED
      BY <2>1, <3>1 DEF Unwatch, Typed, FilesTyped
  <2>2. CASE Close \/ (d \in Dir /\ WatchNotify(d))
    BY <2>2 DEF Close, WatchNotify, Typed, FilesTyped
  <2>3. CASE Send \/ Elapse \/ ImportBegin(p) \/ ImportEnd \/ UNCHANGED vars
    BY <2>3 DEF Typed, FilesTyped, Send, Elapse, ImportBegin, ImportEnd, vars
  <2> QED
    BY <2>1, <2>2, <2>3
<1>2. EventsTyped'
  <2>1. CASE Send
    <3>1. PICK e \in batch : batch' = batch \ {e} /\ chan' = Append(chan, e)
      BY <2>1 DEF Send
    <3>2. Append(chan, e) \in Seq(AnyEvent)
      BY DEF Typed, EventsTyped
    <3> QED
      BY <2>1, <3>1, <3>2 DEF Send, Typed, EventsTyped
  <2>2. CASE ~Send
    BY <2>2 DEF Typed, EventsTyped, WatchNotify, Unwatch, Close, Elapse, ImportBegin, ImportEnd,
       vars
  <2> QED
    BY <2>1, <2>2
<1>3. AssetsTyped'
  <2>1. CASE p \in Path /\ ImportBegin(p)
    BY <2>1 DEF ImportBegin, Typed, AssetsTyped, FilesTyped
  <2>2. CASE ImportEnd
    <3>1. PICK x \in importing :
            /\ caches' = [caches EXCEPT ![x[1]] = @ \cup {x[2]}]
            /\ owed' = owed \ {x} /\ importing' = {}
      BY <2>2 DEF ImportEnd
    <3>2. x[1] \in Path /\ x[2] \in Nat
      BY DEF Typed, AssetsTyped
    <3>3. caches' \in [Path -> SUBSET Nat] /\ \A q \in Path : caches[q] \subseteq caches'[q]
      BY <3>1, <3>2 DEF Typed, AssetsTyped
    <3> QED
      BY <3>1, <3>3 DEF Typed, AssetsTyped
  <2>3. CASE ~(p \in Path /\ ImportBegin(p)) /\ ~ImportEnd
    BY <2>3 DEF Typed, AssetsTyped, Send, WatchNotify, Unwatch, Close, Elapse, vars
  <2> QED
    BY <2>1, <2>2, <2>3
<1> QED
  BY <1>1, <1>2, <1>3 DEF Typed

LEMMA TypedConsumer ==
  ASSUME Typed, Consumer
  PROVE  Typed'
<1> USE DEF Consumer, fileVars, scanVars, trackVars, frontRest, handleRest, assetVars,
        historyVars
<1>1. FilesTyped'
  BY DEF Typed, FilesTyped, PopReady, PushRaw, TryNone, RecvClosed, DrainPending, LookUp,
     Invalidate, HandleFails
<1>2. \/ PopReady \/ PushRaw \/ DrainPending \/ LookUp \/ (\E v \in Version : Invalidate(v))
      \/ ((TryNone \/ RecvClosed \/ HandleFails) /\ pc' = "idle")
  BY DEF TryNone, RecvClosed, HandleFails
<1>3. EventsTyped'
  <2>1. CASE PopReady
    <3>1. pending # <<>> /\ pending \in Seq(AnyEvent) /\ due \in Nat /\ due > 0
          /\ due <= Len(pending)
      BY <2>1 DEF PopReady, Typed, EventsTyped
    <3>2. /\ Head(pending) \in AnyEvent /\ Tail(pending) \in Seq(AnyEvent)
          /\ Len(Tail(pending)) = Len(pending) - 1 /\ Len(pending) \in Nat
      BY <3>1, HeadTail
    <3>3. <<Head(pending)>> \in Seq(AnyEvent) /\ <<Head(pending)>> # <<>>
      BY <3>2
    <3> QED
      BY <2>1, <3>1, <3>2, <3>3 DEF PopReady, Typed, EventsTyped
  <2>2. CASE PushRaw
    <3>1. chan # <<>> /\ chan \in Seq(AnyEvent)
      BY <2>2 DEF PushRaw, Typed, EventsTyped
    <3>2. Head(chan) \in AnyEvent /\ Tail(chan) \in Seq(AnyEvent)
      BY <3>1, HeadTail
    <3>3. /\ pending' \in Seq(AnyEvent) /\ due' \in Nat /\ due' <= Len(pending')
      BY <2>2, <3>2, PushFacts DEF PushRaw, Typed, EventsTyped
    <3> QED
      BY <2>2, <3>2, <3>3 DEF PushRaw, Typed, EventsTyped
  <2>3. CASE DrainPending
    <3>1. <<>> \in Seq(AnyEvent) /\ Len(<<>>) = 0
      OBVIOUS
    <3> QED
      BY <2>3, <3>1 DEF DrainPending, Typed, EventsTyped
  <2>4. CASE LookUp \/ \E v \in Version : Invalidate(v)
    <3>1. /\ work # <<>> /\ UNCHANGED <<batch, chan, pending, due>>
          /\ pc' \in {"idle", "handle", "invalidate"}
      BY <2>4 DEF LookUp, Invalidate, NextEvent, Typed, EventsTyped
    <3>2. \/ work' = work
          \/ work' = Tail(work) /\ pc' = IF Tail(work) = <<>> THEN "idle" ELSE "handle"
      BY <2>4 DEF LookUp, Invalidate, NextEvent
    <3>3. Tail(work) \in Seq(AnyEvent)
      BY <3>1, HeadTail DEF Typed, EventsTyped
    <3> QED
      BY <3>1, <3>2, <3>3 DEF Typed, EventsTyped
  <2>5. CASE (TryNone \/ RecvClosed \/ HandleFails) /\ pc' = "idle"
    <3>1. <<>> \in Seq(AnyEvent) /\ Len(<<>>) = 0
      OBVIOUS
    <3>2. UNCHANGED <<batch, chan, due>> /\ pending' \in {pending, <<>>} /\ work' \in {work, <<>>}
          /\ (pending' = pending \/ due = 0)
      BY <2>5 DEF TryNone, RecvClosed, HandleFails
    <3>3. pending' \in Seq(AnyEvent) /\ work' \in Seq(AnyEvent)
      BY <3>1, <3>2 DEF Typed, EventsTyped
    <3>4. due' <= Len(pending')
      <4>1. CASE pending' = pending
        BY <3>2, <4>1 DEF Typed, EventsTyped
      <4>2. CASE pending' = <<>> /\ due = 0
        BY <3>1, <3>2, <4>2
      <4> QED
        BY <3>2, <4>1, <4>2
    <3> QED
      BY <2>5, <3>2, <3>3, <3>4 DEF Typed, EventsTyped
  <2> QED
    BY <1>2, <2>1, <2>2, <2>3, <2>4, <2>5
<1>4. AssetsTyped'
  <2>1. CASE \E v \in Version : Invalidate(v)
    <3>1. PICK v : caches' = [caches EXCEPT ![Target] = @ \ {v}] /\ owed' = owed \ {<<Target, v>>}
      BY <2>1 DEF Invalidate
    <3>2. importing' = importing /\ Target \in Path
      BY <2>1, HeadTail, EventFacts DEF Invalidate, Typed, EventsTyped, Target
    <3>3. caches' \in [Path -> SUBSET Nat]
      BY <3>1, <3>2 DEF Typed, AssetsTyped
    <3>4. ASSUME NEW x \in owed'
          PROVE  x[2] \in caches'[x[1]]
      <4>1. x[1] \in Path /\ x[2] \in caches[x[1]] /\ x = <<x[1], x[2]>> /\ x # <<Target, v>>
        BY <3>1 DEF Typed, AssetsTyped
      <4> QED
        BY <3>1, <3>2, <4>1 DEF Typed, AssetsTyped
    <3> QED
      BY <3>1, <3>2, <3>3, <3>4 DEF Typed, AssetsTyped
  <2>2. CASE ~\E v \in Version : Invalidate(v)
    BY <2>2 DEF Typed, AssetsTyped, PopReady, PushRaw, TryNone, RecvClosed, DrainPending, LookUp,
       HandleFails
  <2> QED
    BY <2>1, <2>2
<1> QED
  BY <1>1, <1>3, <1>4 DEF Typed

LEMMA ScanningStep ==
  ASSUME Typed, Scanning, [Next]_vars
  PROVE  Scanning'
<1> USE DEF Typed, FilesTyped
<1>0. \A c \in Dir : Under[c] \subseteq Path
  BY WatcherAssumption
<1>1. CASE \E p \in Path : Read(p)
  BY <1>1 DEF Read, Scanning, InDirs, trackVars
<1>2. CASE ScanBegin
  <2>1. /\ holder' = "scanner" /\ todo' = UNION {Under[d] : d \in dirs} /\ fresh' = Nobody
        /\ batch = {} /\ ~closed /\ UNCHANGED <<dirs, files, watching, batch, closed>>
    BY <1>2 DEF ScanBegin, BeginScan, trackVars
  <2>2. \A p \in Path : p \in todo' \/ fresh'[p] # 0 => InDirs(p)
    BY <2>1 DEF InDirs, Nobody
  <2> QED
    BY <2>1, <2>2 DEF Scanning, InDirs
<1>3. CASE ScanEnd
  <2>1. /\ holder = "scanner" /\ holder' = "none" /\ todo = {} /\ batch' = Differences
        /\ files' = fresh /\ UNCHANGED <<dirs, closed>>
    BY <1>3 DEF ScanEnd
  <2>2. \A e, f \in Differences : e.path = f.path => e = f
    BY DEF Differences, Event
  <2> QED
    BY <2>1, <2>2 DEF Scanning, InDirs
<1>4. CASE Send
  BY <1>4 DEF Send, Scanning, InDirs, trackVars, scanVars
<1>5. CASE \E d \in Dir : WatchBegin(d)
  <2>1. PICK d \in Dir : WatchBegin(d)
    BY <1>5
  <2>2. /\ holder' = "watch" /\ todo' = Under[d] /\ fresh' = Nobody /\ watching' = {d}
        /\ UNCHANGED <<dirs, files, batch, closed>>
    BY <2>1 DEF WatchBegin, BeginScan, trackVars
  <2>3. \A p \in Path : p \in todo' \/ fresh'[p] # 0 => \E c \in watching' : p \in Under[c]
    BY <2>2 DEF Nobody
  <2> QED
    BY <2>2, <2>3 DEF Scanning, InDirs
<1>6. CASE WatchEnd
  <2>1. /\ holder = "watch" /\ holder' = "none" /\ dirs' = dirs \cup watching
        /\ files' = [p \in Path |-> IF fresh[p] # 0 THEN fresh[p] ELSE files[p]]
        /\ UNCHANGED <<batch, closed>>
    BY <1>6 DEF WatchEnd
  <2>2. \A p \in Path : files'[p] # 0 => \E d \in dirs' : p \in Under[d]
    BY <2>1 DEF Scanning, InDirs
  <2> QED
    BY <2>1, <2>2 DEF Scanning, InDirs
<1>7. CASE \E d \in Dir : Unwatch(d)
  <2>1. PICK d \in Dir : Unwatch(d)
    BY <1>7
  <2>2. /\ holder = "none" /\ dirs' = dirs \ {d} /\ UNCHANGED <<batch, closed, holder>>
        /\ files' = [p \in Path |-> IF p \in Under[d] THEN 0 ELSE files[p]]
    BY <2>1 DEF Unwatch, scanVars
  <2>3. \A p \in Path : files'[p] # 0 => \E c \in dirs' : p \in Under[c]
    BY <2>2 DEF Scanning, InDirs
  <2> QED
    BY <2>2, <2>3 DEF Scanning, InDirs
<1>8. CASE (\E d \in Dir : WatchNotify(d)) \/ Close
  BY <1>8 DEF WatchNotify, Close, Scanning, InDirs, trackVars, scanVars
<1>9. CASE UNCHANGED <<dirs, files, holder, watching, todo, fresh, batch, closed>>
  BY <1>9 DEF Scanning, InDirs
<1>10. CASE Elapse \/ Consumer \/ UNCHANGED vars
  BY <1>9, <1>10 DEF vars, trackVars, scanVars, Elapse, Consumer, PopReady, PushRaw, TryNone,
     RecvClosed, DrainPending, LookUp, HandleFails, Invalidate, frontRest, handleRest
<1>11. CASE \/ \E p \in Changing[backend] : Write(p) \/ Delete(p) \/ ImportBegin(p)
            \/ \E p, q \in Changing[backend] : Rename(p, q)
            \/ ImportEnd
  BY <1>9, <1>11 DEF trackVars, scanVars, Write, Delete, Rename, Change, ImportBegin, ImportEnd
<1> QED
  BY <1>1, <1>2, <1>3, <1>4, <1>5, <1>6, <1>7, <1>8, <1>10, <1>11 DEF Next, Scanner

LEMMA SureScans ==
  ASSUME Inv, NEW p, NEW d,
         \/ Read(p) \/ ScanBegin \/ ScanEnd \/ WatchBegin(d) \/ WatchEnd
         \/ WatchNotify(d) \/ Unwatch(d) \/ Close \/ Elapse
  PROVE  OwedIsSure'
<1>1. UNCHANGED <<chan, pending, pc, work, doomed, owed, fs, backend>> /\ excused \subseteq excused'
  BY DEF Read, ScanBegin, ScanEnd, WatchBegin, WatchEnd, WatchNotify, Unwatch, Close, Elapse,
     frontVars, frontRest, historyVars, fileVars
<1> SUFFICES ASSUME NEW x \in owed', x \notin excused'
             PROVE  Sure(x)'
  BY DEF OwedIsSure
<1> DEFINE q == x[1]
<1>2. x \in owed /\ q \in Path /\ Sure(x) /\ Typed /\ Scanning
  <2>1. x \in owed /\ x \in Path \X Nat
    BY <1>1 DEF Inv, Typed, AssetsTyped
  <2> QED
    BY <1>1, <2>1 DEF Inv, OwedIsSure
<1>3. ASSUME (\E e \in batch : e.path = q) => \E e \in batch' : e.path = q,
             ScanWillFind(q) => Sure(x)'
      PROVE  Sure(x)'
  BY <1>1, <1>2, <1>3
     DEF Sure, SureEvent, BeingDropped, InChan, InPending, AllPlain, InWork, TargetsOf, Target
<1>4. CASE Read(p) \/ ScanBegin \/ WatchBegin(d) \/ WatchNotify(d) \/ Elapse
  <2>1. UNCHANGED <<batch, files, closed>> /\ dirs \subseteq dirs'
    BY <1>4 DEF Read, ScanBegin, WatchBegin, WatchNotify, Elapse, trackVars, frontRest
  <2> QED
    BY <1>1, <1>3, <2>1 DEF Sure, ScanWillFind, Watched
<1>5. CASE ScanEnd
  <2>1. files' = fresh /\ batch' = Differences /\ UNCHANGED <<dirs, closed>> /\ batch = {}
    BY <1>2, <1>5 DEF ScanEnd, Scanning
  <2>2. CASE fresh[q] = files[q]
    BY <1>1, <1>3, <2>1, <2>2 DEF Sure, ScanWillFind, Watched
  <2>3. CASE fresh[q] # files[q]
    <3>1. \E e \in Differences : \E kind : e = Event(kind, q)
      BY <1>2, <2>3 DEF Differences
    <3>2. \E e \in batch' : e.path = q
      BY <2>1, <3>1 DEF Event
    <3> QED
      BY <3>2 DEF Sure, SureEvent
  <2> QED
    BY <2>2, <2>3
<1>6. CASE WatchEnd
  <2>1. /\ files' = [r \in Path |-> IF fresh[r] # 0 THEN fresh[r] ELSE files[r]]
        /\ dirs' = dirs \cup watching /\ UNCHANGED <<batch, closed>>
        /\ excused' = excused \cup OwedAt({r \in Path : files'[r] # files[r]})
    BY <1>6 DEF WatchEnd
  <2>2. files'[q] = files[q]
    BY <1>2, <2>1 DEF OwedAt
  <2> QED
    BY <1>1, <1>3, <2>1, <2>2 DEF Sure, ScanWillFind, Watched
<1>7. CASE Unwatch(d)
  <2>1. /\ files' = [r \in Path |-> IF r \in Under[d] THEN 0 ELSE files[r]]
        /\ dirs' = dirs \ {d} /\ UNCHANGED <<batch, closed>>
        /\ excused' = excused \cup OwedAt(Under[d])
    BY <1>7 DEF Unwatch
  <2>2. q \notin Under[d]
    BY <1>2, <2>1 DEF OwedAt
  <2>3. files'[q] = files[q] /\ (Watched(q) => Watched(q)')
    BY <1>2, <2>1, <2>2 DEF Watched
  <2> QED
    BY <1>1, <1>3, <2>1, <2>3 DEF Sure, ScanWillFind
<1>8. CASE Close
  <2>1. /\ excused' = excused \cup OwedAt({r \in Path : backend = "polling" /\ fs[r] # files[r]})
        /\ batch = {}
    BY <1>8 DEF Close
  <2>2. ~ScanWillFind(q)
    BY <1>2, <2>1 DEF OwedAt, ScanWillFind
  <2> QED
    BY <1>3, <2>1, <2>2
<1> QED
  BY <1>4, <1>5, <1>6, <1>7, <1>8

LEMMA SureSends ==
  ASSUME Inv, NEW p, Send \/ ImportBegin(p) \/ ImportEnd \/ UNCHANGED vars
  PROVE  OwedIsSure'
<1> USE DEF vars, fileVars, trackVars, scanVars, frontVars, assetVars, historyVars
<1>1. /\ UNCHANGED <<pending, pc, work, fs, backend, dirs, files, closed, doomed>>
      /\ owed' \ excused' \subseteq owed \ excused
  <2>1. owed' \ excused' \subseteq owed \ excused
    BY DEF Send, ImportBegin, ImportEnd
  <2> QED
    BY <2>1 DEF Send, ImportBegin, ImportEnd
<1> SUFFICES ASSUME NEW x \in owed' \ excused'
             PROVE  Sure(x)'
  BY DEF OwedIsSure
<1> DEFINE q == x[1]
<1>2. Sure(x) /\ Typed
  BY <1>1 DEF Inv, OwedIsSure
<1>3. CASE chan' = chan /\ batch' = batch
  BY <1>1, <1>2, <1>3
     DEF Sure, SureEvent, BeingDropped, InChan, InPending, AllPlain, InWork, TargetsOf, Target,
         ScanWillFind, Watched
<1>4. CASE Send
  <2>1. PICK e \in batch : batch' = batch \ {e} /\ chan' = Append(chan, e)
    BY <1>4 DEF Send
  <2>2. chan' \in Seq(AnyEvent) /\ Extends(chan, chan', {e}) /\ Plain(e)
    BY <1>2, <2>1, AppendExtends DEF Typed, EventsTyped
  <2> DEFINE added == {e}
  <2>3. Extends(chan, chan', added) /\ \A f \in added : f.path = q => Plain(f)
    BY <2>2
  <2> HIDE DEF added
  <2>4. /\ InChan(q) => InChan(q)'
        /\ InPending(q) => InPending(q)'
        /\ (\E f \in added : f.path = q) => InChan(q)'
    BY <1>1, <1>2, <2>2, <2>3, ChanExtended
  <2>5. /\ InChan(q) => InChan(q)'
        /\ InPending(q) => InPending(q)'
        /\ e.path = q => InChan(q)'
    BY <2>4 DEF added
  <2>6. InWork(q) => InWork(q)'
    BY <1>1 DEF InWork, TargetsOf
  <2> QED
    BY <1>1, <1>2, <2>1, <2>5, <2>6
       DEF Sure, SureEvent, BeingDropped, Target, ScanWillFind, Watched
<1> QED
  BY <1>3, <1>4 DEF ImportBegin, ImportEnd

\* An event goes from the channel to the debouncer.
LEMMA SurePush ==
  ASSUME Inv, PushRaw, NEW p \in Path, InChan(p) \/ InPending(p)
  PROVE  InChan(p)' \/ InPending(p)'
<1>1. /\ chan \in Seq(AnyEvent) /\ chan # <<>> /\ pending \in Seq(AnyEvent)
      /\ due \in Nat /\ due <= Len(pending)
      /\ chan' = Tail(chan) /\ pending' = Push(pending, Head(chan))
  BY DEF PushRaw, Inv, Typed, EventsTyped
<1> DEFINE e == Head(chan)
<1>2. e = chan[1] /\ e \in AnyEvent /\ 1 \in DOMAIN chan
  BY <1>1, HeadTail
<1>3. /\ \A i \in DOMAIN chan' : i \in Nat /\ i + 1 \in DOMAIN chan /\ chan'[i] = chan[i + 1]
      /\ \A i \in DOMAIN chan : i \in Nat /\ (i # 1 => i - 1 \in DOMAIN chan')
  BY <1>1, HeadTail
<1> HIDE DEF e
<1>4. /\ \E i \in DOMAIN pending' : pending'[i] = e
      /\ \A j \in DOMAIN pending : pending[j].path # e.path =>
           \E i \in DOMAIN pending' : pending'[i] = pending[j]
  <2>1. Push(pending, Head(chan)) = Push(pending, e)
    BY DEF e
  <2>2. /\ \E i \in DOMAIN Push(pending, e) : Push(pending, e)[i] = e
        /\ \A j \in DOMAIN pending : pending[j].path # e.path =>
             \E i \in DOMAIN Push(pending, e) : Push(pending, e)[i] = pending[j]
    BY <1>1, <1>2, PushFacts
  <2> QED
    BY <1>1, <2>1, <2>2
<1>5. CASE InPending(p)
  <2>1. AllPlain(chan, p)'
    BY <1>3, <1>5 DEF InPending, AllPlain
  <2>2. CASE e.path = p
    BY <1>2, <1>4, <1>5, <2>1, <2>2 DEF InPending, AllPlain
  <2>3. CASE e.path # p
    BY <1>4, <1>5, <2>1, <2>3 DEF InPending
  <2> QED
    BY <2>2, <2>3
<1>6. CASE InChan(p)
  <2>1. PICK i \in DOMAIN chan :
          /\ chan[i].path = p
          /\ \A k \in DOMAIN chan : i <= k /\ chan[k].path = p => Plain(chan[k])
    BY <1>6 DEF InChan
  <2>2. CASE i = 1
    <3>1. AllPlain(chan, p)'
      BY <1>3, <2>1, <2>2 DEF AllPlain
    <3>2. e.path = p /\ Plain(e)
      BY <1>2, <2>1, <2>2
    <3> QED
      BY <1>4, <3>1, <3>2 DEF InPending
  <2>3. CASE i # 1
    <3>1. i - 1 \in DOMAIN chan' /\ chan'[i - 1] = chan[i]
      BY <1>3, <2>3
    <3>2. \A k \in DOMAIN chan' : i - 1 <= k /\ chan'[k].path = p => Plain(chan'[k])
      BY <1>3, <2>1
    <3> QED
      BY <2>1, <3>1, <3>2 DEF InChan
  <2> QED
    BY <2>2, <2>3
<1> QED
  BY <1>5, <1>6

LEMMA SureFront ==
  ASSUME Inv, PopReady \/ PushRaw \/ TryNone \/ RecvClosed \/ DrainPending
  PROVE  OwedIsSure'
<1>1. /\ UNCHANGED <<fs, backend, dirs, files, closed, doomed, batch, owed>>
      /\ excused \subseteq excused' /\ pc \notin {"handle", "invalidate"}
  BY DEF PopReady, PushRaw, TryNone, RecvClosed, DrainPending, InRecv, InTry, frontRest, fileVars,
     trackVars
<1> SUFFICES ASSUME NEW x \in owed', x \notin excused'
             PROVE  Sure(x)'
  BY DEF OwedIsSure
<1> DEFINE p == x[1]
<1>2. x \in owed /\ p \in Path /\ Sure(x) /\ Typed
  <2>1. x \in owed /\ x \in Path \X Nat
    BY <1>1 DEF Inv, Typed, AssetsTyped
  <2> QED
    BY <1>1, <2>1 DEF Inv, OwedIsSure
<1>3. /\ chan \in Seq(AnyEvent) /\ pending \in Seq(AnyEvent) /\ DOMAIN pending = 1..Len(pending)
      /\ due \in Nat /\ due <= Len(pending)
      /\ \A i \in DOMAIN pending : Plain(pending[i]) => TargetPath(pending[i]) = pending[i].path
  BY <1>2, EventFacts DEF Typed, EventsTyped
<1> SUFFICES ASSUME InChan(p) \/ InPending(p)
             PROVE  SureEvent(p)'
  BY <1>1, <1>2 DEF Sure, SureEvent, InWork, BeingDropped, ScanWillFind, Watched
<1>4. InPending(p) => p \in TargetsOf(pending)
  BY <1>3 DEF InPending, TargetsOf
<1>5. CASE PushRaw
  BY <1>2, <1>5, SurePush DEF SureEvent
<1>6. CASE TryNone
  BY <1>6 DEF TryNone, SureEvent, InChan, InPending, AllPlain
<1>7. CASE RecvClosed
  <2>1. chan = <<>> /\ excused' = excused \cup OwedAt(TargetsOf(pending))
    BY <1>7 DEF RecvClosed
  <2>2. ~InChan(p)
    BY <2>1 DEF InChan
  <2> QED
    BY <1>2, <1>4, <2>1, <2>2 DEF OwedAt
<1>8. CASE DrainPending
  <2>1. chan' = chan /\ pc' = "handle" /\ work' = pending
    BY <1>8 DEF DrainPending
  <2> QED
    BY <1>4, <2>1 DEF SureEvent, InChan, InWork, TargetsOf
<1>9. CASE PopReady
  <2>1. /\ pending # <<>> /\ chan' = chan /\ pc' = "handle" /\ work' = <<Head(pending)>>
        /\ pending' = Tail(pending)
    BY <1>3, <1>9 DEF PopReady
  <2>2. ASSUME InPending(p)
        PROVE  InPending(p)' \/ InWork(p)'
    <3>1. PICK i \in DOMAIN pending : pending[i].path = p /\ Plain(pending[i])
      BY <2>2 DEF InPending
    <3>2. CASE i = 1
      <4>1. TargetPath(Head(pending)) = p
        BY <1>3, <2>1, <3>1, <3>2, HeadTail
      <4>2. p \in TargetsOf(work')
        BY <2>1, <4>1 DEF TargetsOf
      <4> QED
        BY <2>1, <4>2 DEF InWork, TargetsOf
    <3>3. CASE i # 1
      <4>1. i - 1 \in DOMAIN pending' /\ pending'[i - 1] = pending[i]
        BY <1>3, <2>1, <3>3, HeadTail
      <4> QED
        BY <2>1, <2>2, <3>1, <4>1 DEF InPending, AllPlain
    <3> QED
      BY <3>2, <3>3
  <2> QED
    BY <2>1, <2>2 DEF SureEvent, InChan
<1> QED
  BY <1>5, <1>6, <1>7, <1>8, <1>9

LEMMA SureHandle ==
  ASSUME Inv, LookUp \/ HandleFails \/ \E v \in Version : Invalidate(v)
  PROVE  OwedIsSure'
<1>1. /\ UNCHANGED <<fs, backend, dirs, files, closed, batch, chan, pending>>
      /\ excused \subseteq excused' /\ owed' \subseteq owed
  BY DEF LookUp, HandleFails, Invalidate, handleRest, historyVars, fileVars, trackVars
<1> SUFFICES ASSUME NEW x \in owed', x \notin excused'
             PROVE  Sure(x)'
  BY DEF OwedIsSure
<1> DEFINE p == x[1]
<1>2. x \in owed /\ p \in Path /\ x = <<p, x[2]>> /\ x[2] \in caches[p] /\ Sure(x) /\ Typed
  <2>1. x \in owed /\ x \in Path \X Nat
    BY <1>1 DEF Inv, Typed, AssetsTyped
  <2> QED
    BY <1>1, <2>1 DEF Inv, OwedIsSure, Typed, AssetsTyped
<1>3. /\ work \in Seq(AnyEvent) /\ work # <<>>
      /\ TargetsOf(work) = {Target} \cup TargetsOf(Tail(work))
      /\ Tail(work) = <<>> => TargetsOf(Tail(work)) = {}
  <2>1. work \in Seq(AnyEvent) /\ work # <<>>
    BY <1>2 DEF LookUp, HandleFails, Invalidate, Typed, EventsTyped
  <2>2. TargetsOf(work) = {Target} \cup TargetsOf(Tail(work))
    BY <2>1, Targets DEF Target
  <2>3. TargetsOf(<<>>) = {}
    BY DEF TargetsOf
  <2> QED
    BY <2>1, <2>2, <2>3
<1> SUFFICES ASSUME InWork(p) \/ BeingDropped(p, x[2])
             PROVE  InWork(p)' \/ BeingDropped(p, x[2])'
  BY <1>1, <1>2 DEF Sure, SureEvent, ScanWillFind, Watched, InChan, InPending, AllPlain
<1>4. ASSUME NextEvent, p \in TargetsOf(Tail(work))
      PROVE  InWork(p)'
  BY <1>3, <1>4 DEF NextEvent, InWork, TargetsOf
<1>5. CASE LookUp
  <2>1. /\ pc = "handle" /\ doomed' = caches[Target]
        /\ \/ doomed' = {} /\ NextEvent
           \/ pc' = "invalidate" /\ work' = work
    BY <1>5 DEF LookUp
  <2>2. p \in TargetsOf(work)
    BY <2>1 DEF InWork, BeingDropped
  <2>3. CASE p = Target
    BY <1>2, <2>1, <2>3 DEF BeingDropped, Target
  <2>4. CASE p \in TargetsOf(Tail(work))
    BY <1>4, <2>1, <2>4 DEF InWork, TargetsOf
  <2> QED
    BY <1>3, <2>2, <2>3, <2>4
<1>6. CASE HandleFails
  <2>1. p \in TargetsOf(work)
    BY <1>3, <1>6 DEF HandleFails, InWork, BeingDropped
  <2> QED
    BY <1>2, <1>6, <2>1 DEF HandleFails, OwedAt
<1>7. CASE \E v \in Version : Invalidate(v)
  <2>1. PICK v \in Version : Invalidate(v)
    BY <1>7
  <2>2. /\ pc = "invalidate" /\ doomed' = doomed \ {v} /\ owed' = owed \ {<<Target, v>>}
        /\ \/ doomed' = {} /\ NextEvent
           \/ doomed' # {} /\ UNCHANGED <<pc, work>>
    BY <2>1 DEF Invalidate
  <2>3. CASE BeingDropped(p, x[2])
    <3>1. Target = p /\ x[2] \in doomed /\ x[2] # v
      BY <1>2, <2>2, <2>3 DEF BeingDropped
    <3> QED
      BY <2>2, <3>1 DEF BeingDropped, Target
  <2>4. CASE p \in TargetsOf(Tail(work))
    BY <1>4, <2>2, <2>4 DEF InWork, TargetsOf
  <2> QED
    BY <2>2, <2>3, <2>4 DEF InWork
<1> QED
  BY <1>5, <1>6, <1>7

LEMMA InvStep ==
  ASSUME Inv, [Next]_vars
  PROVE  Inv'
<1> USE DEF Inv
<1>1. Scanning'
  BY ScanningStep
<1>2. CASE \/ \E p \in Changing[backend] : Write(p) \/ Delete(p)
           \/ \E p, q \in Changing[backend] : Rename(p, q)
  <2>1. \E new, events, lost : Change(new, events, lost) /\ Reported(new, events, lost)
    BY <1>2, ChangeReported
  <2> QED
    BY <1>1, <2>1, TypedChange, SureChange
<1>3. \A p \in Changing[backend] : p \in Path
  BY WatcherAssumption DEF Typed, FilesTyped
<1>4. CASE \/ \E p \in Path : Read(p)
           \/ ScanBegin \/ ScanEnd \/ WatchEnd \/ \E d \in Dir : WatchBegin(d)
  BY <1>1, <1>4, TypedScans, SureScans
<1>5. CASE Close \/ Elapse \/ \E d \in Dir : WatchNotify(d) \/ Unwatch(d)
  BY <1>1, <1>5, TypedCalls, SureScans
<1>6. CASE Send \/ ImportEnd \/ UNCHANGED vars \/ \E p \in Changing[backend] : ImportBegin(p)
  BY <1>1, <1>3, <1>6, TypedCalls, SureSends
<1>7. CASE Consumer
  BY <1>1, <1>7, TypedConsumer, SureFront, SureHandle DEF Consumer
<1> QED
  BY <1>2, <1>4, <1>5, <1>6, <1>7 DEF Next, Scanner

LEMMA InvInit == Init => Inv
<1> SUFFICES ASSUME Init
             PROVE  Inv
  OBVIOUS
<1>1. fs \in [Path -> Nat]
  BY DEF Init
<1>2. FilesTyped
  BY <1>1 DEF Init, FilesTyped, Nobody
<1>3. EventsTyped
  <2>1. <<>> \in Seq(AnyEvent) /\ Len(<<>>) = 0
    OBVIOUS
  <2> QED
    BY <2>1 DEF Init, EventsTyped
<1>4. AssetsTyped /\ Scanning /\ OwedIsSure
  BY DEF Init, AssetsTyped, Scanning, OwedIsSure, Nobody
<1> QED
  BY <1>2, <1>3, <1>4 DEF Inv, Typed

(* When a watched file changes, what leads to the end of its caches is on the
   way until they are gone, in whatever order scans, renamings, events, calls
   of watch and unwatch, failing reads and imports come. *)
THEOREM ChangesAreOnTheWay == Spec => []StaleIsOnTheWay
<1>1. Inv => StaleIsOnTheWay
  <2> SUFFICES ASSUME Inv, NEW x \in owed \ excused
               PROVE  \/ EventOnTheWay(x[1]) \/ ScanWillFind(x[1]) \/ BeingDropped(x[1], x[2])
    BY DEF StaleIsOnTheWay
  <2>1. Sure(x) /\ Typed
    BY DEF Inv, OwedIsSure
  <2>2. ASSUME NEW e \in batch
        PROVE  TargetPath(e) = e.path
    BY <2>1, EventFacts DEF Typed, EventsTyped
  <2>3. InPending(x[1]) => x[1] \in TargetsOf(pending)
    <3>1. \A i \in DOMAIN pending : pending[i] \in AnyEvent
      BY <2>1 DEF Typed, EventsTyped
    <3> QED
      BY <3>1, EventFacts DEF InPending, TargetsOf
  <2>4. InChan(x[1]) => x[1] \in TargetsOf(chan)
    <3>1. \A i \in DOMAIN chan : chan[i] \in AnyEvent /\ i <= i
      BY <2>1 DEF Typed, EventsTyped
    <3>2. InChan(x[1]) => \E i \in DOMAIN chan : chan[i].path = x[1] /\ Plain(chan[i])
      BY <3>1 DEF InChan
    <3> QED
      BY <3>1, <3>2, EventFacts DEF TargetsOf
  <2> QED
    BY <2>1, <2>2, <2>3, <2>4 DEF Sure, SureEvent, EventOnTheWay
<1>2. Inv /\ [Next]_vars => Inv'
  BY InvStep
<1> QED
  BY <1>1, <1>2, InvInit, PTL DEF Spec
-----------------------------------------------------------------------------
(* Paths that are not watched. *)

InBatch(p) == {e \in batch : e.path = p}
InChannel(p) == {i \in DOMAIN chan : chan[i].path = p}

LEMMA FlightFinite ==
  ASSUME Typed, Scanning, NEW p
  PROVE  /\ IsFiniteSet(InBatch(p)) /\ Cardinality(InBatch(p)) \in Nat
         /\ \A e \in batch : e.path = p => InBatch(p) = {e} /\ Cardinality(InBatch(p)) = 1
         /\ IsFiniteSet(InChannel(p)) /\ Cardinality(InChannel(p)) \in Nat
         /\ InFlight(p) = Cardinality(InBatch(p)) + Cardinality(InChannel(p))
         /\ InFlight(p) \in Nat
<1>1. IsFiniteSet(InBatch(p))
  <2>1. InBatch(p) = {} \/ \E e : InBatch(p) = {e}
    BY DEF InBatch, Scanning
  <2>2. ASSUME NEW e, InBatch(p) = {e}
        PROVE  IsFiniteSet(InBatch(p))
    BY <2>2, FS_Singleton
  <2> QED
    BY <2>1, <2>2, FS_EmptySet
<1>2. \A e \in batch : e.path = p => InBatch(p) = {e} /\ Cardinality(InBatch(p)) = 1
  <2>1. \A e \in batch : e.path = p => InBatch(p) = {e}
    BY DEF InBatch, Scanning
  <2> QED
    BY <2>1, FS_Singleton
<1>3. IsFiniteSet(InChannel(p))
  <2>1. InChannel(p) \subseteq 1..Len(chan) /\ Len(chan) \in Int
    BY DEF InChannel, Typed, EventsTyped
  <2>2. IsFiniteSet(1..Len(chan))
    BY <2>1, FS_Interval
  <2> QED
    BY <2>1, <2>2, FS_Subset
<1>4. Cardinality(InBatch(p)) \in Nat /\ Cardinality(InChannel(p)) \in Nat
  BY <1>1, <1>3, FS_CardinalityType
<1>5. InFlight(p) = Cardinality(InBatch(p)) + Cardinality(InChannel(p))
  BY DEF InFlight, InBatch, InChannel
<1> QED
  BY <1>1, <1>2, <1>3, <1>4, <1>5

LEMMA FlightNext ==
  ASSUME NEW p
  PROVE  InFlight(p)' = Cardinality(InBatch(p)') + Cardinality(InChannel(p)')
  BY DEF InFlight, InBatch, InChannel

LEMMA QuietSend ==
  ASSUME Typed, Scanning, Send, NEW p
  PROVE  InFlight(p)' = InFlight(p)
<1>1. PICK e \in batch : batch' = batch \ {e} /\ chan' = Append(chan, e)
  BY DEF Send
<1>2. /\ DOMAIN chan = 1..Len(chan) /\ DOMAIN chan' = 1..Len(chan) + 1 /\ Len(chan) \in Nat
      /\ chan'[Len(chan) + 1] = e /\ \A i \in 1..Len(chan) : chan'[i] = chan[i]
  BY <1>1 DEF Typed, EventsTyped
<1>3. CASE e.path # p
  <2>1. InBatch(p)' = InBatch(p)
    BY <1>1, <1>3 DEF InBatch
  <2>2. InChannel(p)' = InChannel(p)
    BY <1>2, <1>3 DEF InChannel
  <2> QED
    BY <2>1, <2>2, FlightNext, FlightFinite
<1>4. CASE e.path = p
  <2>1. InBatch(p)' = {} /\ Cardinality(InBatch(p)) = 1
    <3>1. InBatch(p) = {e} /\ Cardinality(InBatch(p)) = 1
      BY <1>4, FlightFinite
    <3> QED
      BY <1>1, <3>1 DEF InBatch
  <2>2. InChannel(p)' = InChannel(p) \cup {Len(chan) + 1} /\ Len(chan) + 1 \notin InChannel(p)
    BY <1>2, <1>4 DEF InChannel
  <2>3. Cardinality(InChannel(p)') = Cardinality(InChannel(p)) + 1
    BY <2>2, FlightFinite, FS_AddElement
  <2>4. Cardinality(InBatch(p)') = 0 /\ Cardinality(InChannel(p)) \in Nat
    BY <2>1, FlightFinite, FS_EmptySet
  <2> QED
    BY <2>1, <2>3, <2>4, FlightNext, FlightFinite
<1> QED
  BY <1>3, <1>4

LEMMA QuietPush ==
  ASSUME Typed, Scanning, PushRaw, NEW p
  PROVE  InFlight(p)' <= InFlight(p)
<1>1. chan \in Seq(AnyEvent) /\ chan # <<>> /\ chan' = Tail(chan) /\ batch' = batch
  BY DEF PushRaw, frontRest, Typed, EventsTyped
<1>2. \A i \in DOMAIN chan' : i \in Nat /\ i + 1 \in DOMAIN chan /\ chan'[i] = chan[i + 1]
  BY <1>1, HeadTail
<1> DEFINE f == [i \in InChannel(p)' |-> i + 1]
<1>3. f \in Injection(InChannel(p)', InChannel(p))
  BY <1>2 DEF Injection, InChannel, IsInjective
<1>4. Cardinality(InChannel(p)') <= Cardinality(InChannel(p)) /\ IsFiniteSet(InChannel(p)')
  BY <1>3, FlightFinite, FS_Injection
<1>5. Cardinality(InChannel(p)') \in Nat /\ Cardinality(InChannel(p)) \in Nat
      /\ Cardinality(InBatch(p)) \in Nat /\ InBatch(p)' = InBatch(p)
  BY <1>1, <1>4, FlightFinite, FS_CardinalityType DEF InBatch
<1> QED
  BY <1>4, <1>5, FlightNext, FlightFinite

(* No step of the files, the scanner, the notify library or a caller adds an
   event of a path that no watched directory has, or that is unwatched again. *)
THEOREM UnwatchedStaysQuiet == Spec => UnwatchedIsQuiet
<1> DEFINE Quiet == \A p \in Path : ~Watched(p) => InFlight(p)' <= InFlight(p)
<1>1. ASSUME Inv, [Next]_vars
      PROVE  Quiet
  <2> SUFFICES ASSUME NEW p \in Path, ~Watched(p)
               PROVE  InFlight(p)' <= InFlight(p)
    OBVIOUS
  <2>1. Typed /\ Scanning
    BY <1>1 DEF Inv
  <2>2. ASSUME batch' = batch, InChannel(p)' = InChannel(p)
        PROVE  InFlight(p)' <= InFlight(p)
    <3>1. InBatch(p)' = InBatch(p)
      BY <2>2 DEF InBatch
    <3> QED
      BY <2>1, <2>2, <3>1, FlightNext, FlightFinite
  <2>3. CASE \/ \E q \in Changing[backend] : Write(q) \/ Delete(q)
             \/ \E q, r \in Changing[backend] : Rename(q, r)
    <3>1. PICK new, events, lost : Change(new, events, lost) /\ Reported(new, events, lost)
      BY <2>1, <2>3, ChangeReported
    <3>2. events \in Seq(AnyEvent) /\ \A e \in Elements(events) : e.path # p
      BY <3>1 DEF Reported
    <3>3. chan \in Seq(AnyEvent) /\ Extends(chan, chan \o events, Elements(events))
      BY <2>1, <3>2, ConcatExtends DEF Typed, EventsTyped
    <3>4. batch' = batch /\ (chan' = chan \/ chan' = chan \o events)
      BY <3>1 DEF Change
    <3>5. InChannel(p)' = InChannel(p)
      BY <3>2, <3>3, <3>4 DEF InChannel, Extends
    <3> QED
      BY <2>2, <3>4, <3>5
  <2>4. CASE ScanEnd
    <3>1. files[p] = 0 /\ fresh[p] = 0
      BY <2>1, <2>4 DEF ScanEnd, Scanning, InDirs, Watched
    <3>2. InBatch(p)' = {} /\ chan' = chan
      BY <2>4, <3>1 DEF ScanEnd, Differences, InBatch, Event
    <3>3. Cardinality(InBatch(p)') = 0
      BY <3>2, FS_EmptySet
    <3>4. InChannel(p)' = InChannel(p)
      BY <3>2 DEF InChannel
    <3>5. Cardinality(InBatch(p)) \in Nat /\ Cardinality(InChannel(p)) \in Nat
      BY <2>1, FlightFinite
    <3> QED
      BY <2>1, <3>3, <3>4, <3>5, FlightNext, FlightFinite
  <2>5. CASE Send
    BY <2>1, <2>5, QuietSend, FlightFinite
  <2>6. CASE PushRaw
    BY <2>1, <2>6, QuietPush
  <2>7. CASE UNCHANGED <<batch, chan>>
    BY <2>2, <2>7 DEF InChannel
  <2>8. CASE \/ \E q \in Path : Read(q)
             \/ ScanBegin \/ WatchEnd \/ Close \/ Elapse \/ ImportEnd \/ UNCHANGED vars
             \/ \E d \in Dir : WatchBegin(d) \/ WatchNotify(d) \/ Unwatch(d)
             \/ \E q \in Changing[backend] : ImportBegin(q)
    BY <2>7, <2>8 DEF Read, ScanBegin, WatchEnd, Close, Elapse, ImportEnd, WatchBegin, WatchNotify,
       Unwatch, ImportBegin, vars, frontRest
  <2>9. CASE \/ PopReady \/ TryNone \/ RecvClosed \/ DrainPending
             \/ LookUp \/ HandleFails \/ \E v \in Version : Invalidate(v)
    BY <2>7, <2>9 DEF PopReady, TryNone, RecvClosed, DrainPending, LookUp, HandleFails, Invalidate,
       frontRest, handleRest
  <2> QED
    BY <1>1, <2>3, <2>4, <2>5, <2>6, <2>8, <2>9 DEF Next, Scanner, Consumer
<1>2. Inv /\ [Next]_vars => Inv'
  BY InvStep
<1>3. Inv /\ [Next]_vars => [Quiet]_vars
  BY <1>1
<1> QED
  BY <1>2, <1>3, InvInit, PTL DEF Spec, UnwatchedIsQuiet
=============================================================================
