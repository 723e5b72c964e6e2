--------------------------- MODULE ArtifactsProofs ---------------------------
(***************************************************************************)
(* Theorems about the artifacts of an asset, for any jobs and profiles and *)
(* any number of runs, invalidations, failures and crashes.                *)
(***************************************************************************)
EXTENDS ArtifactsProperties, WellFoundedInduction, TLAPS

LEMMA FileFields ==
  ASSUME NEW file \in FileType
  PROVE  /\ file.head \in Profiles /\ file.sealed \in BOOLEAN
         /\ file.body \in [1..Parts -> Profiles]
  BY DEF FileType

LEMMA FileOf ==
  ASSUME NEW h \in Profiles, NEW s \in BOOLEAN, NEW b \in [1..Parts -> Profiles]
  PROVE  [head |-> h, sealed |-> s, body |-> b] \in FileType
  BY DEF FileType

LEMMA JobConstants ==
  ASSUME NEW j \in Job
  PROVE  /\ KindOf[j] \in Kind /\ ProfileOf[j] \in Nat \ {0} /\ ProfileOf[j] \in Profiles
         /\ 0 \in Profiles /\ Parts \in Nat
  BY ArtifactsAssumption DEF Profiles

LEMMA BlankFile ==
  ASSUME NEW p \in Profiles
  PROVE  /\ Blank(p) \in FileType /\ Blank(p).head = p /\ Blank(p).sealed = FALSE
         /\ \A n \in 1..Parts : Blank(p).body[n] = 0
<1>1. [n \in 1..Parts |-> 0] \in [1..Parts -> Profiles]
  BY DEF Profiles
<1> QED
  BY <1>1, FileOf DEF Blank

\* Setting one part, the header or the end of a file.
LEMMA WrittenFile ==
  ASSUME NEW f \in FileType, NEW n \in 1..Parts, NEW p \in Profiles
  PROVE  LET g == [f EXCEPT !.body[n] = p] IN
         /\ g \in FileType /\ g.head = f.head /\ g.sealed = f.sealed
         /\ \A m \in 1..Parts : g.body[m] = IF m = n THEN p ELSE f.body[m]
<1> DEFINE g == [f EXCEPT !.body[n] = p]
<1>1. /\ g = [head |-> f.head, sealed |-> f.sealed, body |-> [f.body EXCEPT ![n] = p]]
      /\ f.body \in [1..Parts -> Profiles]
  BY DEF FileType
<1> DEFINE b == [f.body EXCEPT ![n] = p]
<1>2. b \in [1..Parts -> Profiles]
  BY <1>1
<1>3. g \in FileType
  <2> HIDE DEF b
  <2>1. [head |-> f.head, sealed |-> f.sealed, body |-> b] \in FileType
    BY <1>2, FileFields, FileOf
  <2> QED
    BY <1>1, <2>1 DEF b
<1> QED
  BY <1>1, <1>3

LEMMA SealedFile ==
  ASSUME NEW f \in FileType
  PROVE  LET g == [f EXCEPT !.sealed = TRUE] IN
         g \in FileType /\ g.head = f.head /\ g.sealed = TRUE /\ g.body = f.body
  BY DEF FileType

LEMMA HeadedFile ==
  ASSUME NEW f \in FileType, NEW p \in Profiles
  PROVE  LET g == [f EXCEPT !.head = p] IN
         g \in FileType /\ g.head = p /\ g.sealed = f.sealed /\ g.body = f.body
  BY DEF FileType

LEMMA ImageSet ==
  ASSUME image \in Seq(FileType), NEW i \in 1..Len(image), NEW g \in FileType
  PROVE  LET s == [image EXCEPT ![i] = g] IN
         /\ s \in Seq(FileType) /\ Len(s) = Len(image)
         /\ \A n \in 1..Len(image) : s[n] = IF n = i THEN g ELSE image[n]
  OBVIOUS

LEMMA ImageAdd ==
  ASSUME image \in Seq(FileType), NEW g \in FileType
  PROVE  LET s == Append(image, g) IN
         /\ s \in Seq(FileType) /\ Len(s) = Len(image) + 1
         /\ \A n \in 1..Len(image) : s[n] = image[n]
         /\ s[Len(image) + 1] = g
  OBVIOUS

LEMMA LeastNumber ==
  ASSUME NEW S, S \subseteq Nat, S # {}
  PROVE  \E n \in S : \A m \in S : n <= m
<1> DEFINE R == OpToRel(<, Nat)
<1>1. IsWellFoundedOn(R, Nat)
  BY NatLessThanWellFounded
<1>2. \A a, b \in Nat : a < b => <<a, b>> \in R
  BY DEF OpToRel
<1> HIDE DEF R
<1>3. PICK n \in S : \A m \in S : ~ (<<m, n>> \in R)
  BY <1>1, WFMin
<1>4. \A m \in S : m \in Nat /\ n \in Nat
  OBVIOUS
<1>5. \A m \in S : ~ (m < n)
  BY <1>2, <1>3, <1>4
<1>6. \A m \in S : n <= m
  BY <1>4, <1>5
<1> QED
  BY <1>6

\* The parts of a file that are there from the first on can be counted.
LEMMA PresentIs ==
  ASSUME NEW file \in FileType
  PROVE  /\ Present(file) \in 0..Parts
         /\ \A m \in 1..Present(file) : file.body[m] # 0
         /\ Present(file) < Parts => file.body[Present(file) + 1] = 0
<1> DEFINE S == {m \in 0..Parts : m < Parts => file.body[m + 1] = 0}
<1>1. Parts \in Nat
  BY ArtifactsAssumption
<1>2. S \subseteq Nat /\ Parts \in S
  BY <1>1
<1>3. PICK n \in S : \A m \in S : n <= m
  <2> HIDE DEF S
  <2> QED
    BY <1>2, LeastNumber
<1>4. \A m \in 1..n : file.body[m] # 0
  <2> SUFFICES ASSUME NEW m \in 1..n, file.body[m] = 0
               PROVE  FALSE
    OBVIOUS
  <2>1. n \in 0..Parts /\ m - 1 \in 0..Parts /\ (m - 1) + 1 = m
    BY <1>1
  <2>2. m - 1 \in S
    BY <2>1
  <2> QED
    BY <1>3, <2>1, <2>2
<1> DEFINE Q(i) == /\ \A m \in 1..i : file.body[m] # 0
                   /\ i < Parts => file.body[i + 1] = 0
<1>5. n \in 0..Parts /\ Q(n)
  BY <1>4
<1>6. Present(file) = CHOOSE i \in 0..Parts : Q(i)
  BY DEF Present
<1>7. Present(file) \in 0..Parts /\ Q(Present(file))
  <2> HIDE DEF Q
  <2> QED
    BY <1>5, <1>6
<1> QED
  BY <1>7
-----------------------------------------------------------------------------
(* What the steps of a job do to the files: they have touched inode i, and  *)
(* no other.                                                               *)

Touched(i) ==
  /\ image' \in Seq(FileType) /\ Len(image') \in Nat /\ Len(image') >= Len(image)
  /\ i \in 1..Len(image')
  /\ \A n \in 1..Len(image) : n # i => image'[n] = image[n]

\* The inode at the path of a kind, and how it got there.
Named(k, i) ==
  /\ name' = [name EXCEPT ![k] = i]
  /\ \/ name[k] = 0 /\ i = Len(image) + 1
     \/ name[k] = i /\ i \in 1..Len(image)

LEMMA NameTyped ==
  ASSUME TypeOK, NEW k \in Kind
  PROVE  /\ name[k] \in Nat /\ (name[k] # 0 => name[k] \in 1..Len(image))
         /\ name = [name EXCEPT ![k] = name[k]]
         /\ image \in Seq(FileType) /\ Len(image) \in Nat
  BY DEF TypeOK, FilesTyped

LEMMA CreateOutputDoes ==
  ASSUME TypeOK, NEW j \in Job, CreateOutput(j)
  PROVE  /\ Named(KindOf[j], at'[j]) /\ Touched(at'[j])
         /\ image'[at'[j]] = Blank(ProfileOf[j])
<1> DEFINE k == KindOf[j]
           p == ProfileOf[j]
<1>1. k \in Kind /\ p \in Profiles /\ Blank(p) \in FileType
  BY JobConstants, BlankFile
<1>2. at'[j] = name'[k] /\ name \in [Kind -> 0..Len(image)]
  BY DEF CreateOutput, TypeOK, JobsTyped, FilesTyped
<1> HIDE DEF k, p
<1>3. image \in Seq(FileType) /\ Len(image) \in Nat
  BY <1>1, NameTyped
<1>4. CASE name[k] = 0
  <2>1. image' = Append(image, Blank(p)) /\ name' = [name EXCEPT ![k] = Len(image) + 1]
    BY <1>4 DEF CreateOutput, NewFile, k, p
  <2>2. at'[j] = Len(image) + 1
    BY <1>1, <1>2, <2>1
  <2>3. Named(k, at'[j])
    BY <1>4, <2>1, <2>2 DEF Named
  <2>4. Touched(at'[j]) /\ image'[at'[j]] = Blank(p)
    BY <1>1, <1>3, <2>1, <2>2, ImageAdd DEF Touched
  <2> QED
    BY <2>3, <2>4 DEF k, p
<1>5. CASE name[k] # 0
  <2>1. image' = [image EXCEPT ![name[k]] = Blank(p)] /\ name' = name
    BY <1>5 DEF CreateOutput, k, p
  <2>2. at'[j] = name[k] /\ name[k] \in 1..Len(image) /\ name = [name EXCEPT ![k] = name[k]]
    BY <1>1, <1>2, <1>5, <2>1, NameTyped
  <2>3. Named(k, at'[j])
    BY <2>1, <2>2 DEF Named
  <2>4. Touched(at'[j]) /\ image'[at'[j]] = Blank(p)
    BY <1>1, <1>3, <2>1, <2>2, ImageSet DEF Touched
  <2> QED
    BY <2>3, <2>4 DEF k, p
<1> QED
  BY <1>4, <1>5

LEMMA OpenCacheDoes ==
  ASSUME TypeOK, NEW j \in Job, OpenCache(j)
  PROVE  /\ Named(KindOf[j], at'[j]) /\ Touched(at'[j])
         /\ image'[at'[j]].head = ProfileOf[j]
         /\ name[KindOf[j]] = 0 => /\ image'[at'[j]] = Blank(ProfileOf[j])
                                  /\ part' = [part EXCEPT ![j] = 0]
         /\ name[KindOf[j]] # 0 =>
              /\ image'[at'[j]].sealed = image[at'[j]].sealed
              /\ image'[at'[j]].body = image[at'[j]].body
              /\ part' = [part EXCEPT ![j] = IF KindOf[j] = "waveform"
                                             THEN Present(image[at'[j]]) ELSE 0]
              /\ KindOf[j] = "waveform" => image[at'[j]].head = ProfileOf[j]
<1> DEFINE k == KindOf[j]
           p == ProfileOf[j]
<1>1. k \in Kind /\ p \in Profiles /\ Blank(p) \in FileType /\ Blank(p).head = p
  BY JobConstants, BlankFile
<1>2. at'[j] = name'[k] /\ name \in [Kind -> 0..Len(image)]
  BY DEF OpenCache, TypeOK, JobsTyped, FilesTyped
<1> HIDE DEF k, p
<1>3. image \in Seq(FileType) /\ Len(image) \in Nat
  BY <1>1, NameTyped
<1>4. CASE name[k] = 0
  <2>1. /\ image' = Append(image, Blank(p)) /\ name' = [name EXCEPT ![k] = Len(image) + 1]
        /\ part' = [part EXCEPT ![j] = 0]
    BY <1>4 DEF OpenCache, NewFile, k, p
  <2>2. at'[j] = Len(image) + 1
    BY <1>1, <1>2, <2>1
  <2>3. Named(k, at'[j])
    BY <1>4, <2>1, <2>2 DEF Named
  <2>4. Touched(at'[j]) /\ image'[at'[j]] = Blank(p)
    BY <1>1, <1>3, <2>1, <2>2, ImageAdd DEF Touched
  <2> QED
    BY <1>1, <1>4, <2>1, <2>3, <2>4 DEF k, p
<1>5. CASE name[k] # 0
  <2> DEFINE i == name[k]
             f == image[i]
             g == [f EXCEPT !.head = p]
  <2>1. image' = [image EXCEPT ![i].head = p] /\ name' = name
    BY <1>5 DEF OpenCache, k, p
  <2>2. at'[j] = i /\ i \in 1..Len(image) /\ name = [name EXCEPT ![k] = i]
    BY <1>1, <1>2, <1>5, <2>1, NameTyped
  <2>3. /\ part' = [part EXCEPT ![j] = IF KindOf[j] = "waveform" THEN Present(f) ELSE 0]
        /\ KindOf[j] = "waveform" => f.head = p
    BY <1>5 DEF OpenCache, k, p
  <2>4. f \in FileType
    BY <1>3, <2>2
  <2>5. image' = [image EXCEPT ![i] = g]
    BY <2>1
  <2>6. g \in FileType /\ g.head = p /\ g.sealed = f.sealed /\ g.body = f.body
    BY <1>1, <2>4, HeadedFile
  <2>7. Named(k, at'[j])
    BY <2>1, <2>2 DEF Named
  <2>8. Touched(at'[j]) /\ image'[at'[j]] = g
    <3> HIDE DEF g, i
    <3> QED
      BY <1>3, <2>2, <2>5, <2>6, ImageSet DEF Touched
  <2> HIDE DEF g
  <2> QED
    BY <1>5, <2>2, <2>3, <2>6, <2>7, <2>8 DEF k, p
<1> QED
  BY <1>4, <1>5

LEMMA WritePartDoes ==
  ASSUME TypeOK, NEW j \in Job, WritePart(j)
  PROVE  LET i == at[j] IN
         /\ i \in 1..Len(image) /\ Len(image') = Len(image) /\ Touched(i)
         /\ part[j] + 1 \in 1..Parts /\ part'[j] = part[j] + 1
         /\ image'[i].head = image[i].head /\ image'[i].sealed = image[i].sealed
         /\ \A m \in 1..Parts : image'[i].body[m] = IF m = part[j] + 1 THEN ProfileOf[j]
                                                   ELSE image[i].body[m]
<1> DEFINE i == at[j]
           n == part[j] + 1
           p == ProfileOf[j]
           f == image[i]
           g == [f EXCEPT !.body[n] = p]
<1>1. /\ image \in Seq(FileType) /\ Len(image) \in Nat /\ i \in 1..Len(image)
      /\ part \in [Job -> 0..Parts] /\ Parts \in Nat /\ pc[j] = "write"
  BY ArtifactsAssumption DEF WritePart, TypeOK, FilesTyped, JobsTyped
<1>2. n \in 1..Parts /\ part'[j] = n
  BY <1>1 DEF WritePart
<1>3. f \in FileType /\ p \in Profiles
  BY <1>1, JobConstants
<1>4. image' = [image EXCEPT ![i] = g]
  BY DEF WritePart
<1>5. /\ g \in FileType /\ g.head = f.head /\ g.sealed = f.sealed
      /\ \A m \in 1..Parts : g.body[m] = IF m = n THEN p ELSE f.body[m]
  <2> HIDE DEF f, n, p
  <2> QED
    BY <1>2, <1>3, WrittenFile
<1> HIDE DEF g, i
<1>6. Touched(i) /\ image'[i] = g /\ Len(image') = Len(image)
  BY <1>1, <1>4, <1>5, ImageSet DEF Touched
<1> QED
  BY <1>1, <1>2, <1>5, <1>6 DEF i

LEMMA FinishDoes ==
  ASSUME TypeOK, NEW j \in Job, Finish(j)
  PROVE  LET i == at[j] IN
         /\ i \in 1..Len(image) /\ Len(image') = Len(image) /\ Touched(i)
         /\ image'[i].head = image[i].head /\ image'[i].body = image[i].body
         /\ image'[i].sealed = TRUE
<1> DEFINE i == at[j]
           f == image[i]
           g == [f EXCEPT !.sealed = TRUE]
<1>1. /\ image \in Seq(FileType) /\ Len(image) \in Nat /\ i \in 1..Len(image)
  BY DEF Finish, Goto, TypeOK, FilesTyped, JobsTyped
<1>2. f \in FileType
  BY <1>1
<1>3. image' = [image EXCEPT ![i] = g]
  BY DEF Finish
<1>4. g \in FileType /\ g.head = f.head /\ g.sealed = TRUE /\ g.body = f.body
  BY <1>2, SealedFile
<1> HIDE DEF g, i
<1>5. Touched(i) /\ image'[i] = g /\ Len(image') = Len(image)
  BY <1>1, <1>3, <1>4, ImageSet DEF Touched
<1> QED
  BY <1>1, <1>4, <1>5 DEF i

LEMMA WriteThumbnailDoes ==
  ASSUME TypeOK, NEW j \in Job, WriteThumbnail(j)
  PROVE  LET i == at'[j]
             f == IF name["thumbnails"] = 0 THEN Blank(ProfileOf[j]) ELSE image[i] IN
         /\ Named("thumbnails", i) /\ Touched(i)
         /\ part[j] + 1 \in 1..Parts /\ part'[j] = part[j] + 1
         /\ image'[i].head = f.head /\ image'[i].sealed = f.sealed
         /\ \A m \in 1..Parts : image'[i].body[m] = IF m = part[j] + 1 THEN ProfileOf[j]
                                                   ELSE f.body[m]
<1> DEFINE k == "thumbnails"
           n == part[j] + 1
           p == ProfileOf[j]
<1>1. /\ image \in Seq(FileType) /\ Len(image) \in Nat /\ k \in Kind
      /\ name \in [Kind -> 0..Len(image)]
      /\ part \in [Job -> 0..Parts] /\ Parts \in Nat
  BY ArtifactsAssumption DEF Kind, TypeOK, FilesTyped, JobsTyped
<1>2. n \in 1..Parts /\ part'[j] = n /\ at'[j] = name'[k]
  BY <1>1 DEF WriteThumbnail, TypeOK, JobsTyped
<1>3. p \in Profiles /\ Blank(p) \in FileType
  BY JobConstants, BlankFile
<1>4. CASE name[k] = 0
  <2> DEFINE f == Blank(p)
             g == [f EXCEPT !.body[n] = p]
  <2>1. image' = Append(image, g) /\ name' = [name EXCEPT ![k] = Len(image) + 1]
    BY <1>4 DEF WriteThumbnail
  <2>2. /\ g \in FileType /\ g.head = f.head /\ g.sealed = f.sealed
        /\ \A m \in 1..Parts : g.body[m] = IF m = n THEN p ELSE f.body[m]
    <3> HIDE DEF f, n, p
    <3>1. f \in FileType
      BY <1>3 DEF f
    <3> QED
      BY <1>2, <1>3, <3>1, WrittenFile
  <2> HIDE DEF g
  <2>3. at'[j] = Len(image) + 1
    BY <1>1, <1>2, <2>1
  <2>4. Named(k, at'[j])
    BY <1>4, <2>1, <2>3 DEF Named
  <2>5. Touched(at'[j]) /\ image'[at'[j]] = g
    BY <1>1, <2>1, <2>2, <2>3, ImageAdd DEF Touched
  <2> QED
    BY <1>2, <1>4, <2>2, <2>4, <2>5
<1>5. CASE name[k] # 0
  <2> DEFINE i == name[k]
             f == image[i]
             g == [f EXCEPT !.body[n] = p]
  <2>1. image' = [image EXCEPT ![i] = g] /\ name' = name
    BY <1>5 DEF WriteThumbnail
  <2>2. i \in 1..Len(image) /\ f \in FileType /\ name = [name EXCEPT ![k] = i]
    BY <1>1, <1>5
  <2>3. /\ g \in FileType /\ g.head = f.head /\ g.sealed = f.sealed
        /\ \A m \in 1..Parts : g.body[m] = IF m = n THEN p ELSE f.body[m]
    <3> HIDE DEF f, n, p
    <3> QED
      BY <1>2, <1>3, <2>2, WrittenFile
  <2>4. at'[j] = i
    BY <1>2, <2>1
  <2>5. Named(k, at'[j])
    BY <2>1, <2>2, <2>4 DEF Named
  <2>6. Touched(at'[j]) /\ image'[at'[j]] = g
    <3> HIDE DEF g, i
    <3> QED
      BY <1>1, <2>1, <2>2, <2>3, <2>4, ImageSet DEF Touched
  <2> HIDE DEF g
  <2> QED
    BY <1>2, <1>5, <2>3, <2>4, <2>5, <2>6
<1> QED
  BY <1>4, <1>5
-----------------------------------------------------------------------------
(* Types. *)

Rest == rows \subseteq Kind /\ InvTyped /\ HistoryTyped
        /\ runs \in Nat /\ invs \in Nat /\ faults \in Nat /\ crashes \in Nat

LEMMA TypeParts == TypeOK <=> /\ Rest /\ JobsTyped
                             /\ image \in Seq(FileType) /\ name \in [Kind -> 0..Len(image)]
  BY DEF TypeOK, Rest, FilesTyped

LEMMA TypePartsNext == TypeOK' <=> /\ Rest' /\ JobsTyped'
                                  /\ image' \in Seq(FileType)
                                  /\ name' \in [Kind -> 0..Len(image')]
  BY DEF TypeOK, Rest, FilesTyped

\* A job's step that touches the inode it has open, or takes the one at the path.
LEMMA FilesStayTyped ==
  ASSUME TypeOK, NEW k \in Kind, NEW i \in Nat, Touched(i), Named(k, i) \/ UNCHANGED name
  PROVE  /\ image' \in Seq(FileType) /\ Len(image') \in Nat /\ i \in 1..Len(image')
         /\ name' \in [Kind -> 0..Len(image')]
<1>1. name \in [Kind -> 0..Len(image)] /\ Len(image) \in Nat
  BY DEF TypeOK, FilesTyped
<1>2. Len(image') \in Nat /\ Len(image) <= Len(image') /\ i \in 1..Len(image')
  BY DEF Touched
<1>3. 0..Len(image) \subseteq 0..Len(image') /\ i \in 0..Len(image')
  BY <1>1, <1>2
<1>4. name \in [Kind -> 0..Len(image')]
  BY <1>1, <1>3
<1> QED
  BY <1>2, <1>3, <1>4 DEF Touched, Named

LEMMA WorkTyped ==
  ASSUME TypeOK, NEW j \in Job, Work(j)
  PROVE  TypeOK'
<1>1. KindOf[j] \in Kind /\ Parts \in Nat
  BY JobConstants
<1>2. /\ image \in Seq(FileType) /\ Len(image) \in Nat /\ name \in [Kind -> 0..Len(image)]
      /\ at \in [Job -> 0..Len(image)] /\ part \in [Job -> 0..Parts]
  BY DEF TypeOK, FilesTyped, JobsTyped
<1>3. Rest'
  BY <1>1 DEF Work, Begin, OpenSource, CreateOutput, OpenCache, WritePart, WriteThumbnail,
     Finish, Record, RecordFails, Fail, RemovePartial, RemoveFails, Goto, Fault, TypeOK, Rest,
     FilesTyped, InvTyped, HistoryTyped, invVars, boundVars, historyVars
<1>4. CASE Begin(j) \/ OpenSource(j) \/ Record(j) \/ RecordFails(j) \/ Fail(j)
           \/ RemovePartial(j) \/ RemoveFails(j)
  <2>1. UNCHANGED <<image, at, part>>
    BY <1>4 DEF Begin, OpenSource, Record, RecordFails, Fail, RemovePartial, RemoveFails,
       fileVars
  <2>2. name' \in [Kind -> 0..Len(image)]
    BY <1>1, <1>2, <1>4 DEF Begin, OpenSource, Record, RecordFails, Fail, RemovePartial,
       RemoveFails, fileVars
  <2>3. JobsTyped'
    BY <1>4, <2>1 DEF Begin, OpenSource, Record, RecordFails, Fail, RemovePartial, RemoveFails,
       Goto, TypeOK, JobsTyped
  <2> QED
    BY <1>2, <1>3, <2>1, <2>2, <2>3, TypePartsNext
<1>5. CASE CreateOutput(j) \/ OpenCache(j)
  <2> DEFINE i == at'[j]
  <2>1. Named(KindOf[j], i) /\ Touched(i)
    BY <1>5, CreateOutputDoes, OpenCacheDoes
  <2>2. i \in Nat
    BY <2>1 DEF Touched
  <2>3. /\ image' \in Seq(FileType) /\ Len(image') \in Nat /\ i \in 1..Len(image')
        /\ name' \in [Kind -> 0..Len(image')]
    <3> HIDE DEF i
    <3> QED
      BY <1>1, <2>1, <2>2, FilesStayTyped
  <2>4. at' = [at EXCEPT ![j] = i] /\ Len(image) <= Len(image')
    BY <1>2, <1>5, <2>1 DEF CreateOutput, OpenCache, Touched
  <2>5. at' \in [Job -> 0..Len(image')] /\ \A l \in Job : at[l] # 0 => at'[l] # 0
    <3> HIDE DEF i
    <3>1. 0..Len(image) \subseteq 0..Len(image') /\ i \in 0..Len(image') /\ i # 0
      BY <1>2, <2>3, <2>4
    <3> QED
      BY <1>2, <2>4, <3>1
  <2>6. \E n \in 0..Parts : part' = [part EXCEPT ![j] = n]
    <3>1. CASE CreateOutput(j)
      <4>1. 0 \in 0..Parts /\ part' = [part EXCEPT ![j] = 0]
        BY <1>1, <3>1 DEF CreateOutput
      <4> QED
        BY <4>1
    <3>2. CASE OpenCache(j) /\ name[KindOf[j]] = 0
      BY <1>1, <3>2, OpenCacheDoes
    <3>3. CASE OpenCache(j) /\ name[KindOf[j]] # 0
      <4>1. i = name[KindOf[j]] /\ image[i] \in FileType
        BY <1>1, <1>2, <2>1, <3>3 DEF Named
      <4>2. Present(image[i]) \in 0..Parts
        <5> HIDE DEF i
        <5> QED
          BY <4>1, PresentIs
      <4> QED
        BY <1>1, <3>3, <4>2, OpenCacheDoes
    <3> QED
      BY <1>5, <3>1, <3>2, <3>3
  <2>7. part' \in [Job -> 0..Parts]
    BY <1>2, <2>6
  <2>8. pc' = [pc EXCEPT ![j] = "write"] /\ at'[j] # 0
    BY <1>5, <2>3 DEF CreateOutput, OpenCache, Goto
  <2>9. JobsTyped'
    BY <2>5, <2>7, <2>8 DEF TypeOK, JobsTyped
  <2> QED
    BY <1>3, <2>3, <2>9, TypePartsNext
<1>6. CASE WritePart(j) \/ Finish(j)
  <2> DEFINE i == at[j]
  <2>1. Touched(i) /\ i \in Nat /\ Len(image') = Len(image) /\ UNCHANGED <<name, at>>
    <3>1. i \in 1..Len(image) /\ Touched(i) /\ Len(image') = Len(image)
      BY <1>6, WritePartDoes, FinishDoes
    <3>2. UNCHANGED <<name, at>>
      BY <1>6 DEF WritePart, Finish
    <3> QED
      BY <1>2, <3>1, <3>2
  <2>2. image' \in Seq(FileType) /\ name' \in [Kind -> 0..Len(image')]
    <3> HIDE DEF i
    <3> QED
      BY <1>1, <2>1, FilesStayTyped
  <2>3. part' \in [Job -> 0..Parts]
    <3>1. CASE WritePart(j)
      <4>1. part[j] + 1 \in 0..Parts
        BY <1>1, <3>1, WritePartDoes
      <4>2. part' = [part EXCEPT ![j] = part[j] + 1]
        BY <3>1 DEF WritePart
      <4> QED
        BY <1>2, <4>1, <4>2
    <3>2. CASE Finish(j)
      BY <1>2, <3>2 DEF Finish
    <3> QED
      BY <1>6, <3>1, <3>2
  <2>4. JobsTyped'
    BY <1>6, <2>1, <2>3 DEF WritePart, Finish, Goto, TypeOK, JobsTyped
  <2> QED
    BY <1>3, <2>2, <2>4, TypePartsNext
<1>7. CASE WriteThumbnail(j)
  <2> DEFINE i == at'[j]
  <2>1. Named("thumbnails", i) /\ Touched(i) /\ part[j] + 1 \in 1..Parts
    BY <1>7, WriteThumbnailDoes
  <2>2. i \in Nat /\ "thumbnails" \in Kind
    BY <2>1 DEF Touched, Kind
  <2>3. /\ image' \in Seq(FileType) /\ Len(image') \in Nat /\ i \in 1..Len(image')
        /\ name' \in [Kind -> 0..Len(image')]
    <3> HIDE DEF i
    <3> QED
      BY <2>1, <2>2, FilesStayTyped
  <2>4. at' = [at EXCEPT ![j] = i] /\ Len(image) <= Len(image') /\ UNCHANGED pc
    BY <1>2, <1>7, <2>1 DEF WriteThumbnail, Touched
  <2>5. at' \in [Job -> 0..Len(image')] /\ \A l \in Job : at[l] # 0 => at'[l] # 0
    <3> HIDE DEF i
    <3>1. 0..Len(image) \subseteq 0..Len(image') /\ i \in 0..Len(image') /\ i # 0
      BY <1>2, <2>3, <2>4
    <3> QED
      BY <1>2, <2>4, <3>1
  <2>6. part' \in [Job -> 0..Parts]
    BY <1>1, <1>2, <1>7, <2>1 DEF WriteThumbnail
  <2>7. JobsTyped'
    BY <2>4, <2>5, <2>6 DEF TypeOK, JobsTyped
  <2> QED
    BY <1>3, <2>3, <2>7, TypePartsNext
<1> QED
  BY <1>4, <1>5, <1>6, <1>7 DEF Work

LEMMA OthersTyped ==
  ASSUME TypeOK, Invalidate \/ Crash \/ UNCHANGED vars
  PROVE  TypeOK'
<1>1. CASE Invalidate
  <2>1. UNCHANGED <<image, pc, at, part>>
    BY <1>1 DEF Invalidate, List, BeginSweep, DropRows, RemoveListed, ListedFails, SweepOne,
       SweepFails, fileVars, jobVars
  <2>2. name' \in [Kind -> 0..Len(image)]
    BY <1>1 DEF Invalidate, List, BeginSweep, DropRows, RemoveListed, ListedFails, SweepOne,
       SweepFails, Unlink, fileVars, TypeOK, FilesTyped
  <2>3. Rest'
    BY <1>1 DEF Invalidate, List, BeginSweep, DropRows, RemoveListed, ListedFails, SweepOne,
       SweepFails, Unlink, Fault, Swept, TypeOK, Rest, FilesTyped, InvTyped, HistoryTyped,
       boundVars, historyVars
  <2>4. JobsTyped' /\ image' \in Seq(FileType)
    BY <2>1 DEF TypeOK, FilesTyped, JobsTyped
  <2> QED
    BY <2>1, <2>2, <2>3, <2>4, TypePartsNext
<1>2. CASE Crash
  <2>1. KindOf \in [Job -> Kind]
    BY ArtifactsAssumption
  <2>2. Rest'
    BY <1>2, <2>1 DEF Crash, TypeOK, Rest, FilesTyped, InvTyped, HistoryTyped
  <2>3. JobsTyped'
    BY <1>2 DEF Crash, TypeOK, FilesTyped, JobsTyped, fileVars
  <2>4. image' \in Seq(FileType) /\ name' \in [Kind -> 0..Len(image')]
    BY <1>2 DEF Crash, fileVars, TypeOK, FilesTyped
  <2> QED
    BY <2>2, <2>3, <2>4, TypePartsNext
<1>3. CASE UNCHANGED vars
  BY <1>3 DEF vars, fileVars, jobVars, invVars, boundVars, historyVars, TypeOK, FilesTyped,
     JobsTyped, InvTyped, HistoryTyped
<1> QED
  BY <1>1, <1>2, <1>3

(* Paths and jobs refer to inodes that exist, and the state has its types. *)
THEOREM ArtifactTypes == Spec => []TypeOK
<1>1. Init => TypeOK
  BY ArtifactsAssumption DEF Init, TypeOK, FilesTyped, JobsTyped, InvTyped, HistoryTyped
<1>2. TypeOK /\ [Next]_vars => TypeOK'
  BY WorkTyped, OthersTyped DEF Next
<1> QED
  BY <1>1, <1>2, PTL DEF Spec
-----------------------------------------------------------------------------
(* Invalidation. *)

\* What invalidation has promised is not written, and is gone or yet to be removed.
PromiseHolds ==
  /\ \A k \in promised : ~ Busy(k)
  /\ inv = "listed" => \A k \in promised \cap known : k \in todo \cup Swept \/ name[k] = 0
  /\ inv = "sweep" => \A k \in promised :
                        /\ k \in known \ Swept => name[k] = 0
                        /\ k \in Swept => k \in todo \/ name[k] = 0

HealInv == TypeOK /\ PromiseHolds /\ InvalidationHeals

Untouched(k) == name'[k] = name[k] /\ (k \in rows' <=> k \in rows)

\* A job leaves alone what is not its own.
LEMMA OthersKept ==
  ASSUME TypeOK, PromiseHolds, NEW j \in Job, Work(j)
  PROVE  /\ inv' = inv /\ todo' = todo /\ known' = known
         /\ \A i \in Job : i # j => pc'[i] = pc[i]
         /\ promised' \subseteq promised \ {KindOf[j]}
         /\ \A k \in Kind : k # KindOf[j] => Untouched(k)
<1>1. inv' = inv /\ todo' = todo /\ known' = known
  BY DEF Work, Begin, OpenSource, CreateOutput, OpenCache, WritePart, WriteThumbnail, Finish,
     Record, RecordFails, Fail, RemovePartial, RemoveFails, invVars, historyVars
<1>2. \A i \in Job : i # j => pc'[i] = pc[i]
  BY DEF Work, Begin, OpenSource, CreateOutput, OpenCache, WritePart, WriteThumbnail, Finish,
     Record, RecordFails, Fail, RemovePartial, RemoveFails, Goto, TypeOK, JobsTyped
<1>3. promised' \subseteq promised \ {KindOf[j]}
  <2>1. CASE Begin(j)
    BY <2>1 DEF Begin
  <2>2. CASE ~ Begin(j)
    <3>1. promised' = promised /\ Active(j)
      BY <2>2 DEF Work, OpenSource, CreateOutput, OpenCache, WritePart, WriteThumbnail, Finish,
         Record, RecordFails, Fail, RemovePartial, RemoveFails, Goto, Active, historyVars
    <3> QED
      BY <3>1 DEF PromiseHolds, Busy
  <2> QED
    BY <2>1, <2>2
<1>4. \A k \in Kind : k # KindOf[j] => Untouched(k)
  BY DEF Work, Begin, OpenSource, CreateOutput, OpenCache, WritePart, WriteThumbnail, Finish,
     Record, RecordFails, Fail, RemovePartial, RemoveFails, NewFile, fileVars, TypeOK,
     FilesTyped, Untouched
<1> QED
  BY <1>1, <1>2, <1>3, <1>4

LEMMA WorkKeepsPromise ==
  ASSUME HealInv, NEW j \in Job, Work(j)
  PROVE  PromiseHolds' /\ InvalidationHeals'
<1>1. /\ inv' = inv /\ todo' = todo /\ known' = known
      /\ \A i \in Job : i # j => pc'[i] = pc[i]
      /\ promised' \subseteq promised \ {KindOf[j]} /\ promised \subseteq Kind
      /\ \A k \in Kind : k # KindOf[j] => Untouched(k)
  BY OthersKept DEF HealInv, TypeOK, HistoryTyped
<1>2. \A k \in promised' : ~ Busy(k)'
  BY <1>1 DEF HealInv, PromiseHolds, Busy, Active
<1>3. ASSUME NEW k \in promised'
      PROVE  k \in promised /\ Untouched(k)
  <2>1. k \in promised /\ k \in Kind /\ k # KindOf[j]
    BY <1>1
  <2> QED
    BY <1>1, <2>1
<1>4. PromiseHolds'
  BY <1>1, <1>2, <1>3 DEF HealInv, PromiseHolds, Untouched
<1>5. InvalidationHeals'
  BY <1>1, <1>3 DEF HealInv, InvalidationHeals, Untouched
<1> QED
  BY <1>4, <1>5

LEMMA InvalidateKeepsPromise ==
  ASSUME HealInv, Invalidate
  PROVE  PromiseHolds' /\ InvalidationHeals'
<1>1. /\ name \in [Kind -> 0..Len(image)] /\ promised \subseteq Kind
      /\ \A k \in promised : ~ Busy(k)
  BY DEF HealInv, TypeOK, FilesTyped, HistoryTyped, PromiseHolds
<1>2. pc' = pc /\ \A k \in Kind : Busy(k)' <=> Busy(k)
  BY DEF Invalidate, List, BeginSweep, DropRows, RemoveListed, ListedFails, SweepOne,
     SweepFails, jobVars, Busy, Active
<1>3. \A k \in promised' : k \in Kind /\ ~ Busy(k)'
  BY <1>1, <1>2 DEF Invalidate, List, BeginSweep, DropRows, RemoveListed, ListedFails, SweepOne,
     SweepFails, historyVars
<1>4. CASE List
  BY <1>3, <1>4 DEF List, PromiseHolds, InvalidationHeals
<1>5. CASE BeginSweep
  BY <1>1, <1>3, <1>5 DEF BeginSweep, HealInv, PromiseHolds, InvalidationHeals, fileVars,
     historyVars
<1>6. CASE DropRows
  BY <1>1, <1>3, <1>6 DEF DropRows, HealInv, PromiseHolds, InvalidationHeals, fileVars
<1>7. ASSUME NEW k \in Kind, RemoveListed(k)
      PROVE  PromiseHolds' /\ InvalidationHeals'
  BY <1>1, <1>3, <1>7 DEF RemoveListed, Unlink, HealInv, PromiseHolds, InvalidationHeals
<1>8. ASSUME NEW k \in Kind, ListedFails(k)
      PROVE  PromiseHolds' /\ InvalidationHeals'
  BY <1>1, <1>3, <1>8 DEF ListedFails, HealInv, PromiseHolds, InvalidationHeals, fileVars
<1>9. ASSUME NEW k \in Kind, SweepOne(k)
      PROVE  PromiseHolds' /\ InvalidationHeals'
  BY <1>1, <1>3, <1>9 DEF SweepOne, Unlink, HealInv, PromiseHolds, InvalidationHeals
<1>10. ASSUME NEW k \in Kind, SweepFails(k)
       PROVE  PromiseHolds' /\ InvalidationHeals'
  BY <1>3, <1>10 DEF SweepFails, PromiseHolds, InvalidationHeals
<1> QED
  BY <1>4, <1>5, <1>6, <1>7, <1>8, <1>9, <1>10 DEF Invalidate

(* invalidation.rs:14-18: what an invalidation that succeeds has found
   registered, or sweeps, is gone until a job runs again, whatever failed,
   crashed or ran before. *)
THEOREM InvalidationHolds == Spec => []InvalidationHeals
<1>1. Init => HealInv
  <2>1. Init => TypeOK
    BY ArtifactsAssumption DEF Init, TypeOK, FilesTyped, JobsTyped, InvTyped, HistoryTyped
  <2> QED
    BY <2>1 DEF Init, HealInv, PromiseHolds, InvalidationHeals
<1>2. HealInv /\ [Next]_vars => HealInv'
  <2> SUFFICES ASSUME HealInv, [Next]_vars
               PROVE  HealInv'
    OBVIOUS
  <2>1. TypeOK'
    BY WorkTyped, OthersTyped DEF Next, HealInv
  <2>2. CASE Crash
    BY <2>1, <2>2 DEF Crash, HealInv, PromiseHolds, InvalidationHeals, Busy, Active, fileVars
  <2>3. CASE UNCHANGED vars
    BY <2>1, <2>3 DEF vars, fileVars, jobVars, invVars, historyVars, HealInv, PromiseHolds,
       InvalidationHeals, Busy, Active
  <2> QED
    BY <2>1, <2>2, <2>3, WorkKeepsPromise, InvalidateKeepsPromise DEF Next, HealInv
<1>3. HealInv => InvalidationHeals
  BY DEF HealInv
<1> QED
  BY <1>1, <1>2, <1>3, PTL DEF Spec
-----------------------------------------------------------------------------
(***************************************************************************)
(* The artifacts of a kind are whole when no two jobs, and no job and an   *)
(* invalidation, have met on that kind.  The invariant is stated kind by   *)
(* kind: what a job does to its own kind is one lemma per action, and it   *)
(* leaves the other kinds alone because no two paths name one inode.       *)
(***************************************************************************)

\* At most one job of the kind runs, and none while an invalidation does.
Sole(k) ==
  /\ \A i, j \in Job : KindOf[i] = k /\ KindOf[j] = k /\ Active(i) /\ Active(j) => i = j
  /\ inv # "idle" => ~ Busy(k)

\* What a running job has written is at the path, and for its own profile.
Writes(k) ==
  \A j \in Job : KindOf[j] = k /\ pc[j] \in {"write", "record"} =>
    /\ at[j] = name[k] /\ name[k] # 0 /\ image[name[k]].head = ProfileOf[j]
    /\ \A m \in 1..part[j] : image[name[k]].body[m] = ProfileOf[j]
    /\ pc[j] = "record" => part[j] = Parts /\ image[name[k]].sealed = TRUE

\* A peaks file only has peaks for the parameters in its header.
Peaks(k) ==
  k = "waveform" /\ name[k] # 0 =>
    /\ image[name[k]].head # 0
    /\ \A m \in 1..Parts : image[name[k]].body[m] \in {0, image[name[k]].head}

Output(k) == k \in Rendered \ torn /\ name[k] # 0 /\ Settled(k) => IsWhole(k)

Registered(k) ==
  k \in rows \ spoiled => /\ inv = "idle" => IsWhole(k)
                          /\ k # "waveform" => ~ Busy(k)

Good(k) == Sole(k) /\ Writes(k) /\ Peaks(k) /\ Output(k) /\ Registered(k)

\* No two paths, and no path and a job of another kind, have one inode.
Apart ==
  /\ \A k, l \in Kind : name[k] = name[l] /\ name[k] # 0 => k = l
  /\ \A j \in Job, k \in Kind : at[j] = name[k] /\ name[k] # 0 => KindOf[j] = k

\* Only the proxies remove what they have written.
Removers == \A j \in Job : pc[j] = "remove" => KindOf[j] \in Rendered

WholeInv == TypeOK /\ Apart /\ Removers /\ \A k \in Kind \ met : Good(k)

-----------------------------------------------------------------------------
(* What leaves a kind alone. *)

Frame(k) ==
  /\ name'[k] = name[k] /\ (name[k] # 0 => image'[name[k]] = image[name[k]])
  /\ \A i \in Job : KindOf[i] = k => pc'[i] = pc[i] /\ at'[i] = at[i] /\ part'[i] = part[i]
  /\ k \in rows' <=> k \in rows
  /\ k \in torn' <=> k \in torn
  /\ k \in spoiled' <=> k \in spoiled

LEMMA FrameKeeps ==
  ASSUME NEW k \in Kind, Frame(k), inv' = inv, Good(k)
  PROVE  Good(k)'
<1>1. name'[k] # 0 => image'[name'[k]] = image[name[k]]
  BY DEF Frame
<1>2. IsWhole(k)' <=> IsWhole(k)
  BY <1>1 DEF Frame, IsWhole, Whole
<1>3. (Busy(k)' <=> Busy(k)) /\ (Settled(k)' <=> Settled(k))
  BY DEF Frame, Busy, Settled, Active
<1>4. Sole(k)'
  BY <1>3 DEF Good, Sole, Frame, Active
<1>5. Writes(k)'
  BY <1>1 DEF Good, Writes, Frame
<1>6. Peaks(k)'
  BY <1>1 DEF Good, Peaks, Frame
<1>7. Output(k)'
  BY <1>2, <1>3 DEF Good, Output, Frame
<1>8. Registered(k)'
  BY <1>2, <1>3 DEF Good, Registered, Frame
<1> QED
  BY <1>4, <1>5, <1>6, <1>7, <1>8 DEF Good

\* The inode a step has touched is not that of another kind.
LEMMA TouchedApart ==
  ASSUME TypeOK, Apart, NEW k \in Kind, NEW i \in Nat, Touched(i), Named(k, i),
         NEW l \in Kind, l # k
  PROVE  /\ name'[l] = name[l]
         /\ name[l] # 0 => name[l] # i /\ image'[name[l]] = image[name[l]]
<1>1. name \in [Kind -> 0..Len(image)] /\ Len(image) \in Nat
  BY DEF TypeOK, FilesTyped
<1>2. name'[l] = name[l]
  BY <1>1 DEF Named
<1>3. name[l] # 0 => name[l] # i
  BY <1>1 DEF Named, Apart
<1>4. name[l] # 0 => name[l] \in 1..Len(image)
  BY <1>1
<1> QED
  BY <1>2, <1>3, <1>4 DEF Touched

LEMMA TouchedKeepsApart ==
  ASSUME TypeOK, Apart, NEW j \in Job, NEW i \in Nat, Touched(i), Named(KindOf[j], i),
         at' = [at EXCEPT ![j] = i]
  PROVE  Apart'
<1> DEFINE k == KindOf[j]
<1>1. /\ name \in [Kind -> 0..Len(image)] /\ Len(image) \in Nat /\ k \in Kind
      /\ at \in [Job -> 0..Len(image)]
  BY JobConstants DEF TypeOK, FilesTyped, JobsTyped
<1>2. name'[k] = i /\ \A l \in Kind : l # k => name'[l] = name[l]
  BY <1>1 DEF Named
<1>3. \A l \in Kind : l # k /\ name[l] # 0 => name[l] # i
  BY <1>1, TouchedApart
<1>4. \A h \in Job : h # j => at'[h] = at[h]
  BY <1>1
<1>5. \A h \in Job : at[h] = i /\ i # 0 => KindOf[h] = k
  <2>1. CASE name[k] = i
    BY <1>1, <2>1 DEF Apart
  <2>2. CASE i = Len(image) + 1
    BY <1>1, <2>2
  <2> QED
    BY <2>1, <2>2 DEF Named
<1>6. at'[j] = i
  BY <1>1
<1> HIDE DEF k
<1>7. \A m, l \in Kind : name'[m] = name'[l] /\ name'[m] # 0 => m = l
  BY <1>2, <1>3 DEF Apart
<1>8. ASSUME NEW h \in Job, NEW l \in Kind, at'[h] = name'[l], name'[l] # 0
      PROVE  KindOf[h] = l
  <2>1. CASE l = k
    BY <1>2, <1>4, <1>5, <1>6, <1>8, <2>1 DEF k
  <2>2. CASE l # k
    <3>1. h # j
      BY <1>2, <1>3, <1>6, <1>8, <2>2
    <3> QED
      BY <1>2, <1>4, <1>8, <2>2, <3>1 DEF Apart
  <2> QED
    BY <2>1, <2>2
<1> QED
  BY <1>7, <1>8 DEF Apart

LEMMA WorkFrames ==
  ASSUME TypeOK, Apart, NEW j \in Job, Work(j), NEW k \in Kind, k # KindOf[j]
  PROVE  Frame(k)
<1>1. /\ KindOf[j] \in Kind
      /\ name \in [Kind -> 0..Len(image)] /\ Len(image) \in Nat
      /\ pc \in [Job -> {"idle", "source", "create", "write", "record", "remove"}]
      /\ at \in [Job -> 0..Len(image)] /\ part \in [Job -> 0..Parts]
  BY JobConstants DEF TypeOK, FilesTyped, JobsTyped
<1>2. /\ k \in rows' <=> k \in rows
      /\ k \in torn' <=> k \in torn
      /\ k \in spoiled' <=> k \in spoiled
  BY DEF Work, Begin, OpenSource, CreateOutput, OpenCache, WritePart, WriteThumbnail, Finish,
     Record, RecordFails, Fail, RemovePartial, RemoveFails, historyVars
<1>3. \A i \in Job : KindOf[i] = k => pc'[i] = pc[i]
  BY <1>1 DEF Work, Begin, OpenSource, CreateOutput, OpenCache, WritePart, WriteThumbnail,
     Finish, Record, RecordFails, Fail, RemovePartial, RemoveFails, Goto
<1>4. \A i \in Job : KindOf[i] = k => at'[i] = at[i] /\ part'[i] = part[i]
  BY <1>1 DEF Work, Begin, OpenSource, CreateOutput, OpenCache, NewFile, WritePart,
     WriteThumbnail, Finish, Record, RecordFails, Fail, RemovePartial, RemoveFails
<1>5. name'[k] = name[k] /\ (name[k] # 0 => image'[name[k]] = image[name[k]])
  <2>1. CASE Begin(j) \/ OpenSource(j) \/ Record(j) \/ RecordFails(j) \/ Fail(j)
             \/ RemovePartial(j) \/ RemoveFails(j)
    <3>1. image' = image
      BY <2>1 DEF Begin, OpenSource, Record, RecordFails, Fail, RemovePartial, RemoveFails,
         fileVars
    <3>2. name'[k] = name[k]
      BY <1>1, <2>1 DEF Begin, OpenSource, Record, RecordFails, Fail, RemovePartial,
         RemoveFails, fileVars
    <3> QED
      BY <3>1, <3>2
  <2>2. CASE CreateOutput(j) \/ OpenCache(j) \/ WriteThumbnail(j)
    <3> DEFINE i == at'[j]
    <3>1. Named(KindOf[j], i) /\ Touched(i)
      <4>1. CASE WriteThumbnail(j)
        BY <4>1, WriteThumbnailDoes DEF WriteThumbnail
      <4> QED
        BY <2>2, <4>1, CreateOutputDoes, OpenCacheDoes
    <3>2. i \in Nat
      BY <3>1 DEF Touched
    <3> HIDE DEF i
    <3> QED
      BY <1>1, <3>1, <3>2, TouchedApart
  <2>3. CASE WritePart(j) \/ Finish(j)
    <3>1. Touched(at[j]) /\ name' = name
      BY <2>3, WritePartDoes, FinishDoes DEF WritePart, Finish
    <3>2. name[k] # 0 => name[k] \in 1..Len(image) /\ name[k] # at[j]
      BY <1>1 DEF Apart
    <3> QED
      BY <3>1, <3>2 DEF Touched
  <2> QED
    BY <2>1, <2>2, <2>3 DEF Work
<1> QED
  BY <1>2, <1>3, <1>4, <1>5 DEF Frame

LEMMA WorkKeepsApart ==
  ASSUME TypeOK, Apart, NEW j \in Job, Work(j)
  PROVE  Apart'
<1>1. /\ KindOf[j] \in Kind
      /\ name \in [Kind -> 0..Len(image)] /\ at \in [Job -> 0..Len(image)]
  BY JobConstants DEF TypeOK, FilesTyped, JobsTyped
<1>2. CASE CreateOutput(j) \/ OpenCache(j) \/ WriteThumbnail(j)
  <2> DEFINE i == at'[j]
  <2>1. Named(KindOf[j], i) /\ Touched(i)
    <3>1. CASE WriteThumbnail(j)
      BY <3>1, WriteThumbnailDoes DEF WriteThumbnail
    <3> QED
      BY <1>2, <3>1, CreateOutputDoes, OpenCacheDoes
  <2>2. at' = [at EXCEPT ![j] = i] /\ i \in Nat
    BY <1>1, <1>2, <2>1 DEF CreateOutput, OpenCache, WriteThumbnail, Touched
  <2> HIDE DEF i
  <2> QED
    BY <2>1, <2>2, TouchedKeepsApart
<1>3. CASE RemovePartial(j)
  BY <1>1, <1>3 DEF RemovePartial, Apart
<1>4. CASE ~ (CreateOutput(j) \/ OpenCache(j) \/ WriteThumbnail(j) \/ RemovePartial(j))
  <2>1. name' = name /\ at' = at
    BY <1>4 DEF Work, Begin, OpenSource, WritePart, Finish, Record, RecordFails, Fail,
       RemoveFails, fileVars
  <2> QED
    BY <2>1 DEF Apart
<1> QED
  BY <1>2, <1>3, <1>4
-----------------------------------------------------------------------------
(* A job that runs alone keeps its own kind whole. *)

\* No other job of j's kind runs, before or after, and no invalidation.
Alone(j) ==
  /\ inv = "idle" /\ inv' = "idle"
  /\ \A i \in Job : i # j /\ KindOf[i] = KindOf[j] => pc[i] = "idle" /\ pc'[i] = "idle"

LEMMA AloneIs ==
  ASSUME WholeInv, NEW j \in Job, Work(j), KindOf[j] \notin met'
  PROVE  Alone(j) /\ Good(KindOf[j]) /\ KindOf[j] \in Kind
<1>1. KindOf[j] \in Kind
  BY JobConstants
<1>2. inv' = inv /\ \A i \in Job : i # j => pc'[i] = pc[i]
  BY DEF Work, Begin, OpenSource, CreateOutput, OpenCache, WritePart, WriteThumbnail, Finish,
     Record, RecordFails, Fail, RemovePartial, RemoveFails, Goto, WholeInv, TypeOK, JobsTyped,
     invVars
<1>3. KindOf[j] \notin met
  BY DEF Work, Begin, OpenSource, CreateOutput, OpenCache, WritePart, WriteThumbnail, Finish,
     Record, RecordFails, Fail, RemovePartial, RemoveFails, historyVars
<1>4. Good(KindOf[j])
  BY <1>1, <1>3 DEF WholeInv
<1>5. CASE Begin(j)
  BY <1>1, <1>2, <1>4, <1>5 DEF Begin, Busy, Active, Alone
<1>6. CASE ~ Begin(j)
  <2>1. Active(j)
    BY <1>6 DEF Work, OpenSource, CreateOutput, OpenCache, WritePart, WriteThumbnail, Finish,
       Record, RecordFails, Fail, RemovePartial, RemoveFails, Goto, Active
  <2>2. inv = "idle" /\ Sole(KindOf[j])
    BY <1>4, <2>1 DEF Good, Sole, Busy
  <2>3. \A i \in Job : i # j /\ KindOf[i] = KindOf[j] => pc[i] = "idle"
    BY <2>1, <2>2 DEF Sole, Active
  <2> QED
    BY <1>1, <1>2, <1>4, <2>2, <2>3 DEF Alone
<1> QED
  BY <1>1, <1>4, <1>5, <1>6

\* So the state of its kind is its own state.
LEMMA AloneState ==
  ASSUME NEW j \in Job, Alone(j)
  PROVE  LET k == KindOf[j] IN
         /\ Sole(k)'
         /\ Busy(k)' <=> pc'[j] # "idle"
         /\ Settled(k) <=> pc[j] \in {"idle", "source", "create", "record"}
         /\ Settled(k)' <=> pc'[j] \in {"idle", "source", "create", "record"}
<1> DEFINE k == KindOf[j]
<1>1. Sole(k)'
  BY DEF Alone, Sole, Active
<1>2. Busy(k)' <=> pc'[j] # "idle"
  BY DEF Alone, Busy, Active
<1>3. Settled(k) <=> pc[j] \in {"idle", "source", "create", "record"}
  BY DEF Alone, Settled
<1>4. Settled(k)' <=> pc'[j] \in {"idle", "source", "create", "record"}
  BY DEF Alone, Settled
<1> QED
  BY <1>1, <1>2, <1>3, <1>4

\* The steps that write nothing.
LEMMA QuietStep ==
  ASSUME WholeInv, NEW j \in Job, Alone(j), Good(KindOf[j]), KindOf[j] \in Kind,
         Begin(j) \/ OpenSource(j) \/ RecordFails(j) \/ Fail(j) \/ RemoveFails(j)
  PROVE  Good(KindOf[j])'
<1> DEFINE k == KindOf[j]
<1>1. /\ image' = image /\ name' = name /\ rows' = rows
      /\ k \in spoiled' <=> k \in spoiled \/ (Begin(j) /\ k \in rows \ {"waveform"})
      /\ k \in torn' <=> k \in torn \/ RemoveFails(j)
  BY DEF Begin, OpenSource, RecordFails, Fail, RemoveFails, fileVars, historyVars, Goto
<1>2. pc'[j] \notin {"write", "record"}
  BY DEF Begin, OpenSource, RecordFails, Fail, RemoveFails, Goto, WholeInv, TypeOK, JobsTyped
<1>3. IsWhole(k)' <=> IsWhole(k)
  BY <1>1 DEF IsWhole, Whole
<1>4. /\ Sole(k)'
      /\ Busy(k)' <=> pc'[j] # "idle"
      /\ Settled(k) <=> pc[j] \in {"idle", "source", "create", "record"}
      /\ Settled(k)' <=> pc'[j] \in {"idle", "source", "create", "record"}
  BY AloneState
<1>5. Writes(k)'
  BY <1>2 DEF Writes, Alone
<1>6. Peaks(k)'
  BY <1>1 DEF Good, Peaks
<1>7. Output(k)'
  <2>1. RemoveFails(j) \/ (k \in Rendered /\ Settled(k)' => Settled(k))
    BY <1>4 DEF Begin, OpenSource, RecordFails, Fail, Goto, WholeInv, TypeOK, JobsTyped
  <2> QED
    BY <1>1, <1>3, <2>1 DEF Good, Output
<1>8. Registered(k)'
  <2>1. Begin(j) \/ (Busy(k)' => Busy(k))
    BY <1>4 DEF OpenSource, RecordFails, Fail, RemoveFails, Goto, Busy, Active
  <2>2. CASE Begin(j)
    BY <1>1, <1>3, <2>2 DEF Good, Registered, Alone
  <2>3. CASE ~ Begin(j)
    BY <1>1, <1>3, <2>1, <2>3 DEF Good, Registered, Alone
  <2> QED
    BY <2>2, <2>3
<1> QED
  BY <1>4, <1>5, <1>6, <1>7, <1>8 DEF Good

\* An artifact is recorded when it is whole.
LEMMA RecordStep ==
  ASSUME WholeInv, NEW j \in Job, Alone(j), Good(KindOf[j]), KindOf[j] \in Kind, Record(j)
  PROVE  Good(KindOf[j])'
<1> DEFINE k == KindOf[j]
<1>1. /\ image' = image /\ name' = name /\ torn' = torn /\ rows' = rows \cup {k}
      /\ pc[j] = "record" /\ pc'[j] = "idle"
  BY DEF Record, fileVars, Goto, WholeInv, TypeOK, JobsTyped
<1>2. IsWhole(k)
  BY <1>1 DEF Good, Writes, IsWhole, Whole
<1>3. IsWhole(k)'
  BY <1>1, <1>2 DEF IsWhole, Whole
<1>4. Sole(k)' /\ ~ Busy(k)'
  BY <1>1, AloneState
<1>5. Writes(k)'
  BY <1>1 DEF Writes, Alone
<1>6. Peaks(k)'
  BY <1>1 DEF Good, Peaks
<1> QED
  BY <1>3, <1>4, <1>5, <1>6 DEF Good, Output, Registered

\* A job that fails removes what is at the path: nothing is registered there.
LEMMA RemoveStep ==
  ASSUME WholeInv, NEW j \in Job, Alone(j), Good(KindOf[j]), KindOf[j] \in Kind,
         RemovePartial(j)
  PROVE  Good(KindOf[j])'
<1> DEFINE k == KindOf[j]
<1>1. /\ name'[k] = 0 /\ rows' = rows /\ spoiled' = spoiled
      /\ pc[j] = "remove" /\ pc'[j] = "idle"
  BY DEF RemovePartial, Goto, WholeInv, TypeOK, JobsTyped, FilesTyped
<1>2. Sole(k)'
  BY AloneState
<1>3. Writes(k)' /\ Peaks(k)' /\ Output(k)'
  BY <1>1 DEF Writes, Alone, Peaks, Output
<1>4. Busy(k) /\ k # "waveform"
  BY <1>1 DEF Busy, Active, WholeInv, Removers, Rendered
<1>5. k \notin rows' \ spoiled'
  BY <1>1, <1>4 DEF Good, Registered
<1> QED
  BY <1>2, <1>3, <1>5 DEF Good, Registered

\* What is written to is the file at the path, and the job has written part'[j] of it.
LEMMA WrittenAlone ==
  ASSUME NEW j \in Job, Alone(j), Good(KindOf[j]), KindOf[j] \in Kind,
         pc'[j] \in {"write", "record"}, rows' = rows, spoiled' = spoiled,
         at'[j] = name'[KindOf[j]], name'[KindOf[j]] # 0,
         NEW f, image'[name'[KindOf[j]]] = f, f.head = ProfileOf[j],
         \A m \in 1..part'[j] : f.body[m] = ProfileOf[j],
         pc'[j] = "record" => part'[j] = Parts /\ f.sealed = TRUE,
         KindOf[j] = "waveform" =>
           /\ f.head # 0 /\ \A m \in 1..Parts : f.body[m] \in {0, f.head}
           /\ KindOf[j] \in rows \ spoiled => Whole(f),
         KindOf[j] # "waveform" => Busy(KindOf[j])
  PROVE  Good(KindOf[j])'
<1> DEFINE k == KindOf[j]
<1>1. Sole(k)' /\ (Settled(k)' <=> pc'[j] = "record")
  BY AloneState
<1>2. Writes(k)'
  BY DEF Writes, Alone
<1>3. Peaks(k)'
  BY DEF Peaks
<1>4. IsWhole(k)' <=> Whole(f)
  BY DEF IsWhole, Whole
<1>5. Output(k)'
  <2>1. pc'[j] = "record" => Whole(f)
    BY DEF Whole
  <2> QED
    BY <1>1, <1>4, <2>1 DEF Output
<1>6. Registered(k)'
  BY <1>4 DEF Good, Registered
<1> QED
  BY <1>1, <1>2, <1>3, <1>5, <1>6 DEF Good

LEMMA CreateStep ==
  ASSUME WholeInv, NEW j \in Job, Alone(j), Good(KindOf[j]), KindOf[j] \in Kind,
         CreateOutput(j)
  PROVE  Good(KindOf[j])'
<1> DEFINE k == KindOf[j]
           f == Blank(ProfileOf[j])
<1>1. f.head = ProfileOf[j] /\ Parts \in Nat
  BY JobConstants, BlankFile
<1>2. /\ rows' = rows /\ spoiled' = spoiled /\ pc'[j] = "write" /\ part'[j] = 0
      /\ k # "waveform" /\ Busy(k)
  BY DEF CreateOutput, Goto, WholeInv, TypeOK, JobsTyped, Rendered, Busy, Active
<1>3. at'[j] = name'[k] /\ name'[k] # 0 /\ image'[name'[k]] = f
  <2>1. Named(k, at'[j]) /\ Touched(at'[j]) /\ image'[at'[j]] = f
    BY CreateOutputDoes DEF WholeInv
  <2>2. at'[j] = name'[k]
    BY DEF CreateOutput, WholeInv, TypeOK, JobsTyped
  <2> QED
    BY <2>1, <2>2 DEF Touched
<1> HIDE DEF f
<1>4. \A m \in 1..part'[j] : f.body[m] = ProfileOf[j]
  BY <1>2
<1> QED
  BY <1>1, <1>2, <1>3, <1>4, WrittenAlone

LEMMA OpenStep ==
  ASSUME WholeInv, NEW j \in Job, Alone(j), Good(KindOf[j]), KindOf[j] \in Kind,
         OpenCache(j)
  PROVE  Good(KindOf[j])'
<1> DEFINE k == KindOf[j]
           p == ProfileOf[j]
           i == at'[j]
           f == image'[i]
<1>1. Parts \in Nat /\ p # 0
  BY JobConstants
<1>2. /\ rows' = rows /\ spoiled' = spoiled /\ pc'[j] = "write" /\ Busy(k)
      /\ part \in [Job -> 0..Parts]
  BY DEF OpenCache, Goto, WholeInv, TypeOK, JobsTyped, Busy, Active, historyVars
<1>3. Named(k, i) /\ Touched(i) /\ f.head = p
  BY OpenCacheDoes DEF WholeInv
<1>4. i = name'[k] /\ name'[k] # 0
  <2>1. i = name'[k]
    BY DEF OpenCache, WholeInv, TypeOK, JobsTyped
  <2> QED
    BY <1>3, <2>1 DEF Touched
<1>5. CASE name[k] = 0
  <2>1. f = Blank(p) /\ part'[j] = 0
    BY <1>2, <1>5, OpenCacheDoes DEF WholeInv
  <2>2. \A m \in 1..Parts : f.body[m] = 0
    <3> HIDE DEF f, p
    <3>1. p \in Profiles
      BY JobConstants DEF p
    <3> QED
      BY <2>1, <3>1, BlankFile
  <2>3. k \notin rows \ spoiled
    BY <1>5 DEF Good, Registered, Alone, IsWhole
  <2>4. \A m \in 1..part'[j] : f.body[m] = p
    BY <2>1
  <2> HIDE DEF f, i
  <2> QED
    BY <1>1, <1>2, <1>3, <1>4, <2>2, <2>3, <2>4, WrittenAlone DEF f, i
<1>6. CASE name[k] # 0
  <2> DEFINE g == image[i]
  <2>1. /\ i = name[k] /\ f.sealed = g.sealed /\ f.body = g.body
        /\ k = "waveform" => g.head = p
        /\ part'[j] = IF k = "waveform" THEN Present(g) ELSE 0
    BY <1>2, <1>3, <1>6, OpenCacheDoes DEF WholeInv, Named
  <2>2. g \in FileType
    BY <1>6, <2>1 DEF WholeInv, TypeOK, FilesTyped
  <2>3. k = "waveform" => \A m \in 1..Parts : f.body[m] \in {0, p}
    BY <1>6, <2>1 DEF Good, Peaks
  <2>4. k = "waveform" /\ k \in rows \ spoiled => Whole(f)
    BY <1>3, <2>1 DEF Good, Registered, Alone, IsWhole, Whole
  <2>5. \A m \in 1..part'[j] : f.body[m] = p
    <3>1. CASE k = "waveform"
      <4>1. Present(g) \in 0..Parts /\ \A m \in 1..Present(g) : g.body[m] # 0
        <5> HIDE DEF g
        <5> QED
          BY <2>2, PresentIs
      <4> QED
        BY <1>1, <2>1, <2>3, <3>1, <4>1
    <3>2. CASE k # "waveform"
      BY <2>1, <3>2
    <3> QED
      BY <3>1, <3>2
  <2> HIDE DEF f, i, g
  <2> QED
    BY <1>1, <1>2, <1>3, <1>4, <2>3, <2>4, <2>5, WrittenAlone DEF f, i
<1> QED
  BY <1>5, <1>6

LEMMA WriteStep ==
  ASSUME WholeInv, NEW j \in Job, Alone(j), Good(KindOf[j]), KindOf[j] \in Kind,
         WritePart(j) \/ WriteThumbnail(j)
  PROVE  Good(KindOf[j])'
<1> DEFINE k == KindOf[j]
           p == ProfileOf[j]
           i == name[k]
           f == image'[i]
           g == image[i]
<1>1. Parts \in Nat /\ p # 0
  BY JobConstants
<1>2. /\ rows' = rows /\ spoiled' = spoiled /\ pc[j] = "write" /\ pc'[j] = "write" /\ Busy(k)
      /\ part[j] \in 0..Parts /\ name \in [Kind -> 0..Len(image)]
      /\ at \in [Job -> 0..Len(image)]
  BY DEF WritePart, WriteThumbnail, WholeInv, TypeOK, FilesTyped, JobsTyped, Busy, Active,
     historyVars
<1>3. /\ at[j] = i /\ i # 0 /\ g.head = p
      /\ \A m \in 1..part[j] : g.body[m] = p
  BY <1>2 DEF Good, Writes
<1>4. /\ f.head = g.head /\ f.sealed = g.sealed /\ part'[j] = part[j] + 1
      /\ \A m \in 1..Parts : f.body[m] = IF m = part[j] + 1 THEN p ELSE g.body[m]
      /\ part[j] + 1 \in 1..Parts
  <2>1. CASE WritePart(j)
    BY <1>3, <2>1, WritePartDoes DEF WholeInv
  <2>2. CASE WriteThumbnail(j)
    <3>1. k = "thumbnails"
      BY <2>2 DEF WriteThumbnail
    <3>2. at'[j] = i
      BY <1>3, <2>2, <3>1, WriteThumbnailDoes DEF WholeInv, Named
    <3> QED
      BY <1>3, <2>2, <3>1, <3>2, WriteThumbnailDoes DEF WholeInv
  <2> QED
    BY <2>1, <2>2
<1>5. name'[k] = i /\ at'[j] = i
  <2>1. CASE WritePart(j)
    BY <1>3, <2>1 DEF WritePart
  <2>2. CASE WriteThumbnail(j)
    <3>1. k = "thumbnails"
      BY <2>2 DEF WriteThumbnail
    <3>2. name' = name /\ at' = [at EXCEPT ![j] = name'[k]]
      BY <1>3, <2>2, <3>1 DEF WriteThumbnail
    <3> QED
      BY <1>2, <3>2
  <2> QED
    BY <2>1, <2>2
<1>6. \A m \in 1..part'[j] : f.body[m] = p
  <2> SUFFICES ASSUME NEW m \in 1..part'[j]
               PROVE  f.body[m] = p
    OBVIOUS
  <2>1. m \in 1..Parts /\ (m = part[j] + 1 \/ m \in 1..part[j])
    BY <1>1, <1>2, <1>4
  <2> QED
    BY <1>3, <1>4, <2>1
<1>7. k = "waveform" => \A m \in 1..Parts : f.body[m] \in {0, p}
  BY <1>3, <1>4 DEF Good, Peaks
<1>8. k = "waveform" /\ k \in rows \ spoiled => Whole(f)
  BY <1>3, <1>4 DEF Good, Registered, Alone, IsWhole, Whole
<1> HIDE DEF f, g, i
<1> QED
  BY <1>1, <1>2, <1>3, <1>4, <1>5, <1>6, <1>7, <1>8, WrittenAlone DEF f

LEMMA FinishStep ==
  ASSUME WholeInv, NEW j \in Job, Alone(j), Good(KindOf[j]), KindOf[j] \in Kind, Finish(j)
  PROVE  Good(KindOf[j])'
<1> DEFINE k == KindOf[j]
           p == ProfileOf[j]
           i == name[k]
           f == image'[i]
           g == image[i]
<1>1. Parts \in Nat /\ p # 0
  BY JobConstants
<1>2. /\ rows' = rows /\ spoiled' = spoiled /\ pc[j] = "write" /\ pc'[j] = "record" /\ Busy(k)
      /\ part[j] = Parts /\ part' = part /\ name' = name /\ at' = at
  BY DEF Finish, Goto, WholeInv, TypeOK, JobsTyped, Busy, Active, historyVars
<1>3. /\ at[j] = i /\ i # 0 /\ g.head = p
      /\ \A m \in 1..part[j] : g.body[m] = p
  BY <1>2 DEF Good, Writes
<1>4. f.head = g.head /\ f.body = g.body /\ f.sealed = TRUE
  BY <1>3, FinishDoes DEF WholeInv
<1>5. Whole(f)
  BY <1>2, <1>3, <1>4 DEF Whole
<1> HIDE DEF f, g, i
<1>6. /\ pc'[j] \in {"write", "record"} /\ at'[j] = name'[KindOf[j]] /\ name'[KindOf[j]] # 0
      /\ image'[name'[KindOf[j]]] = f /\ f.head = ProfileOf[j] /\ Busy(KindOf[j])
      /\ \A m \in 1..part'[j] : f.body[m] = ProfileOf[j]
  BY <1>2, <1>3, <1>4 DEF f, i
<1>7. f.head # 0 /\ \A m \in 1..Parts : f.body[m] \in {0, f.head}
  BY <1>1, <1>2, <1>3, <1>4
<1> QED
  BY <1>2, <1>4, <1>5, <1>6, <1>7, WrittenAlone
-----------------------------------------------------------------------------
(* Every step. *)

LEMMA WorkKeepsWhole ==
  ASSUME WholeInv, NEW j \in Job, Work(j)
  PROVE  Apart' /\ Removers' /\ \A k \in Kind \ met' : Good(k)'
<1>1. Apart'
  BY WorkKeepsApart DEF WholeInv
<1>2. Removers'
  BY DEF Work, Begin, OpenSource, CreateOutput, OpenCache, WritePart, WriteThumbnail, Finish,
     Record, RecordFails, Fail, RemovePartial, RemoveFails, Goto, WholeInv, Removers, TypeOK,
     JobsTyped
<1>3. inv' = inv
  BY DEF Work, Begin, OpenSource, CreateOutput, OpenCache, WritePart, WriteThumbnail, Finish,
     Record, RecordFails, Fail, RemovePartial, RemoveFails, invVars
<1>4. met \subseteq met'
  BY DEF Work, Begin, OpenSource, CreateOutput, OpenCache, WritePart, WriteThumbnail, Finish,
     Record, RecordFails, Fail, RemovePartial, RemoveFails, historyVars
<1>5. ASSUME NEW k \in Kind \ met', k # KindOf[j]
      PROVE  Good(k)'
  <2>1. Frame(k) /\ Good(k)
    BY <1>4, <1>5, WorkFrames DEF WholeInv
  <2> QED
    BY <1>3, <2>1, FrameKeeps
<1>6. KindOf[j] \notin met' => Good(KindOf[j])'
  <2> SUFFICES ASSUME KindOf[j] \notin met'
               PROVE  Good(KindOf[j])'
    OBVIOUS
  <2>1. Alone(j) /\ Good(KindOf[j]) /\ KindOf[j] \in Kind
    BY AloneIs
  <2> QED
    BY <2>1, QuietStep, RecordStep, RemoveStep, CreateStep, OpenStep, WriteStep, FinishStep
    DEF Work
<1> QED
  BY <1>1, <1>2, <1>5, <1>6

LEMMA InvalidateKeepsWhole ==
  ASSUME WholeInv, Invalidate
  PROVE  Apart' /\ Removers' /\ \A k \in Kind \ met' : Good(k)'
<1>1. name \in [Kind -> 0..Len(image)] /\ rows \subseteq Kind
  BY DEF WholeInv, TypeOK, FilesTyped
<1>2. UNCHANGED <<image, pc, at, part>> /\ met \subseteq met'
  BY DEF Invalidate, List, BeginSweep, DropRows, RemoveListed, ListedFails, SweepOne,
     SweepFails, fileVars, jobVars, historyVars
<1>3. \A k \in Kind : name'[k] = name[k] \/ (name'[k] = 0 /\ inv # "idle")
  BY <1>1 DEF Invalidate, List, BeginSweep, DropRows, RemoveListed, ListedFails, SweepOne,
     SweepFails, Unlink, fileVars
<1>4. Apart' /\ Removers'
  BY <1>2, <1>3 DEF WholeInv, Apart, Removers
<1>5. ASSUME NEW k \in Kind \ met'
      PROVE  Good(k)'
  <2>1. Good(k)
    BY <1>2 DEF WholeInv
  <2>2. ~ Busy(k) /\ ~ Busy(k)'
    <3>1. ~ Busy(k)
      BY <2>1 DEF Invalidate, List, BeginSweep, DropRows, RemoveListed, ListedFails, SweepOne,
         SweepFails, Good, Sole
    <3> QED
      BY <1>2, <3>1 DEF Busy, Active
  <2>3. Sole(k)' /\ Writes(k)'
    BY <2>2 DEF Sole, Writes, Busy, Active
  <2>4. Peaks(k)'
    BY <1>2, <1>3, <2>1 DEF Good, Peaks
  <2>5. k \notin torn' => k \notin torn \/ name'[k] = 0
    BY <1>1 DEF Invalidate, List, BeginSweep, DropRows, RemoveListed, ListedFails, SweepOne,
       SweepFails, Unlink, historyVars
  <2>6. Output(k)'
    BY <1>2, <1>3, <2>1, <2>5 DEF Good, Output, Settled, IsWhole, Whole
  <2>7. k \notin rows' \ spoiled' \/ inv' # "idle"
    BY DEF Invalidate, List, BeginSweep, DropRows, RemoveListed, ListedFails, SweepOne,
       SweepFails
  <2>8. Registered(k)'
    BY <2>2, <2>7 DEF Registered
  <2> QED
    BY <2>3, <2>4, <2>6, <2>8 DEF Good
<1> QED
  BY <1>4, <1>5

LEMMA CrashKeepsWhole ==
  ASSUME WholeInv, Crash
  PROVE  Apart' /\ Removers' /\ \A k \in Kind \ met' : Good(k)'
<1>1. UNCHANGED <<name, image, at, part, rows, met>> /\ inv' = "idle"
  BY DEF Crash, fileVars
<1>2. pc' = [j \in Job |-> "idle"]
  BY DEF Crash
<1>3. Apart' /\ Removers'
  BY <1>1, <1>2 DEF WholeInv, Apart, Removers
<1>4. ASSUME NEW k \in Kind \ met'
      PROVE  Good(k)'
  <2>1. Good(k)
    BY <1>1, <1>4 DEF WholeInv
  <2>2. ~ Busy(k)'
    BY <1>2 DEF Busy, Active
  <2>3. Sole(k)' /\ Writes(k)'
    BY <2>2 DEF Sole, Writes, Busy, Active
  <2>4. Peaks(k)'
    BY <1>1, <2>1 DEF Good, Peaks
  <2>5. IsWhole(k)' <=> IsWhole(k)
    BY <1>1 DEF IsWhole, Whole
  <2>6. k \in Rendered /\ k \notin torn' => k \notin torn /\ Settled(k)
    <3> SUFFICES ASSUME k \in Rendered, k \notin torn'
                 PROVE  k \notin torn /\ Settled(k)
      OBVIOUS
    <3>1. torn' = torn \cup {KindOf[j] : j \in {i \in Job : pc[i] \in {"write", "remove"}}}
      BY DEF Crash
    <3>2. k \notin torn /\ \A j \in Job : KindOf[j] = k => pc[j] \notin {"write", "remove"}
      BY <3>1
    <3> QED
      BY <3>2 DEF Settled, WholeInv, TypeOK, JobsTyped
  <2>7. Output(k)'
    BY <1>1, <2>1, <2>5, <2>6 DEF Good, Output
  <2>8. k \in rows' \ spoiled' => inv = "idle" /\ k \in rows \ spoiled
    BY <1>1 DEF Crash
  <2>9. Registered(k)'
    BY <2>1, <2>2, <2>5, <2>8 DEF Good, Registered
  <2> QED
    BY <2>3, <2>4, <2>7, <2>9 DEF Good
<1> QED
  BY <1>3, <1>4

LEMMA StutterKeepsWhole ==
  ASSUME WholeInv, UNCHANGED vars
  PROVE  WholeInv'
<1>1. TypeOK'
  BY OthersTyped DEF WholeInv
<1>2. /\ UNCHANGED <<name, image, at, part, pc, rows, met, torn, spoiled>> /\ inv' = inv
      /\ Apart' /\ Removers'
  BY DEF vars, fileVars, jobVars, invVars, historyVars, WholeInv, Apart, Removers
<1>3. \A k \in Kind \ met' : Good(k)'
  BY <1>2, FrameKeeps DEF WholeInv, Frame
<1> QED
  BY <1>1, <1>2, <1>3 DEF WholeInv

THEOREM WholeInvariant == Spec => []WholeInv
<1>1. Init => WholeInv
  <2> SUFFICES ASSUME Init
               PROVE  WholeInv
    OBVIOUS
  <2>1. TypeOK
    BY ArtifactsAssumption DEF Init, TypeOK, FilesTyped, JobsTyped, InvTyped, HistoryTyped
  <2>2. Apart /\ Removers /\ \A k \in Kind : Good(k)
    BY DEF Init, Apart, Removers, Good, Sole, Writes, Peaks, Output, Registered, Busy, Active
  <2> QED
    BY <2>1, <2>2 DEF WholeInv
<1>2. WholeInv /\ [Next]_vars => WholeInv'
  <2> SUFFICES ASSUME WholeInv, [Next]_vars
               PROVE  WholeInv'
    OBVIOUS
  <2>1. TypeOK'
    BY WorkTyped, OthersTyped DEF Next, WholeInv
  <2>2. CASE UNCHANGED vars
    BY <2>2, StutterKeepsWhole
  <2>3. CASE Next
    <3>1. Apart' /\ Removers' /\ \A k \in Kind \ met' : Good(k)'
      BY <2>3, WorkKeepsWhole, InvalidateKeepsWhole, CrashKeepsWhole DEF Next
    <3> QED
      BY <2>1, <3>1 DEF WholeInv
  <2> QED
    BY <2>2, <2>3
<1> QED
  BY <1>1, <1>2, PTL DEF Spec

(* generator.rs:27-28: whatever is at the path of a proxy is a complete proxy
   for one profile, unless a run is writing it, whatever fails, crashes or is
   invalidated, as long as no crash or failed removal has left a part and no
   two writers have met. *)
THEOREM OutputWhole == Spec => []OutputIsWholeAlone
<1>1. WholeInv => OutputIsWholeAlone
  BY DEF WholeInv, Good, Output, OutputIsWholeAlone, Rendered, Kind
<1> QED
  BY <1>1, WholeInvariant, PTL

(* A row of the database stands for a complete file, for any number of jobs,
   runs, failures, crashes and invalidations, outside the windows that met and
   spoiled stand for. *)
THEOREM RegisteredWhole == Spec => []RegisteredIsWhole
<1>1. WholeInv => RegisteredIsWhole
  BY DEF WholeInv, TypeOK, FilesTyped, Good, Registered, RegisteredIsWhole
<1> QED
  BY <1>1, WholeInvariant, PTL
==============================================================================
