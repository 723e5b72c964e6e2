--------------------------- MODULE WaveformProofs ---------------------------
(***************************************************************************)
(* Theorems about the .peaks file, for any number of jobs and crashes, any *)
(* audio and any parameters.                                               *)
(***************************************************************************)
EXTENDS WaveformProperties, TLAPS

(* Where a job is in the audio: at the chunk of its index. *)
Positions ==
  \A w \in Worker :
    /\ pc[w] # "idle" => params[w] \in Params
    /\ pc[w] \in {"size", "rate", "decode", "extend", "record", "count"}
         => pos[w] = Skipped(index[w], params[w].size)
    /\ pc[w] \in {"extend", "record", "count"} => pos[w] < TotalFrames

\* What set_len makes of the records.
LEMMA PaddedRecords ==
  ASSUME records \in Seq(Content), NEW n \in Nat
  PROVE  /\ Padded(n) \in Seq(Content)
         /\ Len(Padded(n)) = n
         /\ \A i \in 1..n : Padded(n)[i] = IF i <= Len(records) THEN records[i] ELSE Zeros
  BY DEF Padded, Content

\* A chunk that begins within the audio is one of at most TotalFrames.
LEMMA WithinAudio ==
  ASSUME NEW n \in Nat, NEW size \in Nat \ {0}, n * size < TotalFrames
  PROVE  n < TotalFrames
  BY WaveformAssumption

LEMMA SkippedType ==
  ASSUME NEW n \in Nat, NEW size \in Nat
  PROVE  Skipped(n, size) \in 0..TotalFrames
<1>1. n * size \in Nat
  OBVIOUS
<1> QED
  BY <1>1, WaveformAssumption DEF Skipped, Smaller

\* The decoder moves from chunk to chunk.
LEMMA NextChunk ==
  ASSUME NEW n \in Nat, NEW size \in Nat \ {0}, Skipped(n, size) < TotalFrames
  PROVE  /\ Skipped(n, size) = n * size
         /\ Skipped(n + 1, size) = Smaller(n * size + size, TotalFrames)
         /\ n < TotalFrames
<1>1. n * size \in Nat /\ (n + 1) * size = n * size + size
  OBVIOUS
<1>2. Skipped(n, size) = n * size /\ n * size < TotalFrames
  BY <1>1, WaveformAssumption DEF Skipped, Smaller
<1> QED
  BY <1>1, <1>2, WithinAudio DEF Skipped
-----------------------------------------------------------------------------
(* Types and positions. *)

LEMMA ParamsTyped ==
  ASSUME NEW p \in Params
  PROVE  /\ p.size \in Size /\ p.size \in Nat \ {0}
         /\ p.rate \in Rate /\ p.rate \in Nat \ {0}
         /\ p = [size |-> p.size, rate |-> p.rate]
  BY WaveformAssumption DEF Params

LEMMA TypesInit == Init => TypeOK /\ Positions /\ NeverShifted
<1> SUFFICES ASSUME Init PROVE TypeOK /\ Positions /\ NeverShifted
  OBVIOUS
<1>1. FileTyped
  BY WaveformAssumption DEF Init, FileTyped
<1>2. records \in Seq(Content)
  BY DEF Init
<1>3. JobsTyped
  BY WaveformAssumption DEF Init, JobsTyped
<1>4. HistoryTyped
  BY WaveformAssumption DEF Init, HistoryTyped
<1>5. FlagsTyped
  BY DEF Init, FlagsTyped
<1> QED
  BY <1>1, <1>2, <1>3, <1>4, <1>5 DEF Init, TypeOK, Positions, NeverShifted

\* The job of a worker in the middle of a run.
LEMMA RunningJob ==
  ASSUME TypeOK, Positions, NEW w \in Worker, pc[w] # "idle"
  PROVE  /\ params[w] \in Params
         /\ index[w] \in Nat /\ pos[w] \in Nat
         /\ pc[w] \in {"extend", "record", "count"} =>
              /\ pos[w] = index[w] * params[w].size /\ index[w] < TotalFrames
              /\ Skipped(index[w] + 1, params[w].size)
                   = Smaller(pos[w] + params[w].size, TotalFrames)
<1>1. params[w] \in Params /\ index[w] \in Nat /\ pos[w] \in Nat
  BY DEF TypeOK, JobsTyped, Positions
<1>2. params[w].size \in Nat \ {0}
  BY <1>1, ParamsTyped
<1>3. ASSUME pc[w] \in {"extend", "record", "count"}
      PROVE  Skipped(index[w], params[w].size) = pos[w] /\ pos[w] < TotalFrames
  BY <1>3 DEF Positions
<1> QED
  BY <1>1, <1>2, <1>3, NextChunk

LEMMA FlagTypes ==
  ASSUME TypeOK, Next
  PROVE  FlagsTyped'
<1> USE DEF TypeOK, FlagsTyped, fileVars, historyVars
<1>1. ASSUME NEW w \in Worker, Work(w) \/ Abort(w) PROVE FlagsTyped'
  BY <1>1 DEF Work, Create, WriteHeader, Resume, SetUp, OpenWith, Reject, SetSize, SetRate,
              Decode, Extend, WriteRecord, WriteCount, Finish, Abort
<1>2. ASSUME NEW w \in Worker, NEW p \in Params, Run(w, p) PROVE FlagsTyped'
  BY <1>2 DEF Run
<1>3. CASE OpenReader \/ Crash
  BY <1>3 DEF OpenReader, Crash
<1> QED
  BY <1>1, <1>2, <1>3 DEF Next

LEMMA FileTypes ==
  ASSUME TypeOK, Positions, Next
  PROVE  FileTyped'
<1> USE WaveformAssumption DEF TypeOK, FileTyped, fileVars
<1>1. CASE UNCHANGED <<fileVars, registered>>
  BY <1>1
<1>2. ASSUME NEW w \in Worker, Create(w) \/ WriteHeader(w) PROVE FileTyped'
  BY <1>2 DEF Create, WriteHeader
<1>3. ASSUME NEW w \in Worker, SetSize(w) \/ SetRate(w) PROVE FileTyped'
  <2>1. params[w] \in Params
    BY <1>3, RunningJob DEF SetSize, SetRate, Goto
  <2> QED
    BY <1>3, <2>1, ParamsTyped DEF SetSize, SetRate
<1>4. ASSUME NEW w \in Worker, WriteCount(w) PROVE FileTyped'
  <2>1. index[w] \in Nat /\ index[w] < TotalFrames
    BY <1>4, RunningJob DEF WriteCount, Goto
  <2> QED
    BY <1>4, <2>1 DEF WriteCount
<1>5. ASSUME NEW w \in Worker, Extend(w) \/ WriteRecord(w) \/ Finish(w) PROVE FileTyped'
  BY <1>5 DEF Extend, WriteRecord, Finish
<1> QED
  BY <1>1, <1>2, <1>3, <1>4, <1>5
     DEF Next, Work, Run, Resume, SetUp, OpenWith, Reject, Decode, Abort, OpenReader, Crash

\* What WriteRecord makes of the records.
LEMMA WrittenRecords ==
  ASSUME TypeOK, Positions, NEW w \in Worker, WriteRecord(w)
  PROVE  /\ records' \in Seq(Content)
         /\ Len(records') = IF Len(records) <= index[w] THEN index[w] + 1 ELSE Len(records)
         /\ \A i \in 1..Len(records') :
              records'[i] = IF i = index[w] + 1 THEN FramesFrom(pos[w], params[w].size)
                            ELSE IF i <= Len(records) THEN records[i] ELSE Zeros
<1> DEFINE n == IF Len(records) <= index[w] THEN index[w] + 1 ELSE Len(records)
           s == Padded(n)
<1>1. records \in Seq(Content) /\ n \in Nat /\ index[w] + 1 \in 1..n
  BY DEF TypeOK, JobsTyped
<1>2. s \in Seq(Content) /\ Len(s) = n
      /\ \A i \in 1..n : s[i] = IF i <= Len(records) THEN records[i] ELSE Zeros
  BY <1>1, PaddedRecords
<1>3. FramesFrom(pos[w], params[w].size) \in Content
  BY DEF FramesFrom, Content
<1>4. records' = [s EXCEPT ![index[w] + 1] = FramesFrom(pos[w], params[w].size)]
  BY DEF WriteRecord
<1> HIDE DEF s
<1> QED
  BY <1>1, <1>2, <1>3, <1>4

LEMMA RecordTypes ==
  ASSUME TypeOK, Positions, Next
  PROVE  records' \in Seq(Content)
<1>1. CASE UNCHANGED records
  BY <1>1 DEF TypeOK
<1>2. ASSUME NEW w \in Worker, Create(w) PROVE records' \in Seq(Content)
  BY <1>2 DEF Create
<1>3. ASSUME NEW w \in Worker, Extend(w) PROVE records' \in Seq(Content)
  <2>1. index[w] + 1 \in Nat
    BY DEF TypeOK, JobsTyped
  <2> QED
    BY <1>3, <2>1, PaddedRecords DEF Extend, TypeOK
<1> QED
  BY <1>1, <1>2, <1>3, WrittenRecords
     DEF Next, Work, Run, Resume, SetUp, OpenWith, Reject, Decode, Abort, OpenReader, Crash,
         WriteHeader, SetSize, SetRate, WriteCount, Finish, fileVars

LEMMA JobTypes ==
  ASSUME TypeOK, Positions, Next
  PROVE  JobsTyped' /\ Positions'
<1> USE WaveformAssumption DEF TypeOK, JobsTyped, FileTyped, Positions, Goto
<1>1. CASE UNCHANGED jobVars
  BY <1>1 DEF jobVars
<1>2. ASSUME NEW w \in Worker, NEW p \in Params, Run(w, p) PROVE JobsTyped' /\ Positions'
  BY <1>2 DEF Run
<1>3. ASSUME NEW w \in Worker, NEW next \in {"decode", "size"}, OpenWith(w, next)
      PROVE  JobsTyped' /\ Positions'
  <2>1. params[w] \in Params /\ params[w].size \in Nat /\ chunkCount \in Nat
    BY <1>3, RunningJob, ParamsTyped DEF OpenWith
  <2>2. Skipped(chunkCount, params[w].size) \in 0..TotalFrames
    BY <2>1, SkippedType
  <2> QED
    BY <1>3, <2>1, <2>2 DEF OpenWith
<1>4. ASSUME NEW w \in Worker, WriteCount(w) PROVE JobsTyped' /\ Positions'
  <2>1. /\ params[w] \in Params /\ params[w].size \in Nat /\ index[w] + 1 \in 0..TotalFrames
        /\ Skipped(index[w] + 1, params[w].size) = Smaller(pos[w] + params[w].size, TotalFrames)
    BY <1>4, RunningJob, ParamsTyped DEF WriteCount
  <2>2. Skipped(index[w] + 1, params[w].size) \in 0..TotalFrames
    <3>1. index[w] + 1 \in Nat
      BY <2>1
    <3> QED
      BY <2>1, <3>1, SkippedType
  <2> QED
    BY <1>4, <2>1, <2>2 DEF WriteCount
<1>5. ASSUME NEW w \in Worker,
             \/ Create(w) \/ WriteHeader(w) \/ Reject(w) \/ SetSize(w) \/ SetRate(w) \/ Decode(w)
             \/ Extend(w) \/ WriteRecord(w) \/ Finish(w) \/ Abort(w)
      PROVE  JobsTyped' /\ Positions'
  <2>1. CASE Create(w) \/ WriteHeader(w) \/ Reject(w)
    BY <2>1 DEF Create, WriteHeader, Reject
  <2>2. CASE SetSize(w) \/ SetRate(w) \/ Extend(w)
    BY <2>2 DEF SetSize, SetRate, Extend
  <2>3. CASE Decode(w) \/ WriteRecord(w)
    BY <2>3 DEF Decode, WriteRecord
  <2>4. CASE Finish(w) \/ Abort(w)
    BY <2>4 DEF Finish, Abort
  <2> QED
    BY <1>5, <2>1, <2>2, <2>3, <2>4
<1>6. CASE Crash
  BY <1>6 DEF Crash
<1> QED
  BY <1>1, <1>2, <1>3, <1>4, <1>5, <1>6 DEF Next, Work, Resume, SetUp, OpenReader

LEMMA HistoryTypes ==
  ASSUME TypeOK, Next
  PROVE  HistoryTyped'
<1> USE WaveformAssumption DEF TypeOK, HistoryTyped, FileTyped, historyVars
<1>1. CASE UNCHANGED historyVars
  BY <1>1
<1>2. ASSUME NEW w \in Worker, NEW p \in Params, Run(w, p) PROVE HistoryTyped'
  BY <1>2 DEF Run
<1>3. ASSUME NEW w \in Worker, Abort(w) PROVE HistoryTyped'
  BY <1>3 DEF Abort
<1>4. CASE OpenReader \/ Crash
  BY <1>4 DEF OpenReader, Crash
<1> QED
  BY <1>1, <1>2, <1>3, <1>4
     DEF Next, Work, Create, WriteHeader, Resume, SetUp, OpenWith, Reject, SetSize, SetRate,
         Decode, Extend, WriteRecord, WriteCount, Finish
-----------------------------------------------------------------------------
(* No resume shifts the audio. *)

LEMMA ShiftedStep ==
  ASSUME TypeOK, Positions, NeverShifted, Next
  PROVE  NeverShifted'
<1> USE DEF TypeOK, NeverShifted
<1>1. CASE UNCHANGED records
  BY <1>1
<1>2. ASSUME NEW w \in Worker, Create(w) PROVE NeverShifted'
  BY <1>2 DEF Create
<1>3. ASSUME NEW w \in Worker, Extend(w) PROVE NeverShifted'
  <2> DEFINE n == index[w] + 1
  <2>1. n \in Nat /\ Len(records) \in Nat
    BY DEF JobsTyped
  <2>2. records' = Padded(n)
    BY <1>3 DEF Extend
  <2> HIDE DEF n
  <2>3. /\ Len(records') = n
        /\ \A i \in 1..n : records'[i] = IF i <= Len(records) THEN records[i] ELSE Zeros
    BY <2>1, <2>2, PaddedRecords
  <2> QED
    BY <2>1, <2>3
<1>4. ASSUME NEW w \in Worker, WriteRecord(w) PROVE NeverShifted'
  <2>1. params[w] \in Params /\ pos[w] = index[w] * params[w].size /\ index[w] \in Nat
    BY <1>4, RunningJob DEF WriteRecord, Goto
  <2>2. params[w].size \in Size
    BY <2>1, ParamsTyped
  <2>3. FramesFrom(pos[w], params[w].size) = Peaks(index[w] + 1 - 1, params[w].size)
    BY <2>1 DEF Peaks
  <2>4. Len(records) \in Nat
    OBVIOUS
  <2> QED
    BY <1>4, <2>1, <2>2, <2>3, <2>4, WrittenRecords
<1> QED
  BY <1>1, <1>2, <1>3, <1>4
     DEF Next, Work, Run, Resume, SetUp, OpenWith, Reject, Decode, Abort, OpenReader, Crash,
         WriteHeader, SetSize, SetRate, WriteCount, Finish, fileVars

-----------------------------------------------------------------------------
(* The invariant. *)

Sound == TypeOK /\ Positions /\ NeverShifted

LEMMA SoundStep == Sound /\ [Next]_vars => Sound'
<1>1. CASE UNCHANGED vars
  BY <1>1 DEF vars, fileVars, jobVars, historyVars, Sound, TypeOK, FlagsTyped, FileTyped,
              JobsTyped, HistoryTyped, Positions, NeverShifted
<1> QED
  BY <1>1, FlagTypes, FileTypes, RecordTypes, JobTypes, HistoryTypes, ShiftedStep
     DEF Sound, TypeOK

LEMMA AlwaysSound == Spec => []Sound
<1>1. Init => Sound
  BY TypesInit DEF Sound
<1> QED
  BY <1>1, SoundStep, PTL DEF Spec

(* Counts, indexes and the decoder's position stay within the audio. *)
THEOREM WaveformTypeCorrect == Spec => []TypeOK
<1>1. Sound => TypeOK
  BY DEF Sound
<1> QED
  BY <1>1, AlwaysSound, PTL

(* Whatever jobs and crashes came before, each record holds the peaks of its
   own chunk: a resumed job never shifts the audio. *)
THEOREM ShiftCorrect == Spec => []NeverShifted
<1>1. Sound => NeverShifted
  BY DEF Sound
<1> QED
  BY <1>1, AlwaysSound, PTL
-----------------------------------------------------------------------------
(***************************************************************************)
(* Theorems about a .peaks file that no two jobs have had open at once:    *)
(* what has been counted stays, is registered only when it is all, and can *)
(* be resumed.                                                             *)
(***************************************************************************)

Alone == \A v, w \in Worker : v # w => pc[v] = "idle" \/ pc[w] = "idle"

\* What the job of w knows of the file before each of its calls.
Stage(w) ==
  /\ pc[w] = "create" => ~exists
  /\ pc[w] = "header" => exists /\ chunkCount = 0 /\ chunkSize = 0
  /\ pc[w] = "size" => Fresh
  /\ pc[w] = "rate" => chunkCount = 0 /\ chunkSize = params[w].size
  /\ pc[w] \in {"size", "rate", "decode", "extend", "record", "count"}
       => exists /\ magic /\ index[w] = chunkCount
  /\ pc[w] \in {"decode", "extend", "record", "count"} => HasParams(params[w])
  /\ pc[w] \in {"record", "count"} => index[w] < Len(records)
  /\ pc[w] = "count" => records[index[w] + 1] = Peaks(index[w], params[w].size)

NoFile == ~exists => ~magic /\ chunkCount = 0 /\ chunkSize = 0

Written ==
  /\ chunkCount <= Len(records)
  /\ \A n \in 1..chunkCount : records[n] = Peaks(n - 1, chunkSize)

Covered == registered => TotalFrames <= chunkCount * chunkSize

Usable ==
  ~torn /\ (\A w \in Worker : pc[w] \notin {"header", "rate"}) => CanResume

\* What holds of the file whatever the jobs are at.
FileSound == NoFile /\ Written /\ readable <= chunkCount /\ Covered

Exclusive == Alone /\ (\A w \in Worker : Stage(w)) /\ FileSound /\ Usable

\* While one job has the file, the others are idle before and after its step.
LEMMA OthersIdle ==
  ASSUME TypeOK, Exclusive, NEW w \in Worker, NEW s,
         pc[w] # "idle", pc' = [pc EXCEPT ![w] = s]
  PROVE  /\ pc'[w] = s /\ Alone'
         /\ \A v \in Worker \ {w} : pc[v] = "idle" /\ pc'[v] = "idle"
  BY DEF TypeOK, JobsTyped, Exclusive, Alone

LEMMA IdleStage ==
  ASSUME NEW v \in Worker, pc'[v] = "idle"
  PROVE  Stage(v)'
  BY DEF Stage
-----------------------------------------------------------------------------
(* What each step makes of the file. *)

LEMMA RunKeeps ==
  ASSUME Sound, Exclusive, NEW w \in Worker, NEW p \in Params, Run(w, p), ~overlapped'
  PROVE  Exclusive'
<1> USE DEF Exclusive
<1>1. /\ \A v \in Worker : pc[v] = "idle"
      /\ pc' = [pc EXCEPT ![w] = IF exists THEN "open" ELSE "create"]
      /\ UNCHANGED <<fileVars, registered, readable, torn>>
  BY DEF Run, Goto
<1>2. \A v \in Worker : pc'[v] = IF v # w THEN "idle" ELSE IF exists THEN "open" ELSE "create"
  BY <1>1 DEF Sound, TypeOK, JobsTyped
<1>3. \A v \in Worker : Stage(v)'
  BY <1>1, <1>2 DEF Stage, fileVars
<1>4. Alone'
  BY <1>2 DEF Alone
<1>5. FileSound'
  BY <1>1 DEF FileSound, NoFile, Written, Covered, fileVars
<1>6. Usable'
  BY <1>1 DEF Usable, CanResume, Fresh, fileVars
<1> QED
  BY <1>3, <1>4, <1>5, <1>6

LEMMA CreateKeeps ==
  ASSUME Sound, Exclusive, NEW w \in Worker, Create(w)
  PROVE  FileSound' /\ Usable' /\ pc' = [pc EXCEPT ![w] = "header"] /\ Stage(w)'
<1> USE WaveformAssumption DEF Create, Goto, historyVars
<1>1. ~exists /\ chunkCount = 0 /\ chunkSize = 0 /\ readable = 0
  BY DEF Exclusive, Stage, FileSound, NoFile, Sound, TypeOK, HistoryTyped
<1>2. pc'[w] = "header"
  BY DEF Sound, TypeOK, JobsTyped
<1>3. FileSound'
  BY <1>1 DEF Exclusive, FileSound, NoFile, Written, Covered
<1> QED
  BY <1>2, <1>3 DEF Usable, Stage

LEMMA WriteHeaderKeeps ==
  ASSUME Sound, Exclusive, NEW w \in Worker, WriteHeader(w)
  PROVE  FileSound' /\ Usable' /\ pc' = [pc EXCEPT ![w] = "open"] /\ Stage(w)'
<1> USE DEF WriteHeader, Goto, historyVars
<1>1. exists /\ chunkCount = 0 /\ chunkSize = 0
  BY DEF Exclusive, Stage
<1>2. pc'[w] = "open"
  BY DEF Sound, TypeOK, JobsTyped
<1>3. FileSound'
  BY <1>1 DEF Exclusive, FileSound, NoFile, Written, Covered
<1>4. Usable'
  <2>1. sampleRate' = 0
    OBVIOUS
  <2> QED
    BY <1>1, <2>1 DEF Usable, CanResume, Fresh
<1> QED
  BY <1>2, <1>3, <1>4 DEF Stage

LEMMA OpenKeeps ==
  ASSUME Sound, Exclusive, NEW w \in Worker, Resume(w) \/ SetUp(w)
  PROVE  FileSound' /\ Usable' /\ pc' = [pc EXCEPT ![w] = pc'[w]] /\ Stage(w)'
<1>1. /\ pc[w] = "open" /\ magic
      /\ pc' = [pc EXCEPT ![w] = pc'[w]]
      /\ pc'[w] = IF HasParams(params[w]) THEN "decode" ELSE "size"
      /\ HasParams(params[w]) \/ Fresh
  BY DEF Sound, TypeOK, JobsTyped, Resume, SetUp, OpenWith, Goto
<1>2. /\ UNCHANGED <<exists, magic, chunkSize, sampleRate, chunkCount, records, registered>>
      /\ UNCHANGED <<params, readable, torn>>
      /\ index' = [index EXCEPT ![w] = chunkCount]
  BY DEF Resume, SetUp, OpenWith, fileVars, historyVars
<1>3. exists /\ index'[w] = chunkCount
  BY <1>1, <1>2 DEF Exclusive, FileSound, NoFile, Sound, TypeOK, JobsTyped
<1>4. FileSound'
  BY <1>2 DEF Exclusive, FileSound, NoFile, Written, Covered
<1>5. Usable'
  <2>1. HasParams(params[w]) => params[w] = [size |-> chunkSize, rate |-> sampleRate]
    BY <1>1, RunningJob, ParamsTyped DEF Sound, HasParams
  <2>2. params[w] \in Params
    BY <1>1, RunningJob DEF Sound
  <2>3. CanResume
    BY <1>1, <2>1, <2>2 DEF CanResume
  <2>4. CanResume'
    BY <1>2, <2>3 DEF CanResume, Fresh
  <2> QED
    BY <2>4 DEF Usable
<1>6. (HasParams(params[w]) => HasParams(params[w])') /\ (Fresh => Fresh')
  BY <1>2 DEF HasParams, Fresh
<1> QED
  BY <1>1, <1>2, <1>3, <1>4, <1>5, <1>6 DEF Stage

LEMMA SetSizeKeeps ==
  ASSUME Sound, Exclusive, NEW w \in Worker, SetSize(w)
  PROVE  FileSound' /\ Usable' /\ pc' = [pc EXCEPT ![w] = "rate"] /\ Stage(w)'
<1> USE DEF SetSize, Goto, historyVars
<1>1. pc'[w] = "rate"
  BY DEF Sound, TypeOK, JobsTyped
<1>2. exists /\ magic /\ chunkCount = 0 /\ index[w] = 0
  BY DEF Exclusive, Stage, Fresh
<1>3. params[w] \in Params /\ params[w].size \in Nat /\ TotalFrames \in Nat /\ chunkSize \in Nat
  BY RunningJob, ParamsTyped, WaveformAssumption DEF Sound, TypeOK, FileTyped
<1>4. FileSound'
  BY <1>2, <1>3 DEF Exclusive, FileSound, NoFile, Written, Covered
<1> QED
  BY <1>1, <1>2, <1>4 DEF Stage, Usable

LEMMA SetRateKeeps ==
  ASSUME Sound, Exclusive, NEW w \in Worker, SetRate(w)
  PROVE  FileSound' /\ Usable' /\ pc' = [pc EXCEPT ![w] = "decode"] /\ Stage(w)'
<1> USE DEF SetRate, Goto, historyVars
<1>1. pc'[w] = "decode"
  BY DEF Sound, TypeOK, JobsTyped
<1>2. exists /\ magic /\ chunkSize = params[w].size /\ index[w] = chunkCount
  BY DEF Exclusive, Stage
<1>3. params[w] \in Params /\ params[w] = [size |-> params[w].size, rate |-> params[w].rate]
  BY RunningJob, ParamsTyped DEF Sound
<1>4. FileSound'
  BY <1>2 DEF Exclusive, FileSound, NoFile, Written, Covered
<1>5. Usable'
  BY <1>2, <1>3 DEF Usable, CanResume
<1> QED
  BY <1>1, <1>2, <1>4, <1>5 DEF Stage, HasParams

\* Once its parameters are set a job can always be resumed.
LEMMA UsableStays ==
  ASSUME Sound, NEW w \in Worker, HasParams(params[w]), pc[w] # "idle", magic,
         UNCHANGED <<magic, chunkSize, sampleRate>>
  PROVE  Usable'
<1>1. params[w] \in Params /\ params[w] = [size |-> params[w].size, rate |-> params[w].rate]
  BY RunningJob, ParamsTyped DEF Sound
<1> QED
  BY <1>1 DEF Usable, CanResume, HasParams

LEMMA DecodeKeeps ==
  ASSUME Sound, Exclusive, NEW w \in Worker, Decode(w)
  PROVE  FileSound' /\ Usable' /\ pc' = [pc EXCEPT ![w] = pc'[w]] /\ Stage(w)'
<1> USE DEF Decode, Goto, historyVars, fileVars
<1>1. /\ pc' = [pc EXCEPT ![w] = pc'[w]]
      /\ pc'[w] = IF Len(records) <= index[w] THEN "extend" ELSE "record"
  BY DEF Sound, TypeOK, JobsTyped
<1>2. exists /\ magic /\ index[w] = chunkCount /\ HasParams(params[w])
  BY DEF Exclusive, Stage
<1>3. FileSound'
  BY DEF Exclusive, FileSound, NoFile, Written, Covered
<1>4. Usable'
  BY <1>2, UsableStays
<1>5. Len(records) \in Nat /\ index[w] \in Nat
  BY DEF Sound, TypeOK, JobsTyped
<1> QED
  BY <1>1, <1>2, <1>3, <1>4, <1>5 DEF Stage, HasParams

LEMMA ExtendKeeps ==
  ASSUME Sound, Exclusive, NEW w \in Worker, Extend(w)
  PROVE  FileSound' /\ Usable' /\ pc' = [pc EXCEPT ![w] = "record"] /\ Stage(w)'
<1> DEFINE c == chunkCount + 1
<1>1. pc'[w] = "record" /\ pc' = [pc EXCEPT ![w] = "record"]
  BY DEF Sound, TypeOK, JobsTyped, Extend, Goto
<1>2. exists /\ magic /\ index[w] = chunkCount /\ HasParams(params[w])
  BY DEF Exclusive, Stage, Extend, Goto
<1>3. c \in Nat /\ chunkCount \in Nat /\ records' = Padded(c)
  BY <1>2, WaveformAssumption DEF Sound, TypeOK, FileTyped, Extend
<1>4. /\ Len(records') = c /\ Len(records) \in Nat
      /\ \A i \in 1..c : records'[i] = IF i <= Len(records) THEN records[i] ELSE Zeros
  <2> HIDE DEF c
  <2> QED
    BY <1>3, PaddedRecords DEF Sound, TypeOK
<1>5. Written'
  BY <1>3, <1>4 DEF Extend, Exclusive, FileSound, Written
<1>6. FileSound'
  BY <1>5 DEF Extend, Exclusive, FileSound, NoFile, Covered, historyVars
<1>7. Usable'
  BY <1>2, UsableStays DEF Extend, Goto
<1>8. index'[w] < Len(records')
  BY <1>2, <1>3, <1>4 DEF Extend
<1> QED
  BY <1>1, <1>2, <1>6, <1>7, <1>8 DEF Stage, HasParams, Extend

LEMMA WriteRecordKeeps ==
  ASSUME Sound, Exclusive, NEW w \in Worker, WriteRecord(w)
  PROVE  FileSound' /\ Usable' /\ pc' = [pc EXCEPT ![w] = "count"] /\ Stage(w)'
<1>1. pc'[w] = "count" /\ pc' = [pc EXCEPT ![w] = "count"]
  BY DEF Sound, TypeOK, JobsTyped, WriteRecord, Goto
<1>2. /\ exists /\ magic /\ index[w] = chunkCount /\ HasParams(params[w])
      /\ index[w] < Len(records) /\ chunkCount \in Nat /\ Len(records) \in Nat
  BY WaveformAssumption DEF Exclusive, Stage, WriteRecord, Goto, Sound, TypeOK, FileTyped
<1>3. /\ Len(records') = Len(records)
      /\ \A i \in 1..chunkCount : records'[i] = records[i]
      /\ records'[index[w] + 1] = FramesFrom(pos[w], params[w].size)
  BY <1>2, WrittenRecords DEF Sound
<1>4. FramesFrom(pos[w], params[w].size) = Peaks(index[w], params[w].size)
  BY RunningJob DEF Sound, WriteRecord, Goto, Peaks
<1>5. Written'
  BY <1>2, <1>3 DEF WriteRecord, Exclusive, FileSound, Written
<1>6. FileSound'
  BY <1>5 DEF WriteRecord, Exclusive, FileSound, NoFile, Covered, historyVars
<1>7. Usable'
  BY <1>2, UsableStays DEF WriteRecord, Goto
<1>8. Peaks(index[w], params[w].size)' = Peaks(index[w], params[w].size)
  BY DEF Peaks, FramesFrom, WriteRecord
<1> QED
  BY <1>1, <1>2, <1>3, <1>4, <1>6, <1>7, <1>8 DEF Stage, HasParams, WriteRecord

LEMMA WriteCountKeeps ==
  ASSUME Sound, Exclusive, NEW w \in Worker, WriteCount(w)
  PROVE  FileSound' /\ Usable' /\ pc' = [pc EXCEPT ![w] = "decode"] /\ Stage(w)'
<1>1. pc'[w] = "decode" /\ pc' = [pc EXCEPT ![w] = "decode"] /\ pc[w] = "count"
  BY DEF Sound, TypeOK, JobsTyped, WriteCount, Goto
<1>2. /\ exists /\ magic /\ index[w] = chunkCount /\ HasParams(params[w])
      /\ index[w] < Len(records) /\ records[index[w] + 1] = Peaks(index[w], params[w].size)
  BY <1>1 DEF Exclusive, Stage
<1>3. /\ chunkCount \in Nat /\ chunkSize \in Nat /\ TotalFrames \in Nat /\ readable \in Nat
      /\ Len(records) \in Nat
  BY WaveformAssumption DEF Sound, TypeOK, FileTyped, HistoryTyped
<1>4. /\ UNCHANGED <<exists, magic, chunkSize, sampleRate, records, registered, params>>
      /\ readable' = readable /\ chunkCount' = chunkCount + 1 /\ index'[w] = index[w] + 1
  BY <1>2 DEF WriteCount, historyVars, Sound, TypeOK, JobsTyped
<1>5. Written'
  <2>1. \A n \in 1..chunkCount + 1 : records[n] = Peaks(n - 1, chunkSize)
    BY <1>2, <1>3 DEF Exclusive, FileSound, Written, HasParams
  <2> QED
    BY <1>2, <1>3, <1>4, <2>1 DEF Written, Peaks, FramesFrom
<1>6. Covered'
  <2>1. /\ chunkCount * chunkSize \in Nat
        /\ (chunkCount + 1) * chunkSize = chunkCount * chunkSize + chunkSize
    BY <1>3
  <2> QED
    BY <1>3, <1>4, <2>1 DEF Exclusive, FileSound, Covered
<1>7. FileSound'
  BY <1>2, <1>3, <1>4, <1>5, <1>6 DEF Exclusive, FileSound, NoFile
<1>8. Usable'
  BY <1>1, <1>2, <1>4, UsableStays
<1> QED
  BY <1>1, <1>2, <1>4, <1>7, <1>8 DEF Stage, HasParams

LEMMA FinishKeeps ==
  ASSUME Sound, Exclusive, NEW w \in Worker, Finish(w)
  PROVE  FileSound' /\ Usable' /\ pc' = [pc EXCEPT ![w] = "idle"]
<1>1. pc[w] = "decode" /\ pos[w] >= TotalFrames /\ pc' = [pc EXCEPT ![w] = "idle"]
  BY DEF Finish, Goto
<1>2. magic /\ index[w] = chunkCount /\ HasParams(params[w])
  BY <1>1 DEF Exclusive, Stage
<1>3. /\ chunkCount \in Nat /\ chunkSize \in Nat /\ TotalFrames \in Nat
      /\ pos[w] = Skipped(chunkCount, chunkSize)
  BY <1>1, <1>2, WaveformAssumption DEF Sound, TypeOK, FileTyped, Positions, HasParams
<1>4. TotalFrames <= chunkCount * chunkSize
  <2>1. chunkCount * chunkSize \in Nat
    BY <1>3
  <2> QED
    BY <1>1, <1>3, <2>1 DEF Skipped, Smaller
<1>5. FileSound'
  BY <1>4 DEF Finish, fileVars, historyVars, Exclusive, FileSound, NoFile, Written, Covered
<1>6. Usable'
  BY <1>1, <1>2, UsableStays DEF Finish, fileVars
<1> QED
  BY <1>1, <1>5, <1>6

LEMMA RejectKeeps ==
  ASSUME Sound, Exclusive, NEW w \in Worker, Reject(w)
  PROVE  FileSound' /\ Usable' /\ pc' = [pc EXCEPT ![w] = "idle"]
<1>1. pc[w] = "open" /\ pc' = [pc EXCEPT ![w] = "idle"] /\ UNCHANGED <<fileVars, torn>>
  BY DEF Reject, Goto, historyVars
<1>2. Alone /\ \A v \in Worker : pc[v] \notin {"header", "rate"}
  BY <1>1 DEF Exclusive, Alone
<1>3. Usable'
  BY <1>1, <1>2 DEF Exclusive, Usable, CanResume, Fresh, fileVars
<1>4. FileSound'
  BY DEF Reject, fileVars, historyVars, Exclusive, FileSound, NoFile, Written, Covered
<1> QED
  BY <1>1, <1>3, <1>4

LEMMA AbortKeeps ==
  ASSUME Sound, Exclusive, NEW w \in Worker, Abort(w)
  PROVE  FileSound' /\ Usable' /\ pc' = [pc EXCEPT ![w] = "idle"]
<1>1. pc[w] # "idle" /\ pc' = [pc EXCEPT ![w] = "idle"] /\ UNCHANGED fileVars
  BY DEF Abort
<1>2. \A v \in Worker \ {w} : pc[v] = "idle"
  BY <1>1 DEF Exclusive, Alone
<1>3. ~torn' => ~torn /\ pc[w] \notin {"header", "rate"}
  BY DEF Abort, TearsHeader
<1>4. Usable'
  BY <1>1, <1>2, <1>3 DEF Exclusive, Usable, CanResume, Fresh, fileVars
<1>5. FileSound'
  BY DEF Abort, fileVars, Exclusive, FileSound, NoFile, Written, Covered
<1> QED
  BY <1>1, <1>4, <1>5

LEMMA WorkKeeps ==
  ASSUME Sound, Exclusive, NEW w \in Worker, Work(w) \/ Abort(w)
  PROVE  Exclusive'
<1>1. pc[w] # "idle"
  BY DEF Work, Create, WriteHeader, Resume, SetUp, OpenWith, Reject, SetSize, SetRate, Decode,
         Extend, WriteRecord, WriteCount, Finish, Abort, Goto
<1>2. CASE Finish(w) \/ Reject(w) \/ Abort(w)
  <2>1. FileSound' /\ Usable' /\ pc' = [pc EXCEPT ![w] = "idle"]
    BY <1>2, FinishKeeps, RejectKeeps, AbortKeeps
  <2>2. Alone' /\ \A v \in Worker : pc'[v] = "idle"
    BY <1>1, <2>1, OthersIdle DEF Sound
  <2> QED
    BY <2>1, <2>2, IdleStage DEF Exclusive
<1>3. CASE ~(Finish(w) \/ Reject(w) \/ Abort(w))
  <2> DEFINE s == pc'[w]
  <2>1. FileSound' /\ Usable' /\ Stage(w)'
    BY <1>3, CreateKeeps, WriteHeaderKeeps, OpenKeeps, SetSizeKeeps, SetRateKeeps, DecodeKeeps,
       ExtendKeeps, WriteRecordKeeps, WriteCountKeeps DEF Work
  <2>2. pc' = [pc EXCEPT ![w] = s]
    BY <1>3 DEF Work, Create, WriteHeader, Resume, SetUp, OpenWith, SetSize, SetRate, Decode,
                Extend, WriteRecord, WriteCount, Goto, Sound, TypeOK, JobsTyped
  <2> HIDE DEF s
  <2>3. Alone' /\ \A v \in Worker \ {w} : pc'[v] = "idle"
    BY <1>1, <2>2, OthersIdle DEF Sound
  <2> QED
    BY <2>1, <2>3, IdleStage DEF Exclusive
<1> QED
  BY <1>2, <1>3

LEMMA ReaderKeeps ==
  ASSUME Sound, Exclusive, OpenReader
  PROVE  Exclusive'
<1>1. UNCHANGED <<fileVars, jobVars, registered, torn>> /\ readable' = chunkCount
  BY DEF OpenReader
<1>2. chunkCount \in Nat
  BY WaveformAssumption DEF Sound, TypeOK, FileTyped
<1>3. FileSound'
  BY <1>1, <1>2 DEF fileVars, Exclusive, FileSound, NoFile, Written, Covered
<1> QED
  BY <1>1, <1>3
     DEF fileVars, jobVars, Exclusive, Alone, Stage, Usable, CanResume, Fresh, HasParams

LEMMA CrashKeeps ==
  ASSUME Sound, Exclusive, Crash
  PROVE  Exclusive'
<1>1. UNCHANGED <<fileVars, registered>> /\ readable' = 0 /\ pc' = [w \in Worker |-> "idle"]
  BY DEF Crash
<1>2. chunkCount \in Nat /\ \A w \in Worker : pc'[w] = "idle"
  BY <1>1, WaveformAssumption DEF Sound, TypeOK, FileTyped
<1>3. ~torn' => ~torn /\ \A w \in Worker : pc[w] \notin {"header", "rate"}
  BY DEF Crash, TearsHeader
<1>4. Usable'
  BY <1>1, <1>3 DEF Exclusive, Usable, CanResume, Fresh, fileVars
<1>5. FileSound'
  BY <1>1, <1>2 DEF fileVars, Exclusive, FileSound, NoFile, Written, Covered
<1> QED
  BY <1>2, <1>4, <1>5, IdleStage DEF Exclusive, Alone
-----------------------------------------------------------------------------
(* The invariant. *)

Resumed == Sound /\ (~overlapped => Exclusive)

LEMMA ResumedInit == Init => Resumed
<1> SUFFICES ASSUME Init PROVE Resumed
  OBVIOUS
<1>1. Sound
  BY TypesInit DEF Sound
<1>2. FileSound
  BY DEF Init, FileSound, NoFile, Written, Covered
<1>3. Alone /\ Usable /\ \A w \in Worker : Stage(w)
  BY DEF Init, Alone, Usable, CanResume, Stage
<1> QED
  BY <1>1, <1>2, <1>3 DEF Resumed, Exclusive

LEMMA ResumedStep == Resumed /\ [Next]_vars => Resumed'
<1> SUFFICES ASSUME Resumed, [Next]_vars PROVE Resumed'
  OBVIOUS
<1>1. Sound'
  BY SoundStep DEF Resumed
<1>2. CASE UNCHANGED vars
  BY <1>1, <1>2
     DEF vars, fileVars, jobVars, historyVars, Resumed, Exclusive, Alone, Stage, FileSound,
         NoFile, Written, Covered, Usable, CanResume, Fresh, HasParams
<1>3. ASSUME Next, ~overlapped' PROVE Exclusive'
  <2>1. ~overlapped
    BY <1>3 DEF Resumed, Sound, TypeOK, FlagsTyped, Next, Work, Create, WriteHeader, Resume,
                SetUp, OpenWith, Reject, SetSize, SetRate, Decode, Extend, WriteRecord,
                WriteCount, Finish, Abort, Run, OpenReader, Crash, historyVars
  <2>2. Sound /\ Exclusive
    BY <2>1 DEF Resumed
  <2> QED
    BY <1>3, <2>2, RunKeeps, WorkKeeps, ReaderKeeps, CrashKeeps DEF Next
<1> QED
  BY <1>1, <1>2, <1>3 DEF Resumed

LEMMA AlwaysResumed == Spec => []Resumed
  BY ResumedInit, ResumedStep, PTL DEF Spec
-----------------------------------------------------------------------------
(* The theorems: as long as no two jobs have had the file open at once. *)

(* What chunk_count counts is there, computed with the parameters of the
   header, at every step of any number of jobs and crashes. *)
THEOREM CountCorrect == Spec => []CountedIsWritten
<1>1. Resumed => CountedIsWritten
  BY DEF Resumed, Exclusive, FileSound, Written, CountedIsWritten
<1> QED
  BY <1>1, AlwaysResumed, PTL

(* A reader finds peaks under each chunk it knows of, whatever jobs do to the
   file after it has been opened. *)
THEOREM ReaderCorrect == Spec => []ReaderFindsPeaks
<1>1. Resumed => ReaderFindsPeaks
  <2> SUFFICES ASSUME Resumed, ~overlapped PROVE ReaderFindsPeaks
    BY DEF ReaderFindsPeaks
  <2>1. Written /\ readable <= chunkCount
    BY DEF Resumed, Exclusive, FileSound
  <2>2. readable \in Nat /\ chunkCount \in Nat /\ Len(records) \in Nat
    BY WaveformAssumption DEF Resumed, Sound, TypeOK, FileTyped, HistoryTyped
  <2> QED
    BY <2>1, <2>2 DEF Written, ReaderFindsPeaks
<1> QED
  BY <1>1, AlwaysResumed, PTL

(* What an interrupted job leaves can be resumed, unless a job ended between
   two writes of the header. *)
THEOREM ResumeCorrect == Spec => []ResumableUnlessTorn
<1>1. Resumed => ResumableUnlessTorn
  BY DEF Resumed, Exclusive, Usable, ResumableUnlessTorn
<1> QED
  BY <1>1, AlwaysResumed, PTL

\* The chunk a frame belongs to.
LEMMA ChunkOfFrame ==
  ASSUME NEW f \in Nat, NEW size \in Nat \ {0}, NEW c \in Nat, f < c * size
  PROVE  \E n \in 1..c : (n - 1) * size <= f /\ f < (n - 1) * size + size
<1> DEFINE q == f \div size
<1>1. q \in Nat /\ q * size <= f /\ f < q * size + size
  OBVIOUS
<1>2. q < c
  <2> HIDE DEF q
  <2> SUFFICES ASSUME c <= q PROVE FALSE
    BY <1>1
  <2>1. c * size <= q * size
    BY <1>1
  <2> QED
    BY <1>1, <2>1
<1> HIDE DEF q
<1> DEFINE n == q + 1
<1>3. n \in 1..c /\ n - 1 = q
  BY <1>1, <1>2
<1> HIDE DEF n
<1>4. (n - 1) * size <= f /\ f < (n - 1) * size + size
  BY <1>1, <1>3
<1> QED
  BY <1>3, <1>4

(* The database lists only caches that cover the whole audio. *)
THEOREM RegisteredCorrect == Spec => []RegisteredIsComplete
<1>1. Resumed => RegisteredIsComplete
  <2> SUFFICES ASSUME Resumed, registered, ~overlapped
               PROVE  UNION {records[n] : n \in 1..chunkCount} = 0..TotalFrames - 1
    BY DEF RegisteredIsComplete
  <2>1. /\ TotalFrames <= chunkCount * chunkSize
        /\ \A n \in 1..chunkCount : records[n] = Peaks(n - 1, chunkSize)
    BY DEF Resumed, Exclusive, FileSound, Written, Covered
  <2>2. chunkCount \in Nat /\ chunkSize \in Nat /\ TotalFrames \in Nat
    BY WaveformAssumption DEF Resumed, Sound, TypeOK, FileTyped
  <2>3. ASSUME NEW f \in 0..TotalFrames - 1
        PROVE  \E n \in 1..chunkCount : f \in records[n]
    <3>1. f \in Nat /\ f < chunkCount * chunkSize
      <4>1. chunkCount * chunkSize \in Nat
        BY <2>2
      <4> QED
        BY <2>1, <2>2, <4>1
    <3>2. chunkSize # 0
      BY <2>2, <3>1
    <3>3. PICK n \in 1..chunkCount :
            (n - 1) * chunkSize <= f /\ f < (n - 1) * chunkSize + chunkSize
      BY <2>2, <3>1, <3>2, ChunkOfFrame
    <3> QED
      BY <2>1, <3>3 DEF Peaks, FramesFrom
  <2>4. \A n \in 1..chunkCount : records[n] \subseteq 0..TotalFrames - 1
    BY <2>1 DEF Peaks, FramesFrom
  <2> QED
    BY <2>3, <2>4
<1> QED
  BY <1>1, AlwaysResumed, PTL

\* What a step of a lone job does to the header.
LEMMA HeaderStep ==
  ASSUME Resumed, Next, ~overlapped'
  PROVE  /\ chunkCount' >= chunkCount
         /\ chunkCount > 0 => UNCHANGED <<chunkSize, sampleRate>>
<1>1. CASE UNCHANGED fileVars
  BY <1>1, WaveformAssumption DEF fileVars, Resumed, Sound, TypeOK, FileTyped
<1>2. ASSUME NEW w \in Worker, ~UNCHANGED fileVars, Work(w)
      PROVE  /\ chunkCount' >= chunkCount
             /\ chunkCount > 0 => UNCHANGED <<chunkSize, sampleRate>>
  <2>1. ~overlapped
    BY <1>2 DEF Work, Create, WriteHeader, Resume, SetUp, OpenWith, Reject, SetSize, SetRate,
                Decode, Extend, WriteRecord, WriteCount, Finish, historyVars
  <2>2. Stage(w) /\ NoFile /\ chunkCount \in Nat
    BY <2>1, WaveformAssumption DEF Resumed, Exclusive, FileSound, Sound, TypeOK, FileTyped
  <2> QED
    BY <1>2, <2>2
       DEF Stage, NoFile, Fresh, Goto, Work, Create, WriteHeader, Resume, SetUp, OpenWith, Reject,
           SetSize, SetRate, Decode, Extend, WriteRecord, WriteCount, Finish, fileVars
<1> QED
  BY <1>1, <1>2 DEF Next, Run, Abort, OpenReader, Crash

(* Neither a job nor a crash takes back progress, or changes the parameters of
   a cache that holds peaks. *)
THEOREM ProgressKept == Spec => ProgressKeptAlone
<1> DEFINE Kept == ~overlapped' =>
             /\ chunkCount' >= chunkCount
             /\ chunkCount > 0 => UNCHANGED <<chunkSize, sampleRate>>
<1>1. Resumed /\ [Next]_vars => [Kept]_vars
  BY HeaderStep
<1> QED
  BY <1>1, AlwaysResumed, PTL DEF Spec, ProgressKeptAlone
=============================================================================
