------------------------- MODULE WaveformProperties -------------------------
(***************************************************************************)
(* What a .peaks file promises to the jobs that fill it and to its readers. *)
(* The file has no lock: most promises hold only while no two jobs have    *)
(* had it open at once, and some only if no header was left half written.  *)
(***************************************************************************)
EXTENDS WaveformCache, FiniteSets

Content == (SUBSET (0..TotalFrames - 1)) \cup {Zeros}

FlagsTyped ==
  /\ exists \in BOOLEAN /\ magic \in BOOLEAN /\ registered \in BOOLEAN
  /\ overlapped \in BOOLEAN /\ torn \in BOOLEAN

FileTyped ==
  /\ chunkSize \in Size \cup {0} /\ sampleRate \in Rate \cup {0}
  /\ chunkCount \in 0..TotalFrames

JobsTyped ==
  /\ pc \in [Worker -> {"idle", "create", "header", "open", "size", "rate", "decode",
                        "extend", "record", "count"}]
  /\ params \in [Worker -> Params \cup {[size |-> 0, rate |-> 0]}]
  /\ index \in [Worker -> 0..TotalFrames]
  /\ pos \in [Worker -> 0..TotalFrames]

HistoryTyped ==
  /\ readable \in 0..TotalFrames
  /\ runs \in 0..MaxRun /\ crashes \in 0..MaxCrash

(* The types of the variables; positions and counts stay within the audio. *)
TypeOK == FlagsTyped /\ FileTyped /\ records \in Seq(Content) /\ JobsTyped /\ HistoryTyped

\* The peaks of chunk i for chunks of the given size.
Peaks(i, size) == FramesFrom(i * size, size)

(* No resume shifts the audio: whatever jobs and crashes came before, a record
   holds the peaks of its own chunk, for the chunk size of some job. *)
NeverShifted ==
  \A n \in 1..Len(records) :
    records[n] = Zeros \/ \E size \in Size : records[n] = Peaks(n - 1, size)

(* waveform.rs:14-16: what chunk_count counts is there, at every step, computed
   with the parameters of the header. *)
CountedIsWritten ==
  ~overlapped =>
    /\ chunkCount <= Len(records)
    /\ \A n \in 1..chunkCount : records[n] = Peaks(n - 1, chunkSize)

(* A reader that has opened the file finds peaks under each chunk it knows
   of, whatever jobs do to the file afterwards. *)
ReaderFindsPeaks ==
  ~overlapped =>
    readable <= Len(records) /\ \A n \in 1..readable : records[n] = Peaks(n - 1, chunkSize)

(* waveform.rs:243-245, tests/waveform_cache.rs:161: neither a job nor a crash
   takes back progress, or changes the parameters of a cache that holds peaks,
   as long as no two jobs have had the file open at once. *)
ProgressKeptAlone ==
  [][~overlapped' =>
       /\ chunkCount' >= chunkCount
       /\ chunkCount > 0 => UNCHANGED <<chunkSize, sampleRate>>]_vars

(* The database lists only caches that cover the whole audio. *)
RegisteredIsComplete ==
  registered /\ ~overlapped =>
    UNION {records[n] : n \in 1..chunkCount} = 0..TotalFrames - 1

\* A job with the right parameters gets past open and ensure_params.
CanResume == exists => magic /\ (Fresh \/ [size |-> chunkSize, rate |-> sampleRate] \in Params)

(* waveform.rs:65-66: what an interrupted job leaves can be resumed, unless a
   job ended between two writes of the header. *)
ResumableUnlessTorn ==
  ~overlapped /\ ~torn /\ (\A w \in Worker : pc[w] = "idle") => CanResume
=============================================================================
