---------------------------- MODULE WaveformCache ----------------------------
(***************************************************************************)
(* The .peaks file of one asset: jobs that open it, set its parameters and *)
(* append one record for each chunk of the audio, readers that read it     *)
(* meanwhile, and a process that may end between any two of their writes.  *)
(*                                                                         *)
(* An action is one system call on the file, with the thread's own work up *)
(* to the next one.  What is written survives the process; the loss of     *)
(* unsynced writes with the machine's power is not modelled.               *)
(*                                                                         *)
(* A definition named X_Y is a mutation of X, not part of the model.       *)
(***************************************************************************)
EXTENDS Integers, Sequences

CONSTANTS
  Worker,       \* the threads that run waveform jobs of the asset
  TotalFrames,  \* the length of the audio
  Size, Rate,   \* chunk sizes and sample rates that jobs ask for
  MaxRun,       \* bound on the number of jobs run
  MaxCrash,     \* bound on the number of crashes
  Zeros         \* a record nothing has been written to

ASSUME WaveformAssumption ==
  /\ TotalFrames \in Nat
  /\ Size \subseteq Nat \ {0} /\ Rate \subseteq Nat \ {0}
  /\ MaxRun \in Nat /\ MaxCrash \in Nat

VARIABLES
  \* the file
  exists,       \* there is a file at the path
  magic,        \* its first 8 bytes are the magic
  chunkSize, sampleRate, chunkCount,  \* its header fields
  records,      \* its records: the frames each has been computed from
  registered,   \* the database has an entry of the cache
  \* the jobs
  pc,           \* the call each worker is about to make
  params,       \* the parameters of its WaveformGenerator
  index,        \* its next chunk, and its WaveformReader.chunk_count
  pos,          \* how many frames its decoder has given
  \* a reader of the process, and the history
  readable,     \* WaveformReader.chunk_count of the reader; 0 without one
  runs, crashes,
  overlapped,   \* two jobs have had the file open at the same time
  torn          \* a job has ended in the middle of writing the header

fileVars == <<exists, magic, chunkSize, sampleRate, chunkCount, records>>
jobVars == <<pc, params, index, pos>>
historyVars == <<readable, runs, crashes, overlapped, torn>>
vars == <<fileVars, registered, jobVars, historyVars>>

Params == [size : Size, rate : Rate]

Smaller(m, n) == IF m < n THEN m ELSE n

\* The frames of the chunk that begins at frame n.
FramesFrom(n, size) == {f \in 0..TotalFrames - 1 : n <= f /\ f < n + size}

Init ==
  /\ exists = FALSE /\ magic = FALSE
  /\ chunkSize = 0 /\ sampleRate = 0 /\ chunkCount = 0 /\ records = <<>>
  /\ registered = FALSE
  /\ pc = [w \in Worker |-> "idle"]
  /\ params = [w \in Worker |-> [size |-> 0, rate |-> 0]]
  /\ index = [w \in Worker |-> 0] /\ pos = [w \in Worker |-> 0]
  /\ readable = 0 /\ runs = 0 /\ crashes = 0 /\ overlapped = FALSE /\ torn = FALSE
-----------------------------------------------------------------------------
(* WaveformCache::open and ensure_params. *)

Goto(w, from, to) == pc[w] = from /\ pc' = [pc EXCEPT ![w] = to]

Run_Truncates(w, p) ==
  /\ runs < MaxRun /\ runs' = runs + 1
  /\ Goto(w, "idle", "create")
  /\ params' = [params EXCEPT ![w] = p]
  /\ index' = [index EXCEPT ![w] = 0] /\ pos' = [pos EXCEPT ![w] = 0]
  /\ overlapped' = (overlapped \/ \E v \in Worker : pc[v] # "idle")
  /\ UNCHANGED <<fileVars, registered, readable, crashes, torn>>

\* WaveformJob::execute, up to path.exists().
Run(w, p) ==
  /\ runs < MaxRun /\ runs' = runs + 1
  /\ Goto(w, "idle", IF exists THEN "open" ELSE "create")
  /\ params' = [params EXCEPT ![w] = p]
  /\ index' = [index EXCEPT ![w] = 0] /\ pos' = [pos EXCEPT ![w] = 0]
  /\ overlapped' = (overlapped \/ \E v \in Worker : pc[v] # "idle")
  /\ UNCHANGED <<fileVars, registered, readable, crashes, torn>>

\* File::create empties the file if there is one by now.
Create(w) ==
  /\ Goto(w, "create", "header")
  /\ exists' = TRUE /\ magic' = FALSE
  /\ chunkSize' = 0 /\ sampleRate' = 0 /\ chunkCount' = 0 /\ records' = <<>>
  /\ UNCHANGED <<registered, params, index, pos, historyVars>>

WriteHeader(w) ==
  /\ Goto(w, "header", "open")
  /\ magic' = TRUE
  /\ chunkSize' = 0 /\ sampleRate' = 0 /\ chunkCount' = 0
  /\ UNCHANGED <<exists, records, registered, params, index, pos, historyVars>>

HasParams(p) == chunkSize = p.size /\ sampleRate = p.rate

Fresh == chunkSize = 0 /\ sampleRate = 0 /\ chunkCount = 0

Skipped_Rounded(n, size) == n * size

\* Frames that the resume loop of generate decodes and drops: the chunks in
\* the cache, or as many as there are.
Skipped(n, size) == Smaller(n * size, TotalFrames)

OpenWith_Restarts(w, next) ==
  /\ Goto(w, "open", next)
  /\ magic
  /\ index' = [index EXCEPT ![w] = chunkCount]
  /\ pos' = [pos EXCEPT ![w] = 0]
  /\ UNCHANGED <<fileVars, registered, params, historyVars>>

\* WaveformReader::open, then the tests of ensure_params on what it has
\* read, then the resume loop.
OpenWith(w, next) ==
  /\ Goto(w, "open", next)
  /\ magic
  /\ index' = [index EXCEPT ![w] = chunkCount]
  /\ pos' = [pos EXCEPT ![w] = Skipped(chunkCount, params[w].size)]
  /\ UNCHANGED <<fileVars, registered, params, historyVars>>

Resume(w) == HasParams(params[w]) /\ OpenWith(w, "decode")

SetUp(w) == ~HasParams(params[w]) /\ Fresh /\ OpenWith(w, "size")

\* No magic, a header cut short, or other parameters.
Reject(w) ==
  /\ Goto(w, "open", "idle")
  /\ magic => ~HasParams(params[w]) /\ ~Fresh
  /\ UNCHANGED <<fileVars, registered, params, index, pos, historyVars>>

SetSize_Only(w) ==
  /\ Goto(w, "size", "decode")
  /\ chunkSize' = params[w].size
  /\ UNCHANGED <<exists, magic, sampleRate, chunkCount, records, registered, params, index,
                 pos, historyVars>>

SetSize(w) ==
  /\ Goto(w, "size", "rate")
  /\ chunkSize' = params[w].size
  /\ UNCHANGED <<exists, magic, sampleRate, chunkCount, records, registered, params, index,
                 pos, historyVars>>

SetRate(w) ==
  /\ Goto(w, "rate", "decode")
  /\ sampleRate' = params[w].rate
  /\ UNCHANGED <<exists, magic, chunkSize, chunkCount, records, registered, params, index,
                 pos, historyVars>>
-----------------------------------------------------------------------------
(* The loop of generate, and write_chunk. *)

\* The next block of frames, and the length of the file.
Decode(w) ==
  /\ pos[w] < TotalFrames
  /\ Goto(w, "decode", IF Len(records) <= index[w] THEN "extend" ELSE "record")
  /\ UNCHANGED <<fileVars, registered, params, index, pos, historyVars>>

\* The records when the file has the length of n of them.
Padded(n) == [i \in 1..n |-> IF i <= Len(records) THEN records[i] ELSE Zeros]

\* set_len: it cuts the file if it has grown since its length was read.
Extend(w) ==
  /\ Goto(w, "extend", "record")
  /\ records' = Padded(index[w] + 1)
  /\ UNCHANGED <<exists, magic, chunkSize, sampleRate, chunkCount, registered, params, index,
                 pos, historyVars>>

\* A write behind the end fills the gap with zeros.
WriteRecord(w) ==
  /\ Goto(w, "record", "count")
  /\ records' = [Padded(IF Len(records) <= index[w] THEN index[w] + 1 ELSE Len(records))
                   EXCEPT ![index[w] + 1] = FramesFrom(pos[w], params[w].size)]
  /\ UNCHANGED <<exists, magic, chunkSize, sampleRate, chunkCount, registered, params, index,
                 pos, historyVars>>

WriteCount_OneMore(w) ==
  /\ Goto(w, "count", "decode")
  /\ chunkCount' = index[w] + 2
  /\ index' = [index EXCEPT ![w] = @ + 1]
  /\ pos' = [pos EXCEPT ![w] = Smaller(@ + params[w].size, TotalFrames)]
  /\ UNCHANGED <<exists, magic, chunkSize, sampleRate, records, registered, params,
                 historyVars>>

\* set_chunk_count: generate starts at chunk_count, so each chunk is new.
WriteCount(w) ==
  /\ Goto(w, "count", "decode")
  /\ chunkCount' = index[w] + 1
  /\ index' = [index EXCEPT ![w] = @ + 1]
  /\ pos' = [pos EXCEPT ![w] = Smaller(@ + params[w].size, TotalFrames)]
  /\ UNCHANGED <<exists, magic, chunkSize, sampleRate, records, registered, params,
                 historyVars>>

Finish_AnyTime(w) ==
  /\ Goto(w, "decode", "idle")
  /\ registered' = TRUE
  /\ UNCHANGED <<fileVars, params, index, pos, historyVars>>

\* The end of the audio: finish and record_cache_entry.
Finish(w) ==
  /\ pos[w] >= TotalFrames
  /\ Goto(w, "decode", "idle")
  /\ registered' = TRUE
  /\ UNCHANGED <<fileVars, params, index, pos, historyVars>>

TearsHeader(w) == pc[w] \in {"header", "rate"}

\* The job is cancelled, the decoder or a call on the file fails.
Abort(w) ==
  /\ pc[w] # "idle"
  /\ pc' = [pc EXCEPT ![w] = "idle"]
  /\ torn' = (torn \/ TearsHeader(w))
  /\ UNCHANGED <<fileVars, registered, params, index, pos, readable, runs, crashes,
                 overlapped>>

\* WaveformJob::execute.
Work(w) ==
  \/ Create(w) \/ WriteHeader(w) \/ Resume(w) \/ SetUp(w) \/ Reject(w) \/ SetSize(w)
  \/ SetRate(w) \/ Decode(w) \/ Extend(w) \/ WriteRecord(w) \/ WriteCount(w) \/ Finish(w)
-----------------------------------------------------------------------------
(* A reader, and the end of the process. *)

\* A reader keeps the chunk_count it has found; read_chunk asks it alone.
OpenReader ==
  /\ exists /\ magic
  /\ readable # chunkCount /\ readable' = chunkCount
  /\ UNCHANGED <<fileVars, registered, jobVars, runs, crashes, overlapped, torn>>

Crash ==
  /\ crashes < MaxCrash /\ crashes' = crashes + 1
  /\ torn' = (torn \/ \E w \in Worker : TearsHeader(w))
  /\ pc' = [w \in Worker |-> "idle"]
  /\ readable' = 0
  /\ UNCHANGED <<fileVars, registered, params, index, pos, runs, overlapped>>

Next ==
  \/ \E w \in Worker : (\E p \in Params : Run(w, p)) \/ Work(w) \/ Abort(w)
  \/ OpenReader
  \/ Crash

Spec == Init /\ [][Next]_vars
=============================================================================
