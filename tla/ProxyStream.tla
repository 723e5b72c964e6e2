----------------------------- MODULE ProxyStream -----------------------------
(***************************************************************************)
(* A video proxy being rendered: decimation to the frame rate of the       *)
(* profile, the container with its buffered writer, and the frame table    *)
(* that a reader builds from what has reached the disk.                    *)
(*                                                                         *)
(* The file is a sequence of units: two for the header, two for each       *)
(* length prefix, and as many as its size for a payload, so that it can    *)
(* end inside any of them.  Times are in ticks: the frame rate of a stream *)
(* is the duration of its frames.  Pixels and resolutions are left out.    *)
(*                                                                         *)
(* A definition named X_Y is a mutation of X, not part of the model.       *)
(***************************************************************************)
EXTENDS Integers, Sequences

CONSTANTS
  Frames,       \* frames of the source
  SourceTicks,  \* duration of each
  SizeOf,       \* size of the encoding of each, in units
  Targets,      \* frame durations that profiles ask for, 0 to keep the source's
  MaxRender,    \* bound on the renders
  MaxFault,     \* bound on failing or cancelled jobs
  MaxCrash      \* bound on the ends of the process

Frame == 0..(Frames - 1)

ASSUME ProxyStreamAssumption ==
  /\ Frames \in Nat \ {0} /\ SourceTicks \in Nat \ {0} /\ Targets \subseteq Nat
  /\ SizeOf \in [Frame -> Nat \ {0}]
  /\ MaxRender \in Nat /\ MaxFault \in Nat /\ MaxCrash \in Nat

VARIABLES
  enc,          \* the render: "idle", "encode"
  target,       \* what its profile asks for
  next,         \* index: the next source frame
  lastBucket,   \* last_bucket
  kept,         \* the source frames written, in order
  buffer,       \* the units in the BufWriter
  disk,         \* the units in the file
  present,      \* the file is there
  complete,     \* the last render on it has finished
  renders, faults, crashes

encVars == <<enc, target, next, lastBucket, kept, buffer, disk, present, complete>>
boundVars == <<renders, faults, crashes>>

HeaderLen == 2
PrefixLen == 2

Header(ticks) == << <<"head", ticks, 1>>, <<"head", ticks, 2>> >>

\* write_frame: the length of the payload and the payload.
Encoded(k) ==
  << <<"len", SizeOf[k], 1>>, <<"len", SizeOf[k], 2>> >>
    \o [n \in 1..SizeOf[k] |-> <<"pay", k, n>>]

\* The frame rate in the header is the profile's, or that of the source.
Ticks(t) == IF t = 0 THEN SourceTicks ELSE t

Init ==
  /\ enc = "idle" /\ target = 0 /\ next = 0 /\ lastBucket = -1 /\ kept = <<>>
  /\ buffer = <<>> /\ disk = <<>> /\ present = FALSE /\ complete = FALSE
  /\ renders = 0 /\ faults = 0 /\ crashes = 0
-----------------------------------------------------------------------------
(* Rendering. *)

Render_LateBucket(t) ==
  /\ enc = "idle" /\ enc' = "encode"
  /\ target' = t
  /\ next' = 0 /\ lastBucket' = 0 /\ kept' = <<>>
  /\ disk' = <<>> /\ buffer' = Header(Ticks(t))
  /\ present' = TRUE /\ complete' = FALSE

\* Writer::create empties the file; its header is buffered.
Render(t) ==
  /\ enc = "idle" /\ enc' = "encode"
  /\ target' = t
  /\ next' = 0 /\ lastBucket' = -1 /\ kept' = <<>>
  /\ disk' = <<>> /\ buffer' = Header(Ticks(t))
  /\ present' = TRUE /\ complete' = FALSE

Bucket(n) == (n * SourceTicks) \div Ticks(target)

Keeps(n) == target = 0 \/ Bucket(n) # lastBucket

EncodeFrame ==
  /\ enc = "encode" /\ next < Frames
  /\ next' = next + 1
  /\ lastBucket' = IF target = 0 THEN lastBucket ELSE Bucket(next)
  /\ kept' = IF Keeps(next) THEN Append(kept, next) ELSE kept
  /\ buffer' = IF Keeps(next) THEN buffer \o Encoded(next) ELSE buffer
  /\ UNCHANGED <<enc, target, disk, present, complete>>

\* The BufWriter writes when it is full, and a write may stop anywhere.
FlushSome ==
  /\ enc = "encode"
  /\ \E n \in 1..Len(buffer) :
       /\ disk' = disk \o SubSeq(buffer, 1, n)
       /\ buffer' = SubSeq(buffer, n + 1, Len(buffer))
  /\ UNCHANGED <<enc, target, next, lastBucket, kept, present, complete>>

\* The frame count that finish patches into the header is left out: readers
\* use it to size an allocation only.
FinishRender ==
  /\ enc = "encode" /\ next = Frames
  /\ enc' = "idle"
  /\ disk' = disk \o buffer /\ buffer' = <<>>
  /\ complete' = TRUE
  /\ UNCHANGED <<target, next, lastBucket, kept, present>>

\* The writer is dropped, which flushes it, and remove_partial removes the file.
FailRender ==
  /\ enc = "encode"
  /\ enc' = "idle" /\ disk' = <<>> /\ buffer' = <<>> /\ present' = FALSE
  /\ UNCHANGED <<target, next, lastBucket, kept, complete>>

\* The process ends: what is buffered is lost, the file stays as it is.
CutRender ==
  /\ enc' = "idle" /\ buffer' = <<>>
  /\ UNCHANGED <<target, next, lastBucket, kept, disk, present, complete>>
-----------------------------------------------------------------------------
(* Reading. *)

Table_TrustsLength(file) ==
  LET From[c \in Nat] ==
        IF c + PrefixLen > Len(file) THEN <<>>
        ELSE LET at == c + PrefixLen
                 len == file[c + 1][2]
             IN  << [at |-> at, len |-> len] >> \o From[at + len]
  IN  From[HeaderLen]

\* scan_frame_table: the frames before the first that would overrun the file.
Table(file) ==
  LET From[c \in Nat] ==
        IF c + PrefixLen > Len(file) THEN <<>>
        ELSE LET at == c + PrefixLen
                 len == file[c + 1][2]
             IN  IF len > Len(file) - at THEN <<>>
                 ELSE << [at |-> at, len |-> len] >> \o From[at + len]
  IN  From[HeaderLen]

\* decode_at: the payload can be read, and is the whole encoding of frame k.
Decodes(file, entry, k) ==
  /\ entry.at + entry.len <= Len(file)
  /\ SubSeq(file, entry.at + 1, entry.at + entry.len)
       = SubSeq(Encoded(k), PrefixLen + 1, PrefixLen + SizeOf[k])

\* seek_to, and next_frame up to decode_at: the index of the frame nearest to
\* the time, in a stream of this frame duration.
SeekIndex(time, ticks) == (2 * time + ticks) \div (2 * ticks)
=============================================================================
