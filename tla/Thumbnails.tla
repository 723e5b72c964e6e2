------------------------------ MODULE Thumbnails ------------------------------
(***************************************************************************)
(* Thumbnail jobs: create the directory, open the video, and for each      *)
(* interval boundary seek, decode and write.  The video is a movie, which  *)
(* the job reads as a whole when it opens it, or the stream of module      *)
(* ProxyStream, which may be rendered, removed or rendered again meanwhile. *)
(*                                                                         *)
(* Removal of the directory is in module Artifacts.                        *)
(*                                                                         *)
(* A definition named X_Y is a mutation of X, not part of the model.       *)
(***************************************************************************)
EXTENDS ProxyStream

CONSTANTS
  Packets,      \* packets of the movie: a frame, or -1 for one of another track
  Sync,         \* positions of those that a decoder can start at
  Intervals,    \* intervals between thumbnails, in ticks
  MaxJob        \* bound on the thumbnail jobs

FrameAt(n) == Packets[n] # -1

ASSUME ThumbnailsAssumption ==
  /\ Packets \in Seq(Frame \cup {-1})
  /\ \A k \in Frame : \E n \in 1..Len(Packets) : Packets[n] = k
  /\ \A m, n \in 1..Len(Packets) : m < n /\ FrameAt(m) /\ FrameAt(n) => Packets[m] < Packets[n]
  /\ \A n \in Sync : n \in 1..Len(Packets) /\ FrameAt(n)
  /\ \E n \in Sync : Packets[n] = 0
  /\ Intervals \subseteq Nat \ {0} /\ MaxJob \in Nat

VARIABLES
  movie,        \* the video is a movie; it is the stream otherwise
  meta,         \* interval in the meta file, 0 if there is none
  thumbs,       \* thumbs[i]: the source frame in NNNNNN.jpg, for the i that have one
  job,          \* the job: "idle", "open", "scan", "seek", "write"
  interval,     \* its interval
  ticks,        \* frame duration in the header it has read
  table,        \* its frame table
  index,        \* i
  image,        \* the frame decoded
  lost,         \* the file it has opened is no more at the path
  orphan,       \* and holds these units
  jobs,
  covered,      \* length of the stream that the last finished job has gone through
  mixed,        \* the directory has had two intervals
  rewritten     \* the stream was rendered again after the job had opened it

jobVars == <<job, interval, ticks, table, index, image>>
readVars == <<lost, orphan>>
dirVars == <<meta, thumbs>>
historyVars == <<covered, mixed, rewritten>>
vars == <<movie, encVars, boundVars, dirVars, jobVars, readVars, jobs, historyVars>>

InitAll ==
  /\ Init
  /\ movie \in BOOLEAN
  /\ meta = 0 /\ thumbs = <<>>
  /\ job = "idle" /\ interval = 0 /\ ticks = 0 /\ table = <<>> /\ index = 0 /\ image = -1
  /\ lost = FALSE /\ orphan = <<>> /\ jobs = 0
  /\ covered = 0 /\ mixed = FALSE /\ rewritten = FALSE
-----------------------------------------------------------------------------
\* execute returns.
Return ==
  /\ job' = "idle"
  /\ interval' = 0 /\ ticks' = 0 /\ table' = <<>> /\ index' = 0 /\ image' = -1
  /\ lost' = FALSE /\ orphan' = <<>>

Reading == job \in {"scan", "seek", "write"}

Content == IF lost THEN orphan ELSE disk

\* count: as many boundaries as lie before the end, and one at least.
CountOf_Inclusive(frames, duration, ivl) == (frames * duration) \div ivl + 1

CountOf(frames, duration, ivl) ==
  IF frames = 0 THEN 1 ELSE (frames * duration + ivl - 1) \div ivl

\* ThumbnailCache::create writes the meta file, whatever thumbnails are there.
Create(ivl) ==
  /\ job = "idle" /\ job' = "open"
  /\ jobs < MaxJob /\ jobs' = jobs + 1
  /\ interval' = ivl /\ meta' = ivl
  /\ mixed' = (mixed \/ meta \notin {0, ivl})
  /\ UNCHANGED <<encVars, boundVars, thumbs, ticks, table, index, image, readVars, covered,
                 rewritten>>

\* Mp4H264Source::open: the file is read, its frame rate and length known.
OpenMovie ==
  /\ movie
  /\ job = "open" /\ job' = "seek"
  /\ ticks' = SourceTicks /\ index' = 0
  /\ UNCHANGED <<encVars, boundVars, dirVars, interval, table, image, readVars, jobs,
                 historyVars>>

\* Header::read.
OpenStream ==
  /\ ~movie
  /\ job = "open" /\ job' = "scan"
  /\ present /\ Len(disk) >= HeaderLen
  /\ ticks' = disk[1][2]
  /\ UNCHANGED <<encVars, boundVars, dirVars, interval, table, index, image, readVars, jobs,
                 historyVars>>

ScanTable ==
  /\ job = "scan" /\ job' = "seek"
  /\ table' = Table(Content)
  /\ index' = 0
  /\ UNCHANGED <<encVars, boundVars, dirVars, interval, ticks, image, readVars, jobs,
                 historyVars>>

\* demuxer.seek: the last packet to start from that is not after the time.
SeekMovie(time) ==
  CHOOSE n \in Sync : /\ Packets[n] * SourceTicks <= time
                      /\ \A m \in Sync : Packets[m] * SourceTicks <= time => m <= n

\* fill: from a packet on, the frames the decoder gives; other tracks are
\* skipped.
Fill(from) == {n \in from..Len(Packets) : FrameAt(n)}

\* next_frame drops those that end more than half a frame before the target.
Reached(n, time) == 2 * Packets[n] * SourceTicks + SourceTicks >= 2 * time

NextFrames(time) == {n \in Fill(SeekMovie(time)) : Reached(n, time)}

DecodeMovie ==
  /\ movie /\ job = "seek" /\ job' = "write"
  /\ \E n \in NextFrames(index * interval) :
       /\ \A m \in NextFrames(index * interval) : n <= m
       /\ image' = Packets[n]
  /\ UNCHANGED <<encVars, boundVars, dirVars, interval, ticks, table, index, readVars, jobs,
                 historyVars>>

FrameIndex_Truncated == (index * interval) \div ticks
FrameIndex == SeekIndex(index * interval, ticks)

\* decode_at.
DecodeAt ==
  /\ ~movie /\ job = "seek" /\ FrameIndex < Len(table)
  /\ \E k \in Frame : Decodes(Content, table[FrameIndex + 1], k) /\ image' = k
  /\ job' = "write"
  /\ UNCHANGED <<encVars, boundVars, dirVars, interval, ticks, table, index, readVars, jobs,
                 historyVars>>

FrameCount == IF movie THEN Frames ELSE Len(table)

\* write_thumbnail, and the end of the loop.
WriteThumbnail ==
  /\ job = "write"
  /\ thumbs' = [i \in DOMAIN thumbs \cup {index} |-> IF i = index THEN image ELSE thumbs[i]]
  /\ meta' = IF meta = 0 THEN interval ELSE meta
  /\ IF index + 1 < CountOf(FrameCount, ticks, interval)
     THEN /\ index' = index + 1 /\ job' = "seek" /\ image' = -1
          /\ UNCHANGED <<interval, ticks, table, readVars, covered>>
     ELSE Return /\ covered' = FrameCount * ticks
  /\ UNCHANGED <<encVars, boundVars, jobs, mixed, rewritten>>

\* No file or header, no frame at the boundary, or a payload that cannot be
\* read or decoded; what has been written stays.
NoStream == ~movie /\ job = "open" /\ (~present \/ Len(disk) < HeaderLen)
NoFrame ==
  /\ job = "seek"
  /\ IF movie THEN NextFrames(index * interval) = {} ELSE FrameIndex >= Len(table)
NoPayload ==
  /\ ~movie /\ job = "seek" /\ FrameIndex < Len(table)
  /\ ~ \E k \in Frame : Decodes(Content, table[FrameIndex + 1], k)

Abandon ==
  /\ NoStream \/ NoFrame \/ NoPayload
  /\ Return
  /\ UNCHANGED <<encVars, boundVars, dirVars, jobs, historyVars>>
-----------------------------------------------------------------------------
(* Readers of the directory. *)

\* ThumbnailCache::open.
Opens == meta # 0

Indices == DOMAIN thumbs

Distance(i, time) == IF i * meta < time THEN time - i * meta ELSE i * meta - time

\* read_thumbnail: the index nearest to the time, whether it is there or not.
IndexForTime(time) == (2 * time + meta) \div (2 * meta)

\* read_nearest: the first of the indices nearest to the time.
Nearest(time) ==
  CHOOSE i \in Indices : \A j \in Indices :
    \/ Distance(i, time) < Distance(j, time)
    \/ Distance(i, time) = Distance(j, time) /\ i <= j
-----------------------------------------------------------------------------
Fault == faults < MaxFault /\ faults' = faults + 1 /\ UNCHANGED <<renders, crashes>>

Cancel ==
  /\ job # "idle" /\ Return /\ Fault
  /\ UNCHANGED <<encVars, dirVars, jobs, historyVars>>

BeginRender ==
  /\ \E t \in Targets : Render(t)
  /\ renders < MaxRender /\ renders' = renders + 1 /\ UNCHANGED <<faults, crashes>>
  /\ rewritten' = (rewritten \/ (Reading /\ ~lost))
  /\ UNCHANGED <<dirVars, jobVars, readVars, jobs, covered, mixed>>

RenderStep ==
  /\ EncodeFrame \/ FlushSome \/ FinishRender
  /\ UNCHANGED <<boundVars, dirVars, jobVars, readVars, jobs, historyVars>>

\* A job that has the file open keeps it.
RenderFails ==
  /\ FailRender /\ Fault
  /\ IF Reading /\ ~lost THEN lost' = TRUE /\ orphan' = disk \o buffer
     ELSE UNCHANGED readVars
  /\ UNCHANGED <<dirVars, jobVars, jobs, historyVars>>

Crash ==
  /\ crashes < MaxCrash /\ crashes' = crashes + 1 /\ UNCHANGED <<renders, faults>>
  /\ CutRender /\ Return
  /\ UNCHANGED <<dirVars, jobs, historyVars>>

Next ==
  /\ \/ BeginRender \/ RenderStep \/ RenderFails
     \/ (\E ivl \in Intervals : Create(ivl)) \/ OpenMovie \/ OpenStream \/ ScanTable
     \/ DecodeMovie \/ DecodeAt \/ WriteThumbnail \/ Abandon \/ Cancel \/ Crash
  /\ UNCHANGED movie

Spec == InitAll /\ [][Next]_vars
=============================================================================
