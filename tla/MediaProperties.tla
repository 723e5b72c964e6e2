---------------------------- MODULE MediaProperties ----------------------------
(***************************************************************************)
(* What a proxy and the thumbnails made from it show, and when.            *)
(***************************************************************************)
EXTENDS Thumbnails

\* Where each frame of a stream ends: the units of the first n of these frames.
Ends(frames) ==
  LET End[n \in 0..Len(frames)] ==
        IF n = 0 THEN HeaderLen ELSE End[n - 1] + PrefixLen + SizeOf[frames[n]]
  IN  End

(* container.rs:314-316: whatever part of a stream is on the disk, while it is
   rendered, after a failure or a crash in the middle of any write, its table
   lists the frames that are there in full, each under its own index. *)
WholeFramesReadable ==
  Len(disk) >= HeaderLen =>
    LET t == Table(disk) IN
    /\ Len(t) <= Len(kept)
    /\ \A n \in 1..Len(t) : Decodes(disk, t[n], kept[n])
    /\ Len(t) < Len(kept) => Ends(kept)[Len(t) + 1] > Len(disk)
    /\ complete => Len(t) = Len(kept)

(* A profile that does not raise the frame rate keeps the time: frame n of the
   proxy is the first source frame that begins when it is shown or later, and
   the last frame of a complete proxy is the one shown when the last source
   frame begins. *)
KeepsTime ==
  Ticks(target) >= SourceTicks =>
    LET T == Ticks(target) IN
    /\ \A n \in 1..Len(kept) :
         /\ kept[n] * SourceTicks >= (n - 1) * T
         /\ kept[n] * SourceTicks < (n - 1) * T + SourceTicks
    /\ complete => /\ Len(kept) * T > (Frames - 1) * SourceTicks
                   /\ (Len(kept) - 1) * T <= (Frames - 1) * SourceTicks

\* Frame k of the source is near this time: half a frame of some proxy, or of
\* the source, before it, or that and a frame of the source after it.
ShowsTime(k, time) ==
  \E t \in Targets \cup {0} :
    /\ 2 * (k * SourceTicks - time) >= -Ticks(t)
    /\ 2 * (k * SourceTicks - time) < Ticks(t) + 2 * SourceTicks

(* From the source to the thumbnail, if the directory has had one interval and
   the stream was not rendered again while a job read it: each thumbnail shows
   the source at its time, to half a frame of the proxy and a frame of the
   source.  Once a job has finished, read_nearest finds for every time of the
   video a thumbnail at most an interval away, and read_thumbnail the same one
   or one as near, except past the last thumbnail. *)
ThumbnailsShowTheirTime ==
  ~mixed /\ ~rewritten /\ (\A t \in Targets : Ticks(t) >= SourceTicks) =>
    /\ \A i \in Indices : ShowsTime(thumbs[i], i * meta)
    /\ \A time \in 0..covered : covered > 0 =>
         /\ Opens /\ Indices # {} /\ Distance(Nearest(time), time) <= meta
         /\ \/ IndexForTime(time) \in Indices
               /\ Distance(IndexForTime(time), time) = Distance(Nearest(time), time)
            \/ \A i \in Indices : i < IndexForTime(time)

(* A job asks for boundaries before the end of the stream only, and misses a
   frame only at one in the second half of the last frame, or in a stream
   without frames. *)
MissesOnlyTheLastHalf ==
  job = "seek" /\ FrameCount > 0 =>
    /\ index * interval < FrameCount * ticks
    /\ NoFrame => 2 * index * interval >= (2 * FrameCount - 1) * ticks
=============================================================================
