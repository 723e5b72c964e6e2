----------------------------- MODULE MCArtifacts -----------------------------
(***************************************************************************)
(* Small instances of the artifacts of an asset for TLC: a waveform job,   *)
(* a thumbnail job, and two jobs for one proxy with different profiles.    *)
(***************************************************************************)
EXTENDS ArtifactsProperties

CONSTANTS peaks, strip, small, large

Kinds == [j \in Job |-> CASE j = peaks -> "waveform" [] j = strip -> "thumbnails"
                    [] OTHER    -> "video_proxy"]
Profile12 == [j \in Job |-> IF j = large THEN 2 ELSE 1]
=============================================================================
