------------------------------- MODULE MCMedia -------------------------------
(***************************************************************************)
(* A small instance of a proxy and its thumbnails for TLC: payloads of     *)
(* different sizes, so that the layouts of two renders differ, and a movie *)
(* of five frames with a second track.                                     *)
(***************************************************************************)
EXTENDS MediaProperties

\* Another track between the frames, and two groups of frames.
Movie == <<-1, 0, 1, -1, 2, 3, 4>>

Sizes == [k \in Frame |-> 1 + (k % 2)]
=============================================================================
