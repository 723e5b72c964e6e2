----------------------------- MODULE MCJobQueue -----------------------------
(***************************************************************************)
(* A small job queue for TLC: two jobs share a priority, one outranks them *)
(* and one ranks below.                                                    *)
(***************************************************************************)
EXTENDS JobQueue

MixedPrio == <<1, 2, 1, 0>>
=============================================================================
