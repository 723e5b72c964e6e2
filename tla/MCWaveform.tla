----------------------------- MODULE MCWaveform -----------------------------
(***************************************************************************)
(* Small instances of the waveform cache for TLC.                          *)
(***************************************************************************)
EXTENDS WaveformProperties, TLC

WorkerSymmetry == Permutations(Worker)
=============================================================================
