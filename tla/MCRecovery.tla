----------------------------- MODULE MCRecovery -----------------------------
(***************************************************************************)
(* Small instances of recovery for TLC.                                    *)
(***************************************************************************)
EXTENDS RecoveryProperties
=============================================================================
