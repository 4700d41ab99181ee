---------------------------- MODULE MCCheckpoint ----------------------------
(* Instance of Checkpoint for TLC.                                         *)
EXTENDS Checkpoint
=============================================================================
