-------------------------- MODULE MCQueuedExecutor --------------------------
(***************************************************************************)
(* Small instances of QueuedExecutor for TLC.                              *)
(***************************************************************************)
EXTENDS QueuedExecutor
=============================================================================
