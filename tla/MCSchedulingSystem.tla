------------------------- MODULE MCSchedulingSystem -------------------------
(***************************************************************************)
(* Small instances of SchedulingSystem for TLC.                            *)
(***************************************************************************)
EXTENDS SchedulingSystem, TLC

\* The clients are interchangeable: sound for the safety runs.
ClientSymmetry == Permutations(Clients)
=============================================================================
