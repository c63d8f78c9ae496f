----------------------------- MODULE MCSignal ------------------------------
(***************************************************************************)
(* Small instances of Signal for TLC.                                      *)
(***************************************************************************)
EXTENDS Signal, TLC

\* Signals are alike, and so are handles.
Symmetry == Permutations(Signals) \cup Permutations(Handles)
=============================================================================
