---------------------------- MODULE MCRpcSystem ----------------------------
(***************************************************************************)
(* Small instances of RpcSystem for TLC.                                   *)
(***************************************************************************)
EXTENDS RpcSystem, TLC

\* Requests and connections are interchangeable: sound for the safety run.
CallSymmetry == Permutations(Requests) \cup Permutations(Connections)
=============================================================================
