---------------------------- MODULE MCTcpSystem ----------------------------
(***************************************************************************)
(* Small instances of TcpSystem for TLC.                                   *)
(***************************************************************************)
EXTENDS TcpSystem

\* Each connector and each executor; the two do not meet.
MCSetups ==
  {[connector |-> "acceptor", executor |-> "queued"],
   [connector |-> "resolver", executor |-> "inline"]}
=============================================================================
