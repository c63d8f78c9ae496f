----------------------- MODULE MCBoostTcpConnection -----------------------
(***************************************************************************)
(* Small instances of BoostTcpConnection for TLC.                          *)
(***************************************************************************)
EXTENDS BoostTcpConnection
=============================================================================
