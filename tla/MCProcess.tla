----------------------------- MODULE MCProcess -----------------------------
(***************************************************************************)
(* Small instances of Process for TLC.                                     *)
(***************************************************************************)
EXTENDS Process

CONSTANTS base, middle

\* The persistence system stands on base, and middle on both.
MCRequires ==
  [s \in {base, middle, persistence} |->
     CASE s = base -> {} [] s = persistence -> {base} [] OTHER -> {base, persistence}]
=============================================================================
