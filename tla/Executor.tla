------------------------------ MODULE Executor ------------------------------
(***************************************************************************)
(* What an executor promises to those who post tasks to it, whatever       *)
(* thread runs them: a task that was accepted is settled (run, or skipped  *)
(* because it is empty) at most once, and is given up only after the       *)
(* executor was closed, when nothing more is accepted.                     *)
(***************************************************************************)
EXTENDS Naturals

CONSTANT Tasks

VARIABLES
  open,     \* the executor accepts tasks
  pending,  \* accepted, and not settled yet
  settled,  \* run or skipped
  given_up  \* accepted, and dropped unrun

vars == <<open, pending, settled, given_up>>

Init ==
  /\ open = TRUE
  /\ pending = {}
  /\ settled = {}
  /\ given_up = {}

Accept(t) ==
  /\ open
  /\ t \notin pending \cup settled \cup given_up
  /\ pending' = pending \cup {t}
  /\ UNCHANGED <<open, settled, given_up>>

Settle(t) ==
  /\ t \in pending
  /\ pending' = pending \ {t}
  /\ settled' = settled \cup {t}
  /\ UNCHANGED <<open, given_up>>

Close ==
  /\ open' = FALSE
  /\ UNCHANGED <<pending, settled, given_up>>

GiveUp ==
  /\ ~open
  /\ \E some \in SUBSET pending :
       /\ pending' = pending \ some
       /\ given_up' = given_up \cup some
  /\ UNCHANGED <<open, settled>>

Next == (\E t \in Tasks : Accept(t) \/ Settle(t)) \/ Close \/ GiveUp

Spec == Init /\ [][Next]_vars
=============================================================================
