------------------------------ MODULE RpcCalls ------------------------------
(***************************************************************************)
(* What an RPC system promises to its callers: each call is opened once,   *)
(* and at most one outcome is decided for it and told to the caller.       *)
(***************************************************************************)
CONSTANTS Requests, Outcomes

VARIABLE status  \* of each request

vars == <<status>>

Init == status = [r \in Requests |-> <<"unopened">>]

Open(r) ==
  /\ status[r] = <<"unopened">>
  /\ status' = [status EXCEPT ![r] = <<"open">>]

Decide(r, outcome) ==
  /\ status[r] = <<"open">>
  /\ status' = [status EXCEPT ![r] = <<"decided", outcome>>]

Tell(r, outcome) ==
  /\ status[r] = <<"decided", outcome>>
  /\ status' = [status EXCEPT ![r] = <<"told", outcome>>]

Next == \E r \in Requests :
  Open(r) \/ \E outcome \in Outcomes : Decide(r, outcome) \/ Tell(r, outcome)

Spec == Init /\ [][Next]_vars
=============================================================================
