----------------------------- MODULE RpcSystem -----------------------------
(***************************************************************************)
(* The RPC system (network/rpc/rpc_system.hpp) with the timeout handler    *)
(* that schedules its timeouts as one-shot tasks                           *)
(* (network-modules/src/rpc_timeout_handler/                               *)
(* scheduler_rpc_timeout_handler.cpp).                                     *)
(*                                                                         *)
(* A call runs on its caller's thread.  Its answer is handled by a worker  *)
(* of the executor that the TCP system posts messages to, its timeout by   *)
(* the scheduler thread: these are the handlers.  A callback that calls    *)
(* the RPC system back is another caller.                                  *)
(*                                                                         *)
(* Requests are identified by the ids that Prepare fetches, so they are    *)
(* never reused, and a prepared call is made once.  The two subscriptions  *)
(* of a call, made and dropped together, are one.  The signals' own        *)
(* operations are atomic here, although nothing in the code makes them so. *)
(*                                                                         *)
(* The scheduling system is used as SchedulingSystem specifies it: a task  *)
(* is collected once, RemoveTask keeps it from being collected, not from   *)
(* running once it is, and only a task that the scheduler has looked at is *)
(* sure to be collected in the end: it may sleep past one that came while  *)
(* it ran callbacks.                                                       *)
(***************************************************************************)
EXTENDS Naturals, Sequences, Functions

CONSTANTS
  Requests,
  Connections,
  Workers,   \* the threads that handle messages
  timer,     \* the scheduler thread
  MaxQueued  \* bound: the length of the executor's queue

ASSUME TimerAssumption == timer \notin Workers

Handlers == Workers \cup {timer}
Answers == {"success", "error"}
Outcomes == Answers \cup {"timeout"}

VARIABLES
  call,       \* where the caller of each request is in Call
  conn,       \* connection_id
  timed,      \* a timeout duration was set
  slots,      \* the requests whose slots are in the signals
  calls_,     \* the keys of calls_
  timeouts_,  \* the keys of timeouts_
  task,       \* the timeout task of each request in the scheduling system
  handler,    \* where each handler is in HandleCallback, and for what
  connected,  \* the connections that the TCP system has
  requests,   \* the requests that have reached the peer
  inbox,      \* the answers in the executor's queue
  answered,   \* history: the answers that came on their call's connection
  told        \* history: the outcomes told to each caller

caller  == <<call, conn, timed>>
tables  == <<slots, calls_, timeouts_>>
network == <<connected, requests, inbox, answered>>
vars == <<caller, tables, task, handler, network, told>>

CallState == {"unprepared", "subscribed", "registered", "scheduled", "ready", "sent"}
TaskState == {"none", "armed", "seen", "collected", "gone"}
AnswerMsg == [from : Connections, request : Requests, kind : Answers]
\* The requests whose timeout is in the scheduler's table.
Scheduled == {r \in Requests : task[r] \in {"armed", "seen"}}

Idle == [at |-> "idle"]
Busy == [at : {"erase", "cancel", "remove", "tell"}, request : Requests,
         outcome : Outcomes]

TypeOK ==
  /\ call \in [Requests -> CallState]
  /\ conn \in [Requests -> Connections]
  /\ timed \in [Requests -> BOOLEAN]
  /\ slots \subseteq Requests
  /\ calls_ \subseteq Requests
  /\ timeouts_ \subseteq Requests
  /\ task \in [Requests -> TaskState]
  /\ handler \in [Handlers -> {Idle} \cup Busy]
  /\ connected \subseteq Connections
  /\ requests \subseteq Requests
  /\ inbox \in Seq(AnswerMsg)
  /\ answered \subseteq Requests \X Answers
  /\ told \in [Requests -> Seq(Outcomes)]

Init ==
  /\ call = [r \in Requests |-> "unprepared"]
  /\ conn \in [Requests -> Connections]
  /\ timed \in [Requests -> BOOLEAN]
  /\ slots = {}
  /\ calls_ = {}
  /\ timeouts_ = {}
  /\ task = [r \in Requests |-> "none"]
  /\ handler = [h \in Handlers |-> Idle]
  /\ connected = Connections
  /\ requests = {}
  /\ inbox = <<>>
  /\ answered = {}
  /\ told = [r \in Requests |-> <<>>]
-----------------------------------------------------------------------------
(* The caller: Prepare and Call. *)

Goto(r, state) == call' = [call EXCEPT ![r] = state]

\* Variant: the handles of the subscriptions are dropped at once.
SubscribeAndDrop(r) ==
  /\ call[r] = "unprepared"
  /\ Goto(r, "subscribed")
  /\ UNCHANGED <<conn, timed, tables, task, handler, network, told>>

Subscribe(r) ==
  /\ call[r] = "unprepared"
  /\ slots' = slots \cup {r}
  /\ Goto(r, "subscribed")
  /\ UNCHANGED <<conn, timed, calls_, timeouts_, task, handler, network, told>>

Register(r) ==
  /\ call[r] = "subscribed"
  /\ calls_' = calls_ \cup {r}
  /\ Goto(r, IF timed[r] THEN "registered" ELSE "ready")
  /\ UNCHANGED <<conn, timed, slots, timeouts_, task, handler, network, told>>

\* ScheduleAfter.  The task may be due before the next step is taken.
ScheduleTimeout(r) ==
  /\ call[r] = "registered"
  /\ task' = [task EXCEPT ![r] = "armed"]
  /\ Goto(r, "scheduled")
  /\ UNCHANGED <<conn, timed, tables, handler, network, told>>

\* insert_or_assign of the task's handle.
RecordTimeout(r) ==
  /\ call[r] = "scheduled"
  /\ timeouts_' = timeouts_ \cup {r}
  /\ Goto(r, "ready")
  /\ UNCHANGED <<conn, timed, slots, calls_, task, handler, network, told>>

\* Variant: the request is sent before the timeout is scheduled.
SendFirst(r) ==
  /\ call[r] \in {"registered", "ready"}
  /\ requests' = IF conn[r] \in connected THEN requests \cup {r} ELSE requests
  /\ IF call[r] = "ready" THEN Goto(r, "sent") ELSE UNCHANGED call
  /\ UNCHANGED <<conn, timed, tables, task, handler, connected, inbox, answered, told>>

\* A request to a connection that is gone is dropped without a word.
Send(r) ==
  /\ call[r] = "ready"
  /\ requests' = IF conn[r] \in connected THEN requests \cup {r} ELSE requests
  /\ Goto(r, "sent")
  /\ UNCHANGED <<conn, timed, tables, task, handler, connected, inbox, answered, told>>
-----------------------------------------------------------------------------
(* The peers, the connections and the scheduling system. *)

\* An answer may be repeated, and a peer may answer on any connection.
Answer(r, from, kind) ==
  /\ r \in requests
  /\ from \in connected
  /\ Len(inbox) < MaxQueued
  /\ inbox' = Append(inbox, [from |-> from, request |-> r, kind |-> kind])
  /\ answered' = IF from = conn[r] THEN answered \cup {<<r, kind>>} ELSE answered
  /\ UNCHANGED <<caller, tables, task, handler, connected, requests, told>>

Disconnect(c) ==
  /\ c \in connected
  /\ connected' = connected \ {c}
  /\ UNCHANGED <<caller, tables, task, handler, requests, inbox, answered, told>>

\* The scheduler has run its last batch and looks at every task in its table.
CollectTasks(due) ==
  /\ handler[timer] = Idle
  /\ \A r \in Requests : task[r] # "collected"
  /\ due \subseteq Scheduled
  /\ task' = [r \in Requests |->
                IF r \in due THEN "collected"
                ELSE IF r \in Scheduled THEN "seen" ELSE task[r]]
  /\ UNCHANGED <<caller, tables, handler, network, told>>
-----------------------------------------------------------------------------
(* The handlers: the slots, the timeout task and HandleCallback. *)

StartHandling(h, r, outcome) ==
  handler' = [handler EXCEPT
                ![h] = [at |-> "erase", request |-> r, outcome |-> outcome]]

HandlerGoto(h, place) == handler' = [handler EXCEPT ![h].at = place]

\* Variant: the slot does not look at the connection.
AcceptsFromAnywhere(m) == m.request \in slots

\* The slots of a request pass an answer with its id, on its connection.
Accepts(m) == m.request \in slots /\ m.from = conn[m.request]

\* The worker takes the first message to its slots.
Deliver(w) ==
  /\ handler[w] = Idle
  /\ inbox # <<>>
  /\ inbox' = Tail(inbox)
  /\ LET m == Head(inbox) IN
       IF Accepts(m) THEN StartHandling(w, m.request, m.kind)
                     ELSE UNCHANGED handler
  /\ UNCHANGED <<caller, tables, task, connected, requests, answered, told>>

RunTimeout(r) ==
  /\ handler[timer] = Idle
  /\ task[r] = "collected"
  /\ task' = [task EXCEPT ![r] = "gone"]
  /\ StartHandling(timer, r, "timeout")
  /\ UNCHANGED <<caller, tables, network, told>>

\* Variant: the call is completed whether or not it is still pending.
EraseAnyCall(h) ==
  /\ handler[h].at = "erase"
  /\ LET r == handler[h].request IN
       /\ calls_' = calls_ \ {r}
       /\ slots' = slots \ {r}
       /\ HandlerGoto(h, "cancel")
  /\ UNCHANGED <<caller, timeouts_, task, network, told>>

\* Variant: the pending call is forgotten and its subscriptions are kept.
EraseKeepingSlots(h) ==
  /\ handler[h].at = "erase"
  /\ LET r == handler[h].request IN
       IF r \in calls_
         THEN calls_' = calls_ \ {r} /\ HandlerGoto(h, "cancel")
         ELSE handler' = [handler EXCEPT ![h] = Idle] /\ UNCHANGED calls_
  /\ UNCHANGED <<slots, caller, timeouts_, task, network, told>>

\* Only who finds the call pending goes on; its subscriptions go with it.
EraseCall(h) ==
  /\ handler[h].at = "erase"
  /\ LET r == handler[h].request IN
       IF r \in calls_
         THEN /\ calls_' = calls_ \ {r}
              /\ slots' = slots \ {r}
              /\ HandlerGoto(h, "cancel")
         ELSE /\ handler' = [handler EXCEPT ![h] = Idle]
              /\ UNCHANGED <<calls_, slots>>
  /\ UNCHANGED <<caller, timeouts_, task, network, told>>

\* Variant: a handler that finds no record of a timeout gives up.
ForgetTimeoutOrReturn(h) ==
  /\ handler[h].at = "cancel"
  /\ LET r == handler[h].request IN
       /\ IF r \in timeouts_ THEN HandlerGoto(h, "remove")
                             ELSE handler' = [handler EXCEPT ![h] = Idle]
       /\ timeouts_' = timeouts_ \ {r}
  /\ UNCHANGED <<caller, slots, calls_, task, network, told>>

\* CancelTimeout up to the release of its mutex.
ForgetTimeout(h) ==
  /\ handler[h].at = "cancel"
  /\ LET r == handler[h].request IN
       /\ HandlerGoto(h, IF r \in timeouts_ THEN "remove" ELSE "tell")
       /\ timeouts_' = timeouts_ \ {r}
  /\ UNCHANGED <<caller, slots, calls_, task, network, told>>

\* RemoveTask: too late for a task that is collected or has run.
RemoveTask(h) ==
  /\ handler[h].at = "remove"
  /\ LET r == handler[h].request IN
       task' = [task EXCEPT ![r] = IF r \in Scheduled THEN "gone" ELSE @]
  /\ HandlerGoto(h, "tell")
  /\ UNCHANGED <<caller, tables, network, told>>

Tell(h) ==
  /\ handler[h].at = "tell"
  /\ LET r == handler[h].request IN
       told' = [told EXCEPT ![r] = Append(@, handler[h].outcome)]
  /\ handler' = [handler EXCEPT ![h] = Idle]
  /\ UNCHANGED <<caller, tables, task, network>>

CallerStep(r) ==
  \/ Register(r) \/ ScheduleTimeout(r) \/ RecordTimeout(r) \/ Send(r)

HandlerStep(h) ==
  \/ EraseCall(h) \/ ForgetTimeout(h) \/ RemoveTask(h) \/ Tell(h)
  \/ h \in Workers /\ Deliver(h)
  \/ h = timer /\ \E r \in Requests : RunTimeout(r)

Next ==
  \/ \E r \in Requests :
       \/ Subscribe(r) \/ CallerStep(r)
       \/ \E from \in Connections, kind \in Answers : Answer(r, from, kind)
  \/ \E c \in Connections : Disconnect(c)
  \/ \E due \in SUBSET Requests : CollectTasks(due)
  \/ \E h \in Handlers : HandlerStep(h)

Spec == Init /\ [][Next]_vars

CollectSeen(r) ==
  /\ task[r] = "seen"
  /\ \E due \in SUBSET Requests : r \in due /\ CollectTasks(due)

\* A call that has begun goes on, the handlers run, and a task that the
\* scheduler has looked at is collected in the end (SeenTaskRuns of
\* SchedulingSystem); nothing obliges a peer to answer, or the scheduler to
\* look at a task that came while it ran callbacks.
Fairness ==
  /\ \A r \in Requests : WF_vars(CallerStep(r)) /\ WF_vars(CollectSeen(r))
  /\ \A h \in Handlers : WF_vars(HandlerStep(h))

FairSpec == Spec /\ Fairness
-----------------------------------------------------------------------------
(* Properties. *)

HandlersOf(r) == {h \in Handlers : handler[h] # Idle /\ handler[h].request = r}

\* A handler has decided the outcome of r and has yet to tell it.
Deciding(r) ==
  {h \in HandlersOf(r) : handler[h].at \in {"cancel", "remove", "tell"}}

\* Answer, repeated answer and timeout race for a call on different threads,
\* and one of them completes it: the promise of RpcCalls is kept.
Status(r) ==
  CASE told[r] # <<>> -> <<"told">> \o told[r]
    [] told[r] = <<>> /\ Deciding(r) # {} ->
         <<"decided", handler[CHOOSE h \in Deciding(r) : TRUE].outcome>>
    [] told[r] = <<>> /\ Deciding(r) = {} /\ r \in calls_ -> <<"open">>
    [] OTHER -> <<"unopened">>

Contract == INSTANCE RpcCalls WITH status <- [r \in Requests |-> Status(r)]
OneOutcomePerCall == Contract!Spec

\* A caller is told of an answer only if the peer it called has given it.
ToldWhatWasAnswered ==
  \A r \in Requests : \A i \in DOMAIN told[r] :
    told[r][i] \in Answers => <<r, told[r][i]>> \in answered

\* An answered call leaves nothing behind: when its caller has been told, its
\* timeout is neither recorded nor scheduled, and its slots are gone.  (A call that
\* timed out before its timeout was recorded leaves the record behind.)
AnsweredCallLeavesNothing ==
  \A r \in Requests :
    told[r] # <<>> /\ told[r][1] \in Answers =>
      r \notin timeouts_ /\ r \notin Scheduled /\ r \notin slots

\* The slots in the signals are those of the pending calls, and of the calls
\* that are about to be registered.
SlotsFollowCalls ==
  slots = calls_ \cup {r \in Requests : call[r] = "subscribed"}

\* A call whose timeout the scheduler has looked at comes to an end, even if
\* its connection is gone or the peer is silent, and whether or not the caller
\* has recorded the timeout when it is due.  (A timeout that the scheduler has
\* not looked at may never run: ScheduledOneShotRuns of SchedulingSystem.)
SeenTimeoutEndsCall ==
  \A r \in Requests : task[r] = "seen" ~> told[r] # <<>>

\* A call that was answered on its connection comes to an end.
AnsweredCallEnds ==
  \A r \in Requests :
    (\E m \in Range(inbox) : m.request = r /\ m.from = conn[r]) ~> told[r] # <<>>
=============================================================================
