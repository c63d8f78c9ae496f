-------------------------- MODULE RpcSystem_proofs --------------------------
(***************************************************************************)
(* Proofs of the safety properties of RpcSystem, and that it keeps the     *)
(* promise of RpcCalls, for any requests, connections and workers.         *)
(***************************************************************************)
EXTENDS RpcSystem, SequenceLemmas

USE DEF Scheduled

(* The inductive invariant. *)

\* A call that is not registered yet is not decided either.
UnregisteredIsUndecided ==
  \A r \in Requests :
    call[r] \in {"unprepared", "subscribed"} =>
      r \notin calls_ /\ told[r] = <<>> /\ Deciding(r) = {}

\* Who erases the call decides it, alone, and tells its outcome once.
OneDecides ==
  \A r \in Requests :
    /\ r \in calls_ => told[r] = <<>> /\ Deciding(r) = {}
    /\ told[r] # <<>> => Deciding(r) = {}
    /\ Len(told[r]) <= 1
    /\ \A g, h \in Deciding(r) : g = h

\* Only a request that was sent is answered, and an answer that is on its way
\* to the caller was given.
AnswersWereGiven ==
  /\ \A r \in requests : call[r] = "sent"
  /\ \A a \in answered : a[1] \in requests
  /\ \A m \in Range(inbox) :
       m.from = conn[m.request] => <<m.request, m.kind>> \in answered
  /\ \A h \in Handlers :
       handler[h] # Idle /\ handler[h].outcome \in Answers =>
         <<handler[h].request, handler[h].outcome>> \in answered
  /\ ToldWhatWasAnswered

\* A timeout that is armed is recorded, but while the call has yet to record
\* it, or a handler to remove it.
ArmedIsRecorded ==
  \A r \in Requests :
    r \in Scheduled =>
      \/ call[r] = "scheduled"
      \/ r \in timeouts_
      \/ \E h \in Handlers : handler[h].at = "remove" /\ handler[h].request = r

\* An answer cancels the timeout before it is told.
AnswerCancelsTimeout ==
  /\ \A h \in Handlers :
       handler[h].at \in {"remove", "tell"} /\ handler[h].outcome \in Answers =>
         handler[h].request \notin timeouts_
  /\ \A r \in Requests :
       told[r] # <<>> /\ told[r][1] \in Answers =>
         r \notin timeouts_ /\ r \notin Scheduled

IInv ==
  /\ TypeOK
  /\ UnregisteredIsUndecided
  /\ OneDecides
  /\ SlotsFollowCalls
  /\ AnswersWereGiven
  /\ ArmedIsRecorded
  /\ AnswerCancelsTimeout
-----------------------------------------------------------------------------
(* The handlers. *)

Places == {"erase", "cancel", "remove", "tell"}

\* A handler that is somewhere in HandleCallback works on a request.
LEMMA BusyHandler ==
  ASSUME TypeOK, NEW h \in Handlers, handler[h] # Idle \/ handler[h].at \in Places
  PROVE  /\ handler[h] # Idle
         /\ handler[h] \in Busy
         /\ handler[h].at \in Places
         /\ handler[h].request \in Requests
         /\ handler[h].outcome \in Outcomes
BY DEF TypeOK, Idle, Busy, Places

LEMMA HandlerMoves ==
  ASSUME TypeOK, NEW h \in Handlers, handler[h].at \in Places,
         NEW place \in Places, HandlerGoto(h, place)
  PROVE  /\ handler' \in [Handlers -> {Idle} \cup Busy]
         /\ handler'[h] # Idle
         /\ handler'[h].at = place
         /\ handler'[h].request = handler[h].request
         /\ handler'[h].outcome = handler[h].outcome
         /\ \A g \in Handlers : g # h => handler'[g] = handler[g]
<1>1. handler[h] \in Busy
  BY BusyHandler
<1>2. handler \in [Handlers -> {Idle} \cup Busy]
  BY DEF TypeOK
<1> DEFINE moved == [handler[h] EXCEPT !.at = place]
<1>3. handler' = [handler EXCEPT ![h] = moved]
  BY DEF HandlerGoto
<1>4. /\ moved \in Busy
      /\ moved.at = place
      /\ moved.request = handler[h].request
      /\ moved.outcome = handler[h].outcome
  BY <1>1 DEF Busy, Places
<1>5. moved # Idle
  BY <1>4 DEF Idle, Places
<1> HIDE DEF moved
<1> QED
  BY <1>2, <1>3, <1>4, <1>5

LEMMA HandlerStarts ==
  ASSUME TypeOK, NEW h \in Handlers, NEW r \in Requests, NEW outcome \in Outcomes,
         StartHandling(h, r, outcome)
  PROVE  /\ handler' \in [Handlers -> {Idle} \cup Busy]
         /\ handler'[h] # Idle
         /\ handler'[h].at = "erase"
         /\ handler'[h].request = r
         /\ handler'[h].outcome = outcome
         /\ \A g \in Handlers : g # h => handler'[g] = handler[g]
<1> DEFINE started == [at |-> "erase", request |-> r, outcome |-> outcome]
<1>1. handler' = [handler EXCEPT ![h] = started]
  BY DEF StartHandling
<1>2. /\ started \in Busy
      /\ started.at = "erase"
      /\ started.request = r
      /\ started.outcome = outcome
  BY DEF Busy
<1>3. started # Idle
  BY <1>2 DEF Idle
<1> HIDE DEF started
<1> QED
  BY <1>1, <1>2, <1>3 DEF TypeOK

LEMMA HandlerStops ==
  ASSUME TypeOK, NEW h \in Handlers, handler' = [handler EXCEPT ![h] = Idle]
  PROVE  /\ handler' \in [Handlers -> {Idle} \cup Busy]
         /\ handler'[h] = Idle
         /\ \A g \in Handlers : g # h => handler'[g] = handler[g]
BY DEF TypeOK

DecidingPlaces == {"cancel", "remove", "tell"}

\* A handler that starts, or goes on, decides what it decided before.
LEMMA DecidingIsKept ==
  ASSUME NEW h \in Handlers,
         \A g \in Handlers : g # h => handler'[g] = handler[g],
         \/ /\ handler[h] = Idle \/ handler[h].at = "erase"
            /\ handler'[h] = Idle \/ handler'[h].at = "erase"
         \/ /\ handler[h] # Idle /\ handler[h].at \in DecidingPlaces
            /\ handler'[h] # Idle /\ handler'[h].at \in DecidingPlaces
            /\ handler'[h].request = handler[h].request
  PROVE  \A r \in Requests : Deciding(r)' = Deciding(r)
BY DEF Deciding, HandlersOf, DecidingPlaces, Idle

\* The handler that erases the call goes on to decide it.
LEMMA DecidingIsTaken ==
  ASSUME TypeOK, NEW h \in Handlers, handler[h].at = "erase",
         HandlerGoto(h, "cancel")
  PROVE  \A r \in Requests :
           Deciding(r)' = IF r = handler[h].request THEN Deciding(r) \cup {h}
                                                    ELSE Deciding(r)
<1>1. /\ handler'[h] # Idle
      /\ handler'[h].at = "cancel"
      /\ handler'[h].request = handler[h].request
      /\ \A g \in Handlers : g # h => handler'[g] = handler[g]
  BY HandlerMoves DEF Places
<1> QED
  BY <1>1 DEF Deciding, HandlersOf

\* The handler that has told the outcome is done with the call.
LEMMA DecidingIsDone ==
  ASSUME TypeOK, NEW h \in Handlers, handler' = [handler EXCEPT ![h] = Idle]
  PROVE  \A r \in Requests : Deciding(r)' = Deciding(r) \ {h}
<1>1. handler'[h] = Idle /\ \A g \in Handlers : g # h => handler'[g] = handler[g]
  BY HandlerStops
<1> QED
  BY <1>1 DEF Deciding, HandlersOf

LEMMA DecidingUntouched ==
  ASSUME UNCHANGED handler
  PROVE  \A r \in Requests : Deciding(r)' = Deciding(r)
BY DEF Deciding, HandlersOf
-----------------------------------------------------------------------------
(* Type correctness. *)

LEMMA FirstMessage ==
  ASSUME TypeOK, inbox # <<>>
  PROVE  /\ Head(inbox) \in Range(inbox)
         /\ Head(inbox).request \in Requests
         /\ Head(inbox).from \in Connections
         /\ Head(inbox).kind \in Answers
         /\ Head(inbox).kind \in Outcomes
         /\ Tail(inbox) \in Seq(AnswerMsg)
         /\ Range(Tail(inbox)) \subseteq Range(inbox)
<1>1. inbox \in Seq(AnswerMsg)
  BY DEF TypeOK
<1>2. /\ Head(inbox) \in AnswerMsg
      /\ Tail(inbox) \in Seq(AnswerMsg)
      /\ Range(inbox) = {Head(inbox)} \cup Range(Tail(inbox))
  BY <1>1, RangeOfTail
<1> QED
  BY <1>2 DEF AnswerMsg, Outcomes

LEMMA TypeStep == TypeOK /\ [Next]_vars => TypeOK'
<1> SUFFICES ASSUME TypeOK, [Next]_vars PROVE TypeOK'
  OBVIOUS
<1> USE DEF caller, tables, network, Goto, CallState, TaskState
<1>1. ASSUME NEW r \in Requests,
             Subscribe(r) \/ Register(r) \/ ScheduleTimeout(r) \/ RecordTimeout(r)
               \/ Send(r)
      PROVE  TypeOK'
  <2>1. CASE Subscribe(r)
    BY <2>1 DEF TypeOK, Subscribe
  <2>2. CASE Register(r)
    BY <2>2 DEF TypeOK, Register
  <2>3. CASE ScheduleTimeout(r)
    BY <2>3 DEF TypeOK, ScheduleTimeout
  <2>4. CASE RecordTimeout(r)
    BY <2>4 DEF TypeOK, RecordTimeout
  <2>5. CASE Send(r)
    BY <2>5 DEF TypeOK, Send
  <2> QED
    BY <1>1, <2>1, <2>2, <2>3, <2>4, <2>5
<1>2. ASSUME NEW r \in Requests, NEW from \in Connections, NEW kind \in Answers,
             Answer(r, from, kind)
      PROVE  TypeOK'
  <2>1. [from |-> from, request |-> r, kind |-> kind] \in AnswerMsg
    BY DEF AnswerMsg
  <2>2. inbox' \in Seq(AnswerMsg)
    BY <1>2, <2>1, AppendProperties DEF Answer, TypeOK
  <2>3. answered' \subseteq Requests \X Answers
    BY <1>2 DEF Answer, TypeOK
  <2> QED
    BY <1>2, <2>2, <2>3 DEF Answer, TypeOK
<1>2a. ASSUME NEW due \in SUBSET Requests, CollectTasks(due) PROVE TypeOK'
  BY <1>2a DEF TypeOK, CollectTasks
<1>3. ASSUME NEW c \in Connections, Disconnect(c) PROVE TypeOK'
  BY <1>3 DEF Disconnect, TypeOK
<1>4. ASSUME NEW w \in Workers, Deliver(w) PROVE TypeOK'
  <2>1. Tail(inbox) \in Seq(AnswerMsg)
    BY <1>4, FirstMessage DEF Deliver
  <2>2. Head(inbox).request \in Requests /\ Head(inbox).kind \in Outcomes
    BY <1>4, FirstMessage DEF Deliver
  <2>3. w \in Handlers
    BY DEF Handlers
  <2>4. handler' \in [Handlers -> {Idle} \cup Busy]
    <3>1. CASE Accepts(Head(inbox))
      BY <1>4, <2>2, <2>3, <3>1, HandlerStarts DEF Deliver
    <3>2. CASE ~Accepts(Head(inbox))
      BY <1>4, <3>2 DEF Deliver, TypeOK
    <3> QED
      BY <3>1, <3>2
  <2> QED
    BY <1>4, <2>1, <2>4 DEF Deliver, TypeOK
<1>5. ASSUME NEW r \in Requests, RunTimeout(r) PROVE TypeOK'
  <2>1. timer \in Handlers /\ "timeout" \in Outcomes
    BY DEF Handlers, Outcomes
  <2>2. handler' \in [Handlers -> {Idle} \cup Busy]
    BY <1>5, <2>1, HandlerStarts DEF RunTimeout
  <2> QED
    BY <1>5, <2>2 DEF RunTimeout, TypeOK
<1>6. ASSUME NEW h \in Handlers, EraseCall(h) PROVE TypeOK'
  <2>1. handler' \in [Handlers -> {Idle} \cup Busy]
    BY <1>6, HandlerMoves, HandlerStops DEF EraseCall, Places
  <2> QED
    BY <1>6, <2>1 DEF EraseCall, TypeOK
<1>7. ASSUME NEW h \in Handlers, ForgetTimeout(h) PROVE TypeOK'
  <2>1. handler' \in [Handlers -> {Idle} \cup Busy]
    BY <1>7, HandlerMoves DEF ForgetTimeout, Places
  <2> QED
    BY <1>7, <2>1 DEF ForgetTimeout, TypeOK
<1>8. ASSUME NEW h \in Handlers, RemoveTask(h) PROVE TypeOK'
  <2>1. handler' \in [Handlers -> {Idle} \cup Busy]
    BY <1>8, HandlerMoves DEF RemoveTask, Places
  <2>2. task' \in [Requests -> TaskState]
    BY <1>8 DEF RemoveTask, TypeOK
  <2> QED
    BY <1>8, <2>1, <2>2 DEF RemoveTask, TypeOK
<1>9. ASSUME NEW h \in Handlers, Tell(h) PROVE TypeOK'
  <2>1. handler' \in [Handlers -> {Idle} \cup Busy]
    BY <1>9, HandlerStops DEF Tell
  <2>2. handler[h].request \in Requests /\ handler[h].outcome \in Outcomes
    BY <1>9, BusyHandler DEF Tell, Places
  <2>3. Append(told[handler[h].request], handler[h].outcome) \in Seq(Outcomes)
    BY <2>2, AppendProperties DEF TypeOK
  <2>4. told' \in [Requests -> Seq(Outcomes)]
    BY <1>9, <2>3 DEF Tell, TypeOK
  <2> QED
    BY <1>9, <2>1, <2>4 DEF Tell, TypeOK
<1>10. CASE UNCHANGED vars
  BY <1>10 DEF vars, TypeOK
<1> QED
  BY <1>1, <1>2, <1>2a, <1>3, <1>4, <1>5, <1>6, <1>7, <1>8, <1>9, <1>10
     DEF Next, CallerStep, HandlerStep
-----------------------------------------------------------------------------
(* Who decides a call. *)

DecideInv ==
  TypeOK /\ UnregisteredIsUndecided /\ OneDecides /\ SlotsFollowCalls

\* What the steps of a caller, and of those outside, leave as it was.
LEMMA OthersDecideNothing ==
  ASSUME DecideInv,
         \A r \in Requests : Deciding(r)' = Deciding(r),
         UNCHANGED <<call, slots, calls_, told>>
  PROVE  UnregisteredIsUndecided' /\ OneDecides' /\ SlotsFollowCalls'
BY DEF DecideInv, UnregisteredIsUndecided, OneDecides, SlotsFollowCalls

LEMMA DecideStep == DecideInv /\ [Next]_vars =>
  UnregisteredIsUndecided' /\ OneDecides' /\ SlotsFollowCalls'
<1> DEFINE Goal == UnregisteredIsUndecided' /\ OneDecides' /\ SlotsFollowCalls'
<1> SUFFICES ASSUME DecideInv, [Next]_vars PROVE Goal
  OBVIOUS
<1> USE DEF caller, tables, network
<1>1. TypeOK
  BY DEF DecideInv
<1>2. ASSUME NEW r \in Requests, Subscribe(r) PROVE Goal
  <2>1. /\ \A q \in Requests : Deciding(q)' = Deciding(q)
        /\ call' = [call EXCEPT ![r] = "subscribed"] /\ slots' = slots \cup {r}
        /\ call[r] = "unprepared" /\ UNCHANGED <<calls_, told>>
    BY <1>2, DecidingUntouched DEF Subscribe, Goto
  <2> QED
    BY <1>1, <2>1 DEF DecideInv, TypeOK, UnregisteredIsUndecided, OneDecides,
                      SlotsFollowCalls
<1>3. ASSUME NEW r \in Requests, Register(r) PROVE Goal
  <2>1. /\ \A q \in Requests : Deciding(q)' = Deciding(q)
        /\ call[r] = "subscribed" /\ calls_' = calls_ \cup {r}
        /\ \A q \in Requests : q # r => call'[q] = call[q]
        /\ call'[r] \in {"registered", "ready"} /\ UNCHANGED <<slots, told>>
    BY <1>1, <1>3, DecidingUntouched DEF Register, Goto, TypeOK
  <2> QED
    BY <1>1, <2>1 DEF DecideInv, UnregisteredIsUndecided, OneDecides,
                      SlotsFollowCalls
<1>4. ASSUME NEW r \in Requests, ScheduleTimeout(r) \/ RecordTimeout(r) \/ Send(r)
      PROVE  Goal
  <2>1. /\ \A q \in Requests : Deciding(q)' = Deciding(q)
        /\ \A q \in Requests :
             call'[q] \in {"unprepared", "subscribed"} \/ call[q] \in {"unprepared", "subscribed"}
               => call'[q] = call[q]
        /\ UNCHANGED <<slots, calls_, told>>
    BY <1>1, <1>4, DecidingUntouched
       DEF ScheduleTimeout, RecordTimeout, Send, Goto, TypeOK
  <2> QED
    BY <2>1 DEF DecideInv, UnregisteredIsUndecided, OneDecides, SlotsFollowCalls
<1>5. ASSUME NEW r \in Requests,
             \E from \in Connections, kind \in Answers : Answer(r, from, kind)
      PROVE  Goal
  BY <1>5, DecidingUntouched, OthersDecideNothing DEF Answer
<1>5a. ASSUME NEW due \in SUBSET Requests, CollectTasks(due) PROVE Goal
  BY <1>5a, DecidingUntouched, OthersDecideNothing DEF CollectTasks
<1>6. ASSUME NEW c \in Connections, Disconnect(c) PROVE Goal
  BY <1>6, DecidingUntouched, OthersDecideNothing DEF Disconnect
<1>7. ASSUME NEW h \in Handlers, NEW r \in Requests, NEW outcome \in Outcomes,
             handler[h] = Idle, StartHandling(h, r, outcome)
      PROVE  \A q \in Requests : Deciding(q)' = Deciding(q)
  BY <1>1, <1>7, HandlerStarts, DecidingIsKept
<1>8. ASSUME NEW w \in Workers, Deliver(w) PROVE Goal
  <2>1. /\ Head(inbox).request \in Requests /\ Head(inbox).kind \in Outcomes
        /\ w \in Handlers
    BY <1>1, <1>8, FirstMessage DEF Deliver, Handlers
  <2>2. \A q \in Requests : Deciding(q)' = Deciding(q)
    BY <1>7, <1>8, <2>1, DecidingUntouched DEF Deliver
  <2> QED
    BY <1>8, <2>2, OthersDecideNothing DEF Deliver
<1>9. ASSUME NEW r \in Requests, RunTimeout(r) PROVE Goal
  <2>1. timer \in Handlers /\ "timeout" \in Outcomes
    BY DEF Handlers, Outcomes
  <2>2. \A q \in Requests : Deciding(q)' = Deciding(q)
    BY <1>7, <1>9, <2>1 DEF RunTimeout
  <2> QED
    BY <1>9, <2>2, OthersDecideNothing DEF RunTimeout
<1>10. ASSUME NEW h \in Handlers, EraseCall(h) PROVE Goal
  <2> DEFINE r == handler[h].request
  <2>1. r \in Requests /\ handler[h].at = "erase" /\ UNCHANGED <<call, told>>
    BY <1>1, <1>10, BusyHandler DEF EraseCall, Places
  <2>2. CASE r \in calls_
    <3>1. /\ calls_' = calls_ \ {r} /\ slots' = slots \ {r}
          /\ HandlerGoto(h, "cancel")
      BY <1>10, <2>2 DEF EraseCall
    <3>2. \A q \in Requests :
            Deciding(q)' = IF q = r THEN Deciding(q) \cup {h} ELSE Deciding(q)
      BY <1>1, <2>1, <3>1, DecidingIsTaken
    <3>3. call[r] \notin {"unprepared", "subscribed"} /\ told[r] = <<>> /\ Deciding(r) = {}
      BY <2>1, <2>2 DEF DecideInv, UnregisteredIsUndecided, OneDecides
    <3> HIDE DEF r
    <3> QED
      BY <2>1, <2>2, <3>1, <3>2, <3>3
         DEF DecideInv, UnregisteredIsUndecided, OneDecides, SlotsFollowCalls
  <2>3. CASE r \notin calls_
    <3>1. handler' = [handler EXCEPT ![h] = Idle] /\ UNCHANGED <<calls_, slots>>
      BY <1>10, <2>3 DEF EraseCall
    <3>2. handler'[h] = Idle /\ \A g \in Handlers : g # h => handler'[g] = handler[g]
      BY <1>1, <3>1, HandlerStops
    <3>3. \A q \in Requests : Deciding(q)' = Deciding(q)
      BY <2>1, <3>2, DecidingIsKept
    <3> QED
      BY <2>1, <3>1, <3>3, OthersDecideNothing
  <2> QED
    BY <2>2, <2>3
<1>11. ASSUME NEW h \in Handlers, ForgetTimeout(h) \/ RemoveTask(h) PROVE Goal
  <2>1. /\ handler[h].at \in {"cancel", "remove"}
        /\ \E place \in {"remove", "tell"} : HandlerGoto(h, place)
        /\ UNCHANGED <<call, slots, calls_, told>>
    BY <1>11 DEF ForgetTimeout, RemoveTask
  <2>2. handler[h] # Idle
    BY <1>1, <2>1, BusyHandler DEF Places
  <2>3. \A q \in Requests : Deciding(q)' = Deciding(q)
    BY <1>1, <2>1, <2>2, HandlerMoves, DecidingIsKept DEF Places, DecidingPlaces
  <2> QED
    BY <2>1, <2>3, OthersDecideNothing
<1>12. ASSUME NEW h \in Handlers, Tell(h) PROVE Goal
  <2>0. PICK r \in Requests : r = handler[h].request
    BY <1>1, <1>12, BusyHandler DEF Tell, Places
  <2>1. handler[h].outcome \in Outcomes /\ h \in Deciding(r)
    BY <1>1, <1>12, <2>0, BusyHandler DEF Tell, Places, Deciding, HandlersOf
  <2>2. \A q \in Requests : Deciding(q)' = Deciding(q) \ {h}
    BY <1>1, <1>12, DecidingIsDone DEF Tell
  <2>3. /\ told' = [told EXCEPT ![r] = Append(@, handler[h].outcome)]
        /\ UNCHANGED <<call, slots, calls_>>
    BY <1>12, <2>0 DEF Tell
  <2>4. /\ told[r] = <<>>
        /\ call[r] \notin {"unprepared", "subscribed"} /\ r \notin calls_
    BY <2>1 DEF DecideInv, UnregisteredIsUndecided, OneDecides
  <2>5. Deciding(r)' = {}
    BY <2>1, <2>2 DEF DecideInv, OneDecides
  <2>6. told'[r] # <<>> /\ Len(told'[r]) = 1
    <3>1. told'[r] = Append(<<>>, handler[h].outcome)
      BY <1>1, <2>1, <2>3, <2>4 DEF TypeOK
    <3> QED
      BY <3>1
  <2>7. \A q \in Requests : q # r => told'[q] = told[q]
    BY <1>1, <2>3 DEF TypeOK
  <2>8. UnregisteredIsUndecided'
    BY <2>2, <2>3, <2>4, <2>7 DEF DecideInv, UnregisteredIsUndecided
  <2>9. OneDecides'
    <3> SUFFICES ASSUME NEW q \in Requests
                 PROVE  /\ q \in calls_' => told'[q] = <<>> /\ Deciding(q)' = {}
                        /\ told'[q] # <<>> => Deciding(q)' = {}
                        /\ Len(told'[q]) <= 1
                        /\ \A f, g \in Deciding(q)' : f = g
      BY DEF OneDecides
    <3>1. CASE q = r
      BY <2>3, <2>4, <2>5, <2>6, <3>1
    <3>2. CASE q # r
      BY <2>2, <2>3, <2>7, <3>2 DEF DecideInv, OneDecides
    <3> QED
      BY <3>1, <3>2
  <2> QED
    BY <2>3, <2>8, <2>9 DEF DecideInv, SlotsFollowCalls
<1>13. CASE UNCHANGED vars
  BY <1>13, DecidingUntouched, OthersDecideNothing DEF vars
<1> QED
  BY <1>2, <1>3, <1>4, <1>5, <1>5a, <1>6, <1>8, <1>9, <1>10, <1>11, <1>12, <1>13
     DEF Next, CallerStep, HandlerStep
-----------------------------------------------------------------------------
(* Where an answer that is told comes from. *)

LEMMA AnswersUntouched ==
  ASSUME AnswersWereGiven, TypeOK,
         UNCHANGED <<conn, requests, inbox, answered, handler, told>>,
         \A r \in Requests : call[r] = "sent" => call'[r] = "sent"
  PROVE  AnswersWereGiven'
BY DEF AnswersWereGiven, ToldWhatWasAnswered, TypeOK

\* A handler that goes on keeps its request and its outcome.
LEMMA AnswersHandled ==
  ASSUME AnswersWereGiven, NEW h \in Handlers, handler[h] # Idle,
         UNCHANGED <<call, conn, requests, inbox, answered, told>>,
         \A g \in Handlers : g # h => handler'[g] = handler[g],
         \/ handler'[h] = Idle
         \/ /\ handler'[h].request = handler[h].request
            /\ handler'[h].outcome = handler[h].outcome
  PROVE  AnswersWereGiven'
<1>1. \A g \in Handlers :
        handler'[g] # Idle /\ handler'[g].outcome \in Answers =>
          <<handler'[g].request, handler'[g].outcome>> \in answered
  BY DEF AnswersWereGiven
<1> QED
  BY <1>1 DEF AnswersWereGiven, ToldWhatWasAnswered

LEMMA AnswersStep == TypeOK /\ AnswersWereGiven /\ [Next]_vars => AnswersWereGiven'
<1> SUFFICES ASSUME TypeOK, AnswersWereGiven, [Next]_vars PROVE AnswersWereGiven'
  OBVIOUS
<1> USE DEF caller, tables, network
<1>1. ASSUME NEW r \in Requests,
             Subscribe(r) \/ Register(r) \/ ScheduleTimeout(r) \/ RecordTimeout(r)
      PROVE  AnswersWereGiven'
  <2>1. /\ UNCHANGED <<conn, requests, inbox, answered, handler, told>>
        /\ \A q \in Requests : call[q] = "sent" => call'[q] = "sent"
    BY <1>1 DEF Subscribe, Register, ScheduleTimeout, RecordTimeout, Goto, TypeOK
  <2> QED
    BY <2>1, AnswersUntouched
<1>2. ASSUME NEW r \in Requests, Send(r) PROVE AnswersWereGiven'
  <2>1. /\ call' = [call EXCEPT ![r] = "sent"]
        /\ requests \subseteq requests' /\ requests' \subseteq requests \cup {r}
        /\ UNCHANGED <<conn, inbox, answered, handler, told>>
    BY <1>2 DEF Send, Goto
  <2> QED
    BY <2>1 DEF AnswersWereGiven, ToldWhatWasAnswered, TypeOK
<1>3. ASSUME NEW r \in Requests, NEW from \in Connections, NEW kind \in Answers,
             Answer(r, from, kind)
      PROVE  AnswersWereGiven'
  <2> DEFINE m == [from |-> from, request |-> r, kind |-> kind]
  <2>1. /\ m \in AnswerMsg /\ m.from = from /\ m.request = r /\ m.kind = kind
        /\ inbox \in Seq(AnswerMsg) /\ inbox' = Append(inbox, m)
        /\ r \in requests
        /\ answered' = IF from = conn[r] THEN answered \cup {<<r, kind>>} ELSE answered
        /\ UNCHANGED <<call, conn, requests, handler, told>>
    BY <1>3 DEF Answer, AnswerMsg, TypeOK
  <2> HIDE DEF m
  <2>2. Range(inbox') = Range(inbox) \cup {m}
    BY <2>1, RangeOfAppend
  <2>3. \A n \in Range(inbox') :
          n.from = conn[n.request] => <<n.request, n.kind>> \in answered'
    BY <2>1, <2>2 DEF AnswersWereGiven
  <2>4. /\ answered \subseteq answered'
        /\ \A a \in answered' : a[1] \in requests
    BY <2>1 DEF AnswersWereGiven
  <2> QED
    BY <2>1, <2>3, <2>4 DEF AnswersWereGiven, ToldWhatWasAnswered
<1>3a. ASSUME NEW due \in SUBSET Requests, CollectTasks(due) PROVE AnswersWereGiven'
  BY <1>3a, AnswersUntouched DEF CollectTasks
<1>4. ASSUME NEW c \in Connections, Disconnect(c) PROVE AnswersWereGiven'
  BY <1>4, AnswersUntouched DEF Disconnect
<1>5. ASSUME NEW w \in Workers, Deliver(w) PROVE AnswersWereGiven'
  <2>1. /\ Head(inbox) \in Range(inbox)
        /\ Head(inbox).request \in Requests /\ Head(inbox).kind \in Outcomes
        /\ Range(Tail(inbox)) \subseteq Range(inbox)
        /\ w \in Handlers
    BY <1>5, FirstMessage DEF Deliver, Handlers
  <2>2. /\ inbox' = Tail(inbox)
        /\ UNCHANGED <<call, conn, requests, answered, told>>
    BY <1>5 DEF Deliver
  <2>3. \A g \in Handlers :
          handler'[g] # Idle /\ handler'[g].outcome \in Answers =>
            <<handler'[g].request, handler'[g].outcome>> \in answered
    <3>1. CASE Accepts(Head(inbox))
      <4>1. /\ handler'[w].request = Head(inbox).request
            /\ handler'[w].outcome = Head(inbox).kind
            /\ \A g \in Handlers : g # w => handler'[g] = handler[g]
        BY <1>5, <2>1, <3>1, HandlerStarts DEF Deliver
      <4>2. <<Head(inbox).request, Head(inbox).kind>> \in answered
        BY <2>1, <3>1 DEF Accepts, AnswersWereGiven
      <4> QED
        BY <4>1, <4>2 DEF AnswersWereGiven
    <3>2. CASE ~Accepts(Head(inbox))
      BY <1>5, <3>2 DEF Deliver, AnswersWereGiven
    <3> QED
      BY <3>1, <3>2
  <2> QED
    BY <2>1, <2>2, <2>3 DEF AnswersWereGiven, ToldWhatWasAnswered
<1>6. ASSUME NEW r \in Requests, RunTimeout(r) PROVE AnswersWereGiven'
  <2>1. timer \in Handlers /\ "timeout" \in Outcomes /\ "timeout" \notin Answers
    BY DEF Handlers, Outcomes, Answers
  <2>2. /\ handler'[timer].outcome = "timeout"
        /\ \A g \in Handlers : g # timer => handler'[g] = handler[g]
    BY <1>6, <2>1, HandlerStarts DEF RunTimeout
  <2>3. UNCHANGED <<call, conn, requests, inbox, answered, told>>
    BY <1>6 DEF RunTimeout
  <2> QED
    BY <2>1, <2>2, <2>3 DEF AnswersWereGiven, ToldWhatWasAnswered
<1>7. ASSUME NEW h \in Handlers, EraseCall(h) \/ ForgetTimeout(h) \/ RemoveTask(h)
      PROVE  AnswersWereGiven'
  <2>1. /\ handler[h].at \in Places
        /\ \/ \E place \in Places : HandlerGoto(h, place)
           \/ handler' = [handler EXCEPT ![h] = Idle]
        /\ UNCHANGED <<call, conn, requests, inbox, answered, told>>
    BY <1>7 DEF EraseCall, ForgetTimeout, RemoveTask, Places
  <2>2. handler[h] # Idle
    BY <2>1, BusyHandler
  <2> QED
    BY <2>1, <2>2, HandlerMoves, HandlerStops, AnswersHandled
<1>8. ASSUME NEW h \in Handlers, Tell(h) PROVE AnswersWereGiven'
  <2>0. PICK r \in Requests : r = handler[h].request
    BY <1>8, BusyHandler DEF Tell, Places
  <2>1. handler[h] # Idle
    BY <1>8, BusyHandler DEF Tell, Places
  <2>2. /\ handler'[h] = Idle
        /\ \A g \in Handlers : g # h => handler'[g] = handler[g]
    BY <1>8, HandlerStops DEF Tell
  <2>3. /\ told' = [told EXCEPT ![r] = Append(@, handler[h].outcome)]
        /\ UNCHANGED <<call, conn, requests, inbox, answered>>
    BY <1>8, <2>0 DEF Tell
  <2>4. ASSUME NEW q \in Requests, NEW i \in DOMAIN told'[q], told'[q][i] \in Answers
        PROVE  <<q, told'[q][i]>> \in answered
    <3>1. CASE q # r
      BY <2>3, <2>4, <3>1 DEF AnswersWereGiven, ToldWhatWasAnswered, TypeOK
    <3>2. CASE q = r
      <4>1. told'[r] = Append(told[r], handler[h].outcome) /\ told[r] \in Seq(Outcomes)
        BY <2>3 DEF TypeOK
      <4>2. \/ i \in DOMAIN told[r] /\ told'[r][i] = told[r][i]
            \/ told'[r][i] = handler[h].outcome
        BY <2>4, <3>2, <4>1
      <4> QED
        BY <2>0, <2>1, <2>4, <3>2, <4>2 DEF AnswersWereGiven, ToldWhatWasAnswered
    <3> QED
      BY <3>1, <3>2
  <2> QED
    BY <2>2, <2>3, <2>4 DEF AnswersWereGiven, ToldWhatWasAnswered
<1>9. CASE UNCHANGED vars
  BY <1>9, AnswersUntouched DEF vars
<1> QED
  BY <1>1, <1>2, <1>3, <1>3a, <1>4, <1>5, <1>6, <1>7, <1>8, <1>9
     DEF Next, CallerStep, HandlerStep
-----------------------------------------------------------------------------
(* The timeouts of the calls that are answered. *)

TimeoutInv == ArmedIsRecorded /\ AnswerCancelsTimeout

LEMMA TimeoutsUntouched ==
  ASSUME TimeoutInv,
         UNCHANGED <<timeouts_, task, told>>,
         \A r \in Requests : call[r] = "scheduled" => call'[r] = "scheduled",
         \A h \in Handlers :
           \/ handler'[h] = handler[h]
           \/ handler[h].at # "remove" /\ handler'[h].at \notin {"remove", "tell"}
  PROVE  TimeoutInv'
<1>1. ArmedIsRecorded'
  BY DEF TimeoutInv, ArmedIsRecorded
<1>2. AnswerCancelsTimeout'
  BY DEF TimeoutInv, AnswerCancelsTimeout
<1> QED
  BY <1>1, <1>2 DEF TimeoutInv

\* No one has an answer to a call that was not sent.
LEMMA UnsentIsUnanswered ==
  ASSUME TypeOK, AnswersWereGiven, NEW r \in Requests, call[r] # "sent"
  PROVE  /\ \A h \in Handlers :
              handler[h].at \in {"remove", "tell"} /\ handler[h].outcome \in Answers =>
                handler[h].request # r
         /\ told[r] # <<>> => told[r][1] \notin Answers
<1>1. \A k : <<r, k>> \notin answered
  <2> SUFFICES ASSUME NEW k, <<r, k>> \in answered PROVE FALSE
    OBVIOUS
  <2>1. <<r, k>>[1] \in requests
    BY DEF AnswersWereGiven
  <2> QED
    BY <2>1 DEF AnswersWereGiven
<1>2. \A h \in Handlers : handler[h].at \in {"remove", "tell"} => handler[h] # Idle
  BY DEF Idle
<1>3. told[r] # <<>> => 1 \in DOMAIN told[r]
  BY EmptySeq, LenProperties DEF TypeOK
<1> QED
  BY <1>1, <1>2, <1>3 DEF AnswersWereGiven, ToldWhatWasAnswered

\* A call that is decided by one handler is decided by no other.
LEMMA DecidedByOne ==
  ASSUME DecideInv, NEW g \in Handlers, NEW h \in Handlers,
         handler[g].at \in DecidingPlaces, handler[h].at \in DecidingPlaces,
         handler[g].request = handler[h].request
  PROVE  g = h
<1>0. PICK r \in Requests : r = handler[h].request
  BY BusyHandler DEF DecideInv, DecidingPlaces, Places
<1>1. g \in Deciding(r) /\ h \in Deciding(r)
  BY <1>0 DEF Deciding, HandlersOf, DecidingPlaces, Idle
<1> QED
  BY <1>1 DEF DecideInv, OneDecides

LEMMA TimeoutStep ==
  DecideInv /\ AnswersWereGiven /\ TimeoutInv /\ [Next]_vars => TimeoutInv'
<1> SUFFICES ASSUME DecideInv, AnswersWereGiven, TimeoutInv, [Next]_vars
             PROVE  TimeoutInv'
  OBVIOUS
<1> USE DEF caller, tables, network
<1>1. TypeOK
  BY DEF DecideInv
<1>2. ASSUME NEW r \in Requests, Subscribe(r) \/ Register(r) \/ Send(r)
      PROVE  TimeoutInv'
  <2>1. /\ UNCHANGED <<timeouts_, task, told, handler>>
        /\ \A q \in Requests : call[q] = "scheduled" => call'[q] = "scheduled"
    BY <1>1, <1>2 DEF Subscribe, Register, Send, Goto, TypeOK
  <2> QED
    BY <2>1, TimeoutsUntouched
<1>3. ASSUME NEW r \in Requests, NEW from \in Connections, NEW kind \in Answers,
             Answer(r, from, kind)
      PROVE  TimeoutInv'
  BY <1>3, TimeoutsUntouched DEF Answer
<1>4. ASSUME NEW c \in Connections, Disconnect(c) PROVE TimeoutInv'
  BY <1>4, TimeoutsUntouched DEF Disconnect
<1>5. ASSUME NEW r \in Requests, ScheduleTimeout(r) PROVE TimeoutInv'
  <2>1. /\ call[r] = "registered" /\ call'[r] = "scheduled"
        /\ \A q \in Requests : q # r => call'[q] = call[q] /\ task'[q] = task[q]
        /\ UNCHANGED <<timeouts_, told, handler>>
    BY <1>1, <1>5 DEF ScheduleTimeout, Goto, TypeOK
  <2>2. ArmedIsRecorded'
    BY <2>1 DEF TimeoutInv, ArmedIsRecorded
  <2>3. AnswerCancelsTimeout'
    BY <1>1, <2>1, UnsentIsUnanswered DEF TimeoutInv, AnswerCancelsTimeout
  <2> QED
    BY <2>2, <2>3 DEF TimeoutInv
<1>6. ASSUME NEW r \in Requests, RecordTimeout(r) PROVE TimeoutInv'
  <2>1. /\ call[r] = "scheduled" /\ timeouts_' = timeouts_ \cup {r}
        /\ \A q \in Requests : q # r => call'[q] = call[q]
        /\ UNCHANGED <<task, told, handler>>
    BY <1>1, <1>6 DEF RecordTimeout, Goto, TypeOK
  <2>2. ArmedIsRecorded'
    BY <2>1 DEF TimeoutInv, ArmedIsRecorded
  <2>3. AnswerCancelsTimeout'
    BY <1>1, <2>1, UnsentIsUnanswered DEF TimeoutInv, AnswerCancelsTimeout
  <2> QED
    BY <2>2, <2>3 DEF TimeoutInv
<1>7. ASSUME NEW due \in SUBSET Requests, CollectTasks(due) PROVE TimeoutInv'
  <2>1. /\ Scheduled' \subseteq Scheduled
        /\ UNCHANGED <<call, timeouts_, told, handler>>
    BY <1>1, <1>7 DEF CollectTasks, TypeOK
  <2> QED
    BY <2>1 DEF TimeoutInv, ArmedIsRecorded, AnswerCancelsTimeout
<1>8. ASSUME NEW w \in Workers, Deliver(w) PROVE TimeoutInv'
  <2>1. /\ Head(inbox).request \in Requests /\ Head(inbox).kind \in Outcomes
        /\ w \in Handlers /\ handler[w].at = "idle"
    BY <1>1, <1>8, FirstMessage DEF Deliver, Handlers, Idle
  <2>2. \A h \in Handlers :
          \/ handler'[h] = handler[h]
          \/ handler[h].at = "idle" /\ handler'[h].at = "erase"
    BY <1>1, <1>8, <2>1, HandlerStarts DEF Deliver
  <2>3. UNCHANGED <<call, timeouts_, task, told>>
    BY <1>8 DEF Deliver
  <2> QED
    BY <2>2, <2>3, TimeoutsUntouched
<1>9. ASSUME NEW r \in Requests, RunTimeout(r) PROVE TimeoutInv'
  <2>1. timer \in Handlers /\ "timeout" \in Outcomes /\ handler[timer].at = "idle"
    BY <1>9 DEF RunTimeout, Handlers, Outcomes, Idle
  <2>2. /\ handler'[timer].at = "erase"
        /\ \A g \in Handlers : g # timer => handler'[g] = handler[g]
    BY <1>1, <1>9, <2>1, HandlerStarts DEF RunTimeout
  <2>3. /\ task'[r] = "gone"
        /\ \A q \in Requests : q # r => task'[q] = task[q]
        /\ UNCHANGED <<call, timeouts_, told>>
    BY <1>1, <1>9 DEF RunTimeout, TypeOK
  <2>4. ArmedIsRecorded'
    BY <2>1, <2>2, <2>3 DEF TimeoutInv, ArmedIsRecorded
  <2>5. AnswerCancelsTimeout'
    BY <2>2, <2>3 DEF TimeoutInv, AnswerCancelsTimeout
  <2> QED
    BY <2>4, <2>5 DEF TimeoutInv
<1>10. ASSUME NEW h \in Handlers, EraseCall(h) PROVE TimeoutInv'
  <2>1. /\ handler[h].at = "erase"
        /\ \/ HandlerGoto(h, "cancel")
           \/ handler' = [handler EXCEPT ![h] = Idle]
        /\ UNCHANGED <<call, timeouts_, task, told>>
    BY <1>10 DEF EraseCall
  <2>2. /\ handler'[h].at \in {"cancel", "idle"}
        /\ \A g \in Handlers : g # h => handler'[g] = handler[g]
    BY <1>1, <2>1, HandlerMoves, HandlerStops DEF Places, Idle
  <2> QED
    BY <2>1, <2>2, TimeoutsUntouched
<1>11. ASSUME NEW h \in Handlers, ForgetTimeout(h) PROVE TimeoutInv'
  <2>0. PICK r \in Requests : r = handler[h].request
    BY <1>1, <1>11, BusyHandler DEF ForgetTimeout, Places
  <2>1. /\ handler[h].at = "cancel" /\ timeouts_' = timeouts_ \ {r}
        /\ HandlerGoto(h, IF r \in timeouts_ THEN "remove" ELSE "tell")
        /\ UNCHANGED <<call, task, told>>
    BY <1>11, <2>0 DEF ForgetTimeout
  <2>2. /\ handler'[h].at = IF r \in timeouts_ THEN "remove" ELSE "tell"
        /\ handler'[h].request = r
        /\ \A g \in Handlers : g # h => handler'[g] = handler[g]
    BY <1>1, <2>0, <2>1, HandlerMoves DEF Places
  <2>3. ArmedIsRecorded'
    <3> SUFFICES ASSUME NEW q \in Requests, q \in Scheduled
                 PROVE  \/ call[q] = "scheduled"
                        \/ q \in timeouts_'
                        \/ \E g \in Handlers :
                             handler'[g].at = "remove" /\ handler'[g].request = q
      BY <2>1 DEF ArmedIsRecorded
    <3>1. CASE q = r /\ r \in timeouts_
      BY <2>2, <3>1
    <3>2. CASE ~(q = r /\ r \in timeouts_)
      BY <2>1, <2>2, <3>2 DEF TimeoutInv, ArmedIsRecorded
    <3> QED
      BY <3>1, <3>2
  <2>4. AnswerCancelsTimeout'
    BY <2>1, <2>2 DEF TimeoutInv, AnswerCancelsTimeout
  <2> QED
    BY <2>3, <2>4 DEF TimeoutInv
<1>12. ASSUME NEW h \in Handlers, RemoveTask(h) PROVE TimeoutInv'
  <2>0. PICK r \in Requests : r = handler[h].request
    BY <1>1, <1>12, BusyHandler DEF RemoveTask, Places
  <2>1. /\ handler[h].at = "remove" /\ r \notin Scheduled'
        /\ \A q \in Requests : q # r => task'[q] = task[q]
        /\ UNCHANGED <<call, timeouts_, told>>
    BY <1>1, <1>12, <2>0 DEF RemoveTask, TypeOK
  <2>2. /\ handler'[h].at = "tell" /\ handler'[h].request = r
        /\ handler'[h].outcome = handler[h].outcome
        /\ \A g \in Handlers : g # h => handler'[g] = handler[g]
    BY <1>1, <1>12, <2>0, HandlerMoves DEF RemoveTask, Places
  <2>3. ArmedIsRecorded'
    BY <2>0, <2>1, <2>2 DEF TimeoutInv, ArmedIsRecorded
  <2>4. AnswerCancelsTimeout'
    BY <2>0, <2>1, <2>2 DEF TimeoutInv, AnswerCancelsTimeout
  <2> QED
    BY <2>3, <2>4 DEF TimeoutInv
<1>13. ASSUME NEW h \in Handlers, Tell(h) PROVE TimeoutInv'
  <2>0. PICK r \in Requests : r = handler[h].request
    BY <1>1, <1>13, BusyHandler DEF Tell, Places
  <2>1. /\ handler[h].at = "tell"
        /\ told' = [told EXCEPT ![r] = Append(@, handler[h].outcome)]
        /\ handler' = [handler EXCEPT ![h] = Idle]
        /\ UNCHANGED <<call, timeouts_, task>>
    BY <1>13, <2>0 DEF Tell
  <2>2. /\ handler'[h].at = "idle"
        /\ \A g \in Handlers : g # h => handler'[g] = handler[g]
    BY <1>1, <2>1, HandlerStops DEF Idle
  <2>3. ArmedIsRecorded'
    BY <2>1, <2>2 DEF TimeoutInv, ArmedIsRecorded
  <2>4. told[r] = <<>>
    <3>1. h \in Deciding(r)
      BY <2>0, <2>1 DEF Deciding, HandlersOf, Idle
    <3> QED
      BY <3>1 DEF DecideInv, OneDecides
  <2>5. told'[r][1] = handler[h].outcome
    <3>1. told'[r] = Append(<<>>, handler[h].outcome)
      BY <1>1, <2>1, <2>4 DEF TypeOK
    <3> QED
      BY <3>1
  <2>6. handler[h].outcome \in Answers => r \notin timeouts_ /\ r \notin Scheduled
    <3> SUFFICES ASSUME handler[h].outcome \in Answers
                 PROVE  r \notin timeouts_ /\ r \notin Scheduled
      OBVIOUS
    <3>1. r \notin timeouts_
      BY <2>0, <2>1 DEF TimeoutInv, AnswerCancelsTimeout
    <3>2. call[r] = "sent"
      BY <1>1, <2>0, <2>1, UnsentIsUnanswered
    <3>3. \A g \in Handlers : ~ (handler[g].at = "remove" /\ handler[g].request = r)
      BY <2>0, <2>1, DecidedByOne DEF DecidingPlaces
    <3> QED
      BY <3>1, <3>2, <3>3 DEF TimeoutInv, ArmedIsRecorded
  <2>7. AnswerCancelsTimeout'
    <3>1. \A q \in Requests : q # r => told'[q] = told[q]
      BY <1>1, <2>1 DEF TypeOK
    <3> QED
      BY <2>1, <2>2, <2>5, <2>6, <3>1 DEF TimeoutInv, AnswerCancelsTimeout
  <2> QED
    BY <2>3, <2>7 DEF TimeoutInv
<1>14. CASE UNCHANGED vars
  BY <1>14, TimeoutsUntouched DEF vars
<1> QED
  BY <1>2, <1>3, <1>4, <1>5, <1>6, <1>7, <1>8, <1>9, <1>10, <1>11, <1>12, <1>13,
     <1>14
     DEF Next, CallerStep, HandlerStep
-----------------------------------------------------------------------------
LEMMA InitInv == Init => IInv
<1> SUFFICES ASSUME Init PROVE IInv
  OBVIOUS
<1> USE DEF Init
<1>1. TypeOK
  BY DEF TypeOK, CallState, TaskState, Idle
<1>2. \A r \in Requests : Deciding(r) = {}
  BY DEF Deciding, HandlersOf
<1>3. \A h \in Handlers : handler[h].at = "idle"
  BY DEF Idle
<1>4. UnregisteredIsUndecided /\ OneDecides /\ SlotsFollowCalls
  BY <1>2 DEF UnregisteredIsUndecided, OneDecides, SlotsFollowCalls
<1>5. AnswersWereGiven
  BY EmptyQueue DEF AnswersWereGiven, ToldWhatWasAnswered
<1>6. ArmedIsRecorded /\ AnswerCancelsTimeout
  BY <1>3 DEF ArmedIsRecorded, AnswerCancelsTimeout
<1> QED
  BY <1>1, <1>4, <1>5, <1>6 DEF IInv

LEMMA InvStep == IInv /\ [Next]_vars => IInv'
BY TypeStep, DecideStep, AnswersStep, TimeoutStep DEF IInv, DecideInv, TimeoutInv

\* The inductive invariant holds in every reachable state.
THEOREM Invariance == Spec => []IInv
BY InitInv, InvStep, PTL DEF Spec
-----------------------------------------------------------------------------
(* The properties that the runs check. *)

\* The variables keep their types (rpc_system.hpp, the members).
THEOREM TypesAreKept == Spec => []TypeOK
<1>1. IInv => TypeOK
  BY DEF IInv
<1> QED
  BY <1>1, Invariance, PTL

\* A caller is told of an answer only if the peer that it called gave it: the
\* slots test the connection and the id (rpc_system.hpp, Call).
THEOREM AnswersAreTrue == Spec => []ToldWhatWasAnswered
<1>1. IInv => ToldWhatWasAnswered
  BY DEF IInv, AnswersWereGiven
<1> QED
  BY <1>1, Invariance, PTL

\* The slots are registered and erased with the call that they serve
\* (rpc_system.hpp, Call and HandleCallback).
THEOREM SlotsAndCallsAgree == Spec => []SlotsFollowCalls
<1>1. IInv => SlotsFollowCalls
  BY DEF IInv
<1> QED
  BY <1>1, Invariance, PTL

\* An answered call leaves no timeout and no slots, although the handler drops
\* its mutex between erasing the call, forgetting the timeout and removing the
\* task (rpc_system.hpp, HandleCallback; scheduler_rpc_timeout_handler.cpp,
\* CancelTimeout).
THEOREM AnsweredCallsAreGone == Spec => []AnsweredCallLeavesNothing
<1>1. IInv => AnsweredCallLeavesNothing
  <2> SUFFICES ASSUME IInv, NEW r \in Requests, told[r] # <<>>, told[r][1] \in Answers
               PROVE  r \notin timeouts_ /\ r \notin Scheduled /\ r \notin slots
    BY DEF AnsweredCallLeavesNothing
  <2>1. r \notin timeouts_ /\ r \notin Scheduled
    BY DEF IInv, AnswerCancelsTimeout
  <2>2. call[r] = "sent" /\ r \notin calls_
    BY UnsentIsUnanswered DEF IInv, OneDecides
  <2> QED
    BY <2>1, <2>2 DEF IInv, SlotsFollowCalls
<1> QED
  BY <1>1, Invariance, PTL
-----------------------------------------------------------------------------
(* The promise of RpcCalls is kept, step by step. *)

StatusOfAll == [r \in Requests |-> Status(r)]

LEMMA StatusCases ==
  ASSUME NEW r \in Requests
  PROVE  /\ told[r] # <<>> => Status(r) = <<"told">> \o told[r]
         /\ told[r] = <<>> /\ Deciding(r) # {} =>
              Status(r) = <<"decided", handler[CHOOSE h \in Deciding(r) : TRUE].outcome>>
         /\ told[r] = <<>> /\ Deciding(r) = {} /\ r \in calls_ => Status(r) = <<"open">>
         /\ told[r] = <<>> /\ Deciding(r) = {} /\ r \notin calls_ =>
              Status(r) = <<"unopened">>
BY DEF Status

\* A step that keeps who decides a call, and what, is no step of the contract.
LEMMA StatusUntouched ==
  ASSUME NEW r \in Requests, told'[r] = told[r], Deciding(r)' = Deciding(r),
         \A h \in Deciding(r) : handler'[h].outcome = handler[h].outcome,
         r \in calls_' <=> r \in calls_
  PROVE  Status(r)' = Status(r)
<1>1. CASE told[r] = <<>> /\ Deciding(r) # {}
  <2>1. (CHOOSE h \in Deciding(r) : TRUE)' = CHOOSE h \in Deciding(r) : TRUE
    OBVIOUS
  <2> QED
    BY <1>1, <2>1 DEF Status
<1>2. CASE ~(told[r] = <<>> /\ Deciding(r) # {})
  BY <1>2 DEF Status
<1> QED
  BY <1>1, <1>2

\* The steps of the contract, in terms of the status of one request.
LEMMA ContractMoves ==
  ASSUME NEW r \in Requests,
         \A q \in Requests : q # r => Status(q)' = Status(q)
  PROVE  /\ Status(r) = <<"unopened">> /\ Status(r)' = <<"open">> => Contract!Open(r)
         /\ \A outcome \in Outcomes :
              /\ Status(r) = <<"open">> /\ Status(r)' = <<"decided", outcome>> =>
                   Contract!Decide(r, outcome)
              /\ /\ Status(r) = <<"decided", outcome>>
                 /\ Status(r)' = <<"told", outcome>>
                 => Contract!Tell(r, outcome)
         /\ Status(r)' = Status(r) => UNCHANGED Contract!vars
<1>1. ASSUME NEW st, Status(r)' = st
      PROVE  StatusOfAll' = [StatusOfAll EXCEPT ![r] = st]
  BY <1>1 DEF StatusOfAll
<1>2. StatusOfAll[r] = Status(r)
  BY DEF StatusOfAll
<1>3. Status(r)' = Status(r) => StatusOfAll' = StatusOfAll
  BY DEF StatusOfAll
<1> QED
  BY <1>1, <1>2, <1>3, Zenon
     DEF Contract!Open, Contract!Decide, Contract!Tell, Contract!vars, StatusOfAll

LEMMA ContractUntouched ==
  ASSUME \A r \in Requests : told'[r] = told[r] /\ Deciding(r)' = Deciding(r),
         \A r \in Requests :
           \A h \in Deciding(r) : handler'[h].outcome = handler[h].outcome,
         UNCHANGED calls_
  PROVE  UNCHANGED Contract!vars
<1>1. \A r \in Requests : Status(r)' = Status(r)
  BY StatusUntouched
<1> QED
  BY <1>1 DEF Contract!vars

LEMMA ContractInit == Init => Contract!Init
<1> SUFFICES ASSUME Init PROVE Contract!Init
  OBVIOUS
<1>1. \A r \in Requests : told[r] = <<>> /\ Deciding(r) = {} /\ r \notin calls_
  BY DEF Init, Deciding, HandlersOf
<1>2. \A r \in Requests : Status(r) = <<"unopened">>
  BY <1>1, StatusCases
<1> QED
  BY <1>2 DEF Contract!Init

\* Register opens the call.
LEMMA RegisterOpens ==
  ASSUME IInv, NEW r \in Requests, Register(r)
  PROVE  Contract!Next
<1>1. /\ call[r] = "subscribed" /\ calls_' = calls_ \cup {r}
      /\ UNCHANGED <<told, handler>>
  BY DEF Register
<1>2. \A q \in Requests : Deciding(q)' = Deciding(q)
  BY <1>1, DecidingUntouched
<1>3. told[r] = <<>> /\ Deciding(r) = {} /\ r \notin calls_
  BY <1>1 DEF IInv, UnregisteredIsUndecided
<1>4. Status(r) = <<"unopened">>
  BY <1>3, StatusCases
<1>5. Status(r)' = <<"open">>
  BY <1>1, <1>2, <1>3 DEF Status
<1>6. \A q \in Requests : q # r => Status(q)' = Status(q)
  BY <1>1, <1>2, StatusUntouched
<1> QED
  BY <1>4, <1>5, <1>6, ContractMoves DEF Contract!Next

\* Who erases the call decides it.
LEMMA EraseDecides ==
  ASSUME IInv, NEW h \in Handlers, EraseCall(h), handler[h].request \in calls_
  PROVE  Contract!Next
<1>0. TypeOK
  BY DEF IInv
<1>1. PICK r \in Requests : r = handler[h].request
  BY <1>0, BusyHandler DEF EraseCall, Places
<1>2. PICK outcome \in Outcomes : outcome = handler[h].outcome
  BY <1>0, BusyHandler DEF EraseCall, Places
<1>3. /\ handler[h].at = "erase" /\ calls_' = calls_ \ {r} /\ HandlerGoto(h, "cancel")
      /\ UNCHANGED told
  BY <1>1 DEF EraseCall
<1>4. \A q \in Requests :
        Deciding(q)' = IF q = r THEN Deciding(q) \cup {h} ELSE Deciding(q)
  BY <1>0, <1>1, <1>3, DecidingIsTaken
<1>5. /\ handler'[h].outcome = outcome
      /\ \A g \in Handlers : g # h => handler'[g] = handler[g]
  BY <1>0, <1>2, <1>3, HandlerMoves DEF Places
<1>6. told[r] = <<>> /\ Deciding(r) = {} /\ r \in calls_
  BY <1>1 DEF IInv, OneDecides
<1>7. Status(r) = <<"open">>
  BY <1>6, StatusCases
<1>8. Status(r)' = <<"decided", outcome>>
  <2>1. told'[r] = <<>> /\ Deciding(r)' = {h}
    BY <1>3, <1>4, <1>6
  <2>2. (CHOOSE g \in Deciding(r) : TRUE)' = h
    BY <2>1
  <2> QED
    BY <1>5, <2>1, <2>2 DEF Status
<1>9. ASSUME NEW q \in Requests, q # r PROVE Status(q)' = Status(q)
  <2>1. \A g \in Deciding(q) : g \in Handlers /\ g # h
    BY <1>1, <1>9 DEF Deciding, HandlersOf
  <2>2. \A g \in Deciding(q) : handler'[g].outcome = handler[g].outcome
    BY <1>5, <2>1
  <2> QED
    BY <1>3, <1>4, <1>9, <2>2, StatusUntouched
<1> QED
  BY <1>7, <1>8, <1>9, ContractMoves DEF Contract!Next

\* The handler that decided the call tells its outcome.
LEMMA TellTells ==
  ASSUME IInv, NEW h \in Handlers, Tell(h)
  PROVE  Contract!Next
<1>0. TypeOK
  BY DEF IInv
<1>1. PICK r \in Requests : r = handler[h].request
  BY <1>0, BusyHandler DEF Tell, Places
<1>2. PICK outcome \in Outcomes : outcome = handler[h].outcome
  BY <1>0, BusyHandler DEF Tell, Places
<1>3. /\ handler[h].at = "tell"
      /\ told' = [told EXCEPT ![r] = Append(@, outcome)]
      /\ handler' = [handler EXCEPT ![h] = Idle]
      /\ UNCHANGED calls_
  BY <1>1, <1>2 DEF Tell, tables
<1>4. \A q \in Requests : Deciding(q)' = Deciding(q) \ {h}
  BY <1>0, <1>3, DecidingIsDone
<1>5. Deciding(r) = {h} /\ told[r] = <<>>
  <2>1. h \in Deciding(r)
    BY <1>1, <1>3 DEF Deciding, HandlersOf, Idle
  <2> QED
    BY <2>1 DEF IInv, OneDecides
<1>6. Status(r) = <<"decided", outcome>>
  <2>1. (CHOOSE g \in Deciding(r) : TRUE) = h
    BY <1>5
  <2> QED
    BY <1>2, <1>5, <2>1 DEF Status
<1>7. Status(r)' = <<"told", outcome>>
  <2>1. told'[r] = Append(<<>>, outcome)
    BY <1>0, <1>3, <1>5 DEF TypeOK
  <2>2. told'[r] = <<outcome>> /\ told'[r] # <<>>
    BY <2>1
  <2>3. Status(r)' = <<"told">> \o told'[r]
    BY <2>2 DEF Status
  <2>4. <<"told">> \o <<outcome>> = <<"told", outcome>>
    BY OneAndOne
  <2> QED
    BY <2>2, <2>3, <2>4
<1>8. ASSUME NEW q \in Requests, q # r PROVE Status(q)' = Status(q)
  <2>1. h \notin Deciding(q)
    BY <1>1, <1>8 DEF Deciding, HandlersOf
  <2>2. Deciding(q)' = Deciding(q)
    BY <1>4, <2>1
  <2>3. told'[q] = told[q]
    BY <1>0, <1>3, <1>8 DEF TypeOK
  <2>4. \A g \in Deciding(q) : handler'[g].outcome = handler[g].outcome
    BY <1>0, <1>3, <2>1 DEF Deciding, HandlersOf, TypeOK
  <2> QED
    BY <1>3, <2>2, <2>3, <2>4, StatusUntouched
<1> QED
  BY <1>6, <1>7, <1>8, ContractMoves DEF Contract!Next

LEMMA ContractStep == IInv /\ [Next]_vars => [Contract!Next]_(Contract!vars)
<1> SUFFICES ASSUME IInv, [Next]_vars PROVE [Contract!Next]_(Contract!vars)
  OBVIOUS
<1> USE DEF caller, tables, network
<1>1. TypeOK
  BY DEF IInv
<1>2. ASSUME UNCHANGED <<handler, calls_, told>> PROVE UNCHANGED Contract!vars
  BY <1>2, DecidingUntouched, ContractUntouched
<1>3. ASSUME NEW r \in Requests,
             Subscribe(r) \/ ScheduleTimeout(r) \/ RecordTimeout(r) \/ Send(r)
      PROVE  UNCHANGED Contract!vars
  BY <1>2, <1>3 DEF Subscribe, ScheduleTimeout, RecordTimeout, Send
<1>3a. ASSUME NEW due \in SUBSET Requests, CollectTasks(due) PROVE UNCHANGED Contract!vars
  BY <1>2, <1>3a DEF CollectTasks
<1>4. ASSUME NEW r \in Requests, Register(r) PROVE Contract!Next
  BY <1>4, RegisterOpens
<1>5. ASSUME NEW r \in Requests, NEW from \in Connections, NEW kind \in Answers,
             Answer(r, from, kind)
      PROVE  UNCHANGED Contract!vars
  BY <1>2, <1>5 DEF Answer
<1>6. ASSUME NEW c \in Connections, Disconnect(c) PROVE UNCHANGED Contract!vars
  BY <1>2, <1>6 DEF Disconnect
<1>7. ASSUME NEW h \in Handlers, handler[h] = Idle,
             NEW r \in Requests, NEW outcome \in Outcomes, StartHandling(h, r, outcome),
             UNCHANGED <<calls_, told>>
      PROVE  UNCHANGED Contract!vars
  <2>1. /\ handler'[h].at = "erase"
        /\ \A g \in Handlers : g # h => handler'[g] = handler[g]
    BY <1>1, <1>7, HandlerStarts
  <2>2. \A q \in Requests : Deciding(q)' = Deciding(q)
    BY <1>7, <2>1, DecidingIsKept
  <2>3. \A q \in Requests : \A g \in Deciding(q) : g \in Handlers /\ g # h
    BY <1>7 DEF Deciding, HandlersOf
  <2> QED
    BY <1>7, <2>1, <2>2, <2>3, ContractUntouched
<1>8. ASSUME NEW w \in Workers, Deliver(w) PROVE UNCHANGED Contract!vars
  <2>1. /\ Head(inbox).request \in Requests /\ Head(inbox).kind \in Outcomes
        /\ w \in Handlers
    BY <1>1, <1>8, FirstMessage DEF Deliver, Handlers
  <2> QED
    BY <1>2, <1>7, <1>8, <2>1 DEF Deliver
<1>9. ASSUME NEW r \in Requests, RunTimeout(r) PROVE UNCHANGED Contract!vars
  <2>1. timer \in Handlers /\ "timeout" \in Outcomes
    BY DEF Handlers, Outcomes
  <2> QED
    BY <1>7, <1>9, <2>1 DEF RunTimeout
<1>10. ASSUME NEW h \in Handlers, EraseCall(h) PROVE [Contract!Next]_(Contract!vars)
  <2>1. CASE handler[h].request \in calls_
    BY <1>10, <2>1, EraseDecides
  <2>2. CASE handler[h].request \notin calls_
    <3>1. /\ handler[h].at = "erase" /\ handler' = [handler EXCEPT ![h] = Idle]
          /\ UNCHANGED <<calls_, told>>
      BY <1>10, <2>2 DEF EraseCall
    <3>2. handler'[h] = Idle /\ \A g \in Handlers : g # h => handler'[g] = handler[g]
      BY <1>1, <3>1, HandlerStops
    <3>3. \A q \in Requests : Deciding(q)' = Deciding(q)
      BY <3>1, <3>2, DecidingIsKept
    <3>4. \A q \in Requests : \A g \in Deciding(q) : g \in Handlers /\ g # h
      BY <3>1 DEF Deciding, HandlersOf
    <3> QED
      BY <3>1, <3>2, <3>3, <3>4, ContractUntouched
  <2> QED
    BY <2>1, <2>2
<1>11. ASSUME NEW h \in Handlers, ForgetTimeout(h) \/ RemoveTask(h)
       PROVE  UNCHANGED Contract!vars
  <2>1. /\ handler[h].at \in {"cancel", "remove"}
        /\ \E place \in {"remove", "tell"} : HandlerGoto(h, place)
        /\ UNCHANGED <<calls_, told>>
    BY <1>11 DEF ForgetTimeout, RemoveTask
  <2>2. handler[h] # Idle
    BY <1>1, <2>1, BusyHandler DEF Places
  <2>3. /\ handler'[h] # Idle /\ handler'[h].at \in DecidingPlaces
        /\ handler'[h].request = handler[h].request
        /\ handler'[h].outcome = handler[h].outcome
        /\ \A g \in Handlers : g # h => handler'[g] = handler[g]
    BY <1>1, <2>1, HandlerMoves DEF Places, DecidingPlaces
  <2>4. \A q \in Requests : Deciding(q)' = Deciding(q)
    BY <2>1, <2>2, <2>3, DecidingIsKept DEF DecidingPlaces
  <2>5. \A g \in Handlers : handler'[g].outcome = handler[g].outcome
    BY <2>3
  <2>6. \A q \in Requests : Deciding(q) \subseteq Handlers
    BY DEF Deciding, HandlersOf
  <2> QED
    BY <2>1, <2>4, <2>5, <2>6, ContractUntouched
<1>12. ASSUME NEW h \in Handlers, Tell(h) PROVE Contract!Next
  BY <1>12, TellTells
<1>13. CASE UNCHANGED vars
  BY <1>2, <1>13 DEF vars
<1> QED
  BY <1>3, <1>3a, <1>4, <1>5, <1>6, <1>8, <1>9, <1>10, <1>11, <1>12, <1>13
     DEF Next, CallerStep, HandlerStep

\* RpcSystem implements RpcCalls: whatever answers, repeated answers and
\* timeouts race for a call, one outcome is decided for it and told, once
\* (rpc_system.hpp, Call and HandleCallback).
THEOREM OneOutcomeIsTold == Spec => OneOutcomePerCall
<1>1. Init => Contract!Init
  BY ContractInit
<1>2. IInv /\ [Next]_vars => [Contract!Next]_(Contract!vars)
  BY ContractStep
<1> QED
  BY <1>1, <1>2, Invariance, PTL DEF Spec, OneOutcomePerCall, Contract!Spec
=============================================================================
