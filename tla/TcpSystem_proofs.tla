-------------------------- MODULE TcpSystem_proofs --------------------------
(***************************************************************************)
(* Proofs of the safety properties of TcpSystem, for every connector and   *)
(* executor, any senders and any number of connections, frames and calls.  *)
(***************************************************************************)
EXTENDS TcpSystem, SequenceLemmas, FiniteSetTheorems

(* The inductive invariant. *)

Event == {"connected", "disconnected", "message"} \X Nat
Message == {"message"} \X Nat
Task == [id : ConnectionId, n : Nat, kind : FrameKind]

IoState ==
  [at : {"free", "rearm"}, id : {0}]
    \cup [at : {"created", "started", "removed"}, id : ConnectionId]
CallState == [at : {"idle", "send", "disconnect"}, targets : SUBSET ConnectionId]

TypeOK ==
  /\ setup \in Setups
  /\ system \in {"new", "up", "tableGone", "closing", "stopping", "gone"}
  /\ accept \in {"none", "armed", "completed", "failed", "aborted"}
  /\ resolving \in Nat /\ connecting \in Nat /\ asked \in Nat /\ refused \in Nat
  /\ io \in IoState
  /\ connections_ \subseteq ConnectionId
  /\ next_connection_id_ \in 1..(MaxConnections + 1)
  /\ link \in [ConnectionId -> {"none", "up", "lost", "closed"}]
  /\ reading \subseteq ConnectionId
  /\ writes \in [ConnectionId -> Nat]
  /\ lateReads \subseteq ConnectionId /\ lateWrites \in [ConnectionId -> Nat]
  /\ failedWrites \subseteq ConnectionId
  /\ call \in [Senders -> CallState]
  /\ tasks \in Seq(Task)
  /\ frames \in Nat
  /\ received \in [ConnectionId -> Seq(Message)]
  /\ log \in [ConnectionId -> Seq(Event)]
  /\ calls \in Nat

\* Only an acceptor accepts, and an accept that has completed is followed up.
AcceptGoesOn ==
  /\ accept # "none" \/ io.at = "rearm" => setup.connector = "acceptor"
  /\ accept = "completed" => io.at \in {"created", "started", "rearm"}

ConnectsAddUp ==
  setup.connector = "resolver" /\ system \notin {"stopping", "gone"} =>
    asked = resolving + connecting + refused + (next_connection_id_ - 1)

\* When the io thread has been joined, it is in no handler.
JoinedIsFree == system = "gone" => io.at = "free"

\* The io thread is making connection c, and its owner does not know it yet.
Making(c) == io.at \in {"created", "started"} /\ io.id = c

\* What refers to a connection refers to one that exists; its owner knows of
\* all that exist but the one that is being made.
OnlyMadeOnes ==
  /\ io.at \in {"created", "started", "removed"} =>
       io.id \in ConnectionId /\ io.id < next_connection_id_
  /\ \A c \in ConnectionId :
       /\ log[c] # <<>> <=> c < next_connection_id_ /\ ~ Making(c)
       /\ c \in reading => c < next_connection_id_ /\ ~ (io.at = "created" /\ io.id = c)
       /\ writes[c] > 0 \/ c \in connections_ => c < next_connection_id_
       /\ \A s \in Senders : c \in call[s].targets => c < next_connection_id_
  /\ \A i \in DOMAIN tasks : log[tasks[i].id] # <<>>

\* With an executor that is inline no task waits.
InlineNeverWaits == setup.executor = "inline" => tasks = <<>>

\* A connection that is reported gone is read no more, unless a write failed.
GoneIsNotRead ==
  \A c \in ConnectionId \ failedWrites :
    /\ Heard(c, "disconnected") => c \notin reading
    /\ io.at = "removed" /\ io.id = c => c \notin reading /\ ~ Heard(c, "disconnected")

\* TableKnowsWhoIsUp, connection by connection, and before Initialize too.
TableIsTrue ==
  system \in {"new", "up"} =>
    \A c \in ConnectionId :
      c \in connections_ <=>
        \/ Making(c)
        \/ /\ Heard(c, "connected")
           /\ ~ Heard(c, "disconnected")
           /\ ~ (io.at = "removed" /\ io.id = c)

\* Messages and tasks are in the order in which their frames were read.
FramesInOrder ==
  /\ \A c \in ConnectionId : \A i, j \in DOMAIN received[c] :
       received[c][i][2] <= frames /\ (i < j => received[c][i][2] < received[c][j][2])
  /\ \A i, j \in DOMAIN tasks :
       tasks[i].n <= frames /\ (i < j => tasks[i].n < tasks[j].n)

Handled(c) == MessagesAmong(log[c], Len(log[c]))

\* A process that goes on after its system is gone may have lost its tasks.
TasksAreLost == system = "gone" /\ tasks = <<>>

\* Task t will tell what message m is.
Carries(t, c, m) == t.id = c /\ Decode(t.kind) /\ t.n = m[2]

\* Of the messages received of a connection the first were handled, and the
\* others are waiting, each in a task.
RestIsWaiting ==
  \A c \in ConnectionId :
    /\ Handled(c) <= Len(received[c])
    /\ \/ TasksAreLost
       \/ \A j \in (Handled(c) + 1)..Len(received[c]) :
            \E i \in DOMAIN tasks : Carries(tasks[i], c, received[c][j])
    /\ \A i \in DOMAIN tasks : tasks[i].id = c /\ Decode(tasks[i].kind) =>
         \E j \in (Handled(c) + 1)..Len(received[c]) : Carries(tasks[i], c, received[c][j])

IInv ==
  /\ TypeOK
  /\ AcceptGoesOn /\ ConnectsAddUp
  /\ JoinedIsFree
  /\ OnlyMadeOnes
  /\ InlineNeverWaits /\ GoneIsNotRead /\ EventsInOrder
  /\ TableIsTrue
  /\ FramesInOrder /\ RestIsWaiting /\ HandledAsReceived
-----------------------------------------------------------------------------
(* Type correctness. *)

\* Send, Broadcast and FindToDisconnect are lookups.
Lookup ==
  \E s \in Senders, range \in SUBSET ConnectionId, next \in {"send", "disconnect"} :
    GetConnections(s, range, next)

\* The steps, with the lookups in one.
LEMMA Steps ==
  ASSUME [Next]_vars
  PROVE  \/ Initialize \/ AcceptorConnect \/ ResolverConnect
         \/ Accepted \/ Resolved \/ Connected
         \/ StartAccept \/ InitializeConnection \/ OnConnected \/ OnDisconnected
         \/ \E c \in ConnectionId :
              \/ \E kind \in FrameKind : Read(c, kind)
              \/ FailRead(c) \/ FinishWrite(c) \/ FailWrite(c) \/ Lose(c)
         \/ RunTask
         \/ Lookup
         \/ \E s \in Senders, c \in ConnectionId : SendBytes(s, c) \/ Disconnect(s, c)
         \/ DestroyTable \/ CloseAcceptor \/ StopIo \/ JoinIo
         \/ UNCHANGED vars
<1>1. ASSUME NEW s \in Senders, NEW c \in ConnectionId, Send(s, c) \/ FindToDisconnect(s, c)
      PROVE  Lookup
  <2>1. {c} \in SUBSET ConnectionId
    OBVIOUS
  <2> QED
    BY <1>1, <2>1 DEF Send, FindToDisconnect, Lookup
<1>2. ASSUME NEW s \in Senders, Broadcast(s) PROVE Lookup
  BY <1>2 DEF Broadcast, Lookup
<1> QED
  BY <1>1, <1>2 DEF Next, Continue

LEMMA EmplaceTypes ==
  ASSUME TypeOK, Emplace
  PROVE  /\ connections_' \subseteq ConnectionId
         /\ next_connection_id_' \in 1..(MaxConnections + 1)
         /\ link' \in [ConnectionId -> {"none", "up", "lost", "closed"}]
         /\ io' = [at |-> "created", id |-> next_connection_id_]
         /\ io' \in IoState
         /\ UNCHANGED <<reading, writes, late, failedWrites>>
BY BoundsAssumption DEF Emplace, SetTable, TypeOK, ConnectionId, IoState

\* The states of the io thread and of a call that steps lead to.
LEMMA States ==
  /\ Free \in IoState /\ [at |-> "rearm", id |-> 0] \in IoState
  /\ \A c \in ConnectionId : [at |-> "removed", id |-> c] \in IoState
  /\ io \in IoState /\ io.at = "created" =>
       io.id \in ConnectionId /\ [io EXCEPT !.at = "started"] \in IoState
  /\ Idle \in CallState /\ Idle.targets = {}
  /\ \A targets \in SUBSET ConnectionId : \A next \in {"send", "disconnect"} :
       [at |-> next, targets |-> targets] \in CallState
BY DEF IoState, CallState, Free, Idle

LEMMA DoneTypes ==
  ASSUME TypeOK, NEW s \in Senders, NEW c \in ConnectionId, Done(s, c)
  PROVE  /\ call' \in [Senders -> CallState]
         /\ \A u \in Senders : call'[u].targets \subseteq call[u].targets
<1>1. call \in [Senders -> CallState]
  BY DEF TypeOK
<1>2. PICK left \in SUBSET ConnectionId : left = call[s].targets \ {c}
  BY <1>1 DEF CallState
<1>3. PICK new : new = IF left = {} THEN Idle ELSE [at |-> call[s].at, targets |-> left]
  OBVIOUS
<1>4. call' = [call EXCEPT ![s] = new]
  BY <1>2, <1>3 DEF Done
<1>5. new \in CallState /\ new.targets \subseteq call[s].targets
  BY <1>1, <1>2, <1>3 DEF CallState, Idle
<1> QED
  BY <1>1, <1>4, <1>5

LEMMA LookupTypes ==
  ASSUME TypeOK, Lookup
  PROVE  /\ call' \in [Senders -> CallState]
         /\ \A u \in Senders : call'[u].targets \subseteq call[u].targets \cup connections_
         /\ calls' \in Nat
<1>1. PICK s \in Senders, range \in SUBSET ConnectionId, next \in {"send", "disconnect"} :
        GetConnections(s, range, next)
  BY DEF Lookup
<1>2. PICK targets \in SUBSET ConnectionId : targets = range \cap connections_
  OBVIOUS
<1>3. PICK new \in CallState :
        /\ call' = [call EXCEPT ![s] = new]
        /\ new.targets \subseteq connections_
  <2>1. CASE targets = {}
    <3>1. call' = [call EXCEPT ![s] = Idle]
      BY <1>1, <1>2, <2>1 DEF GetConnections
    <3> QED
      BY <3>1, States
  <2>2. CASE targets # {}
    <3>1. call' = [call EXCEPT ![s] = [at |-> next, targets |-> targets]]
      BY <1>1, <1>2, <2>2 DEF GetConnections
    <3> QED
      BY <1>2, <3>1, States
  <2> QED
    BY <2>1, <2>2
<1>4. calls' \in Nat /\ call \in [Senders -> CallState]
  BY <1>1 DEF GetConnections, TypeOK
<1> QED
  BY <1>3, <1>4

\* An event is told, a message is received and a task posted in the end.
LEMMA TellTypes ==
  ASSUME TypeOK, NEW c \in ConnectionId, NEW n \in Nat,
         NEW event \in {"connected", "disconnected", "message"}, Tell(c, event, n)
  PROVE  /\ log' \in [ConnectionId -> Seq(Event)]
         /\ log'[c] = Append(log[c], <<event, n>>)
         /\ \A d \in ConnectionId : d # c => log'[d] = log[d]
<1>1. log \in [ConnectionId -> Seq(Event)] /\ <<event, n>> \in Event
  BY DEF TypeOK, Event
<1>2. Append(log[c], <<event, n>>) \in Seq(Event)
  BY <1>1, AppendProperties
<1> QED
  BY <1>1, <1>2 DEF Tell

LEMMA HandleTypes ==
  ASSUME TypeOK, NEW task \in Task, HandleMessage(task)
  PROVE  log' \in [ConnectionId -> Seq(Event)]
BY TellTypes DEF HandleMessage, Task, TypeOK

LEMMA ReadTypes ==
  ASSUME TypeOK, NEW c \in ConnectionId, NEW kind \in FrameKind, Read(c, kind)
  PROVE  TypeOK'
<1>1. frames' = frames + 1 /\ frames \in Nat /\ frames' \in Nat
  BY DEF Read, TypeOK
<1>2. /\ UNCHANGED <<setup, system, connector, link, writes, lateWrites, failedWrites, callers>>
      /\ lateReads' \subseteq ConnectionId
  BY DEF Read, TypeOK
<1>3. CASE kind = "tooLong"
  <2>1. /\ reading' = reading \ {c}
        /\ io' = [at |-> "removed", id |-> c]
        /\ connections_' \subseteq ConnectionId
        /\ UNCHANGED <<next_connection_id_, tasks, received, log>>
    BY <1>3 DEF Read, OnDisconnect, RemoveConnection, SetTable, TypeOK
  <2>2. io' \in IoState
    BY <2>1, States
  <2> QED
    BY <1>1, <1>2, <2>1, <2>2 DEF TypeOK, connector, callers
<1>4. CASE kind # "tooLong"
  <2>1. Process(c, kind) /\ UNCHANGED <<reading, io, table>>
    BY <1>4 DEF Read
  <2>2. CASE DecodeEnvelope(kind) /\ HasHandler(kind)
    <3>1. PICK task \in Task : task = [id |-> c, n |-> frames + 1, kind |-> kind]
      BY <1>1 DEF Task
    <3>2. /\ Post(task)
          /\ received' = [received EXCEPT ![c] = IF Decode(kind)
                            THEN Append(@, <<"message", frames + 1>>) ELSE @]
      BY <2>1, <2>2, <3>1 DEF Process
    <3>3. received' \in [ConnectionId -> Seq(Message)]
      <4>1. received \in [ConnectionId -> Seq(Message)] /\ <<"message", frames + 1>> \in Message
        BY <1>1 DEF TypeOK, Message
      <4>2. Append(received[c], <<"message", frames + 1>>) \in Seq(Message)
        BY <4>1, AppendProperties
      <4> QED
        BY <3>2, <4>1, <4>2
    <3>4. tasks' \in Seq(Task) /\ log' \in [ConnectionId -> Seq(Event)]
      <4>1. Append(tasks, task) \in Seq(Task)
        BY AppendProperties DEF TypeOK
      <4> QED
        BY <3>2, <4>1, HandleTypes DEF Post, TypeOK
    <3> QED
      BY <1>1, <1>2, <2>1, <3>3, <3>4 DEF TypeOK, connector, table, callers
  <2>3. CASE ~ (DecodeEnvelope(kind) /\ HasHandler(kind))
    <3>1. UNCHANGED <<tasks, log, received>>
      BY <2>1, <2>3 DEF Process
    <3> QED
      BY <1>1, <1>2, <2>1, <3>1 DEF TypeOK, connector, table, callers
  <2> QED
    BY <2>2, <2>3
<1> QED
  BY <1>3, <1>4

LEMMA RunTaskTypes ==
  ASSUME TypeOK, RunTask
  PROVE  TypeOK'
<1>1. UNCHANGED <<setup, system, connector, io, table, sockets, frames, received, callers>>
  BY DEF RunTask
<1>2. tasks \in Seq(Task) /\ tasks # <<>>
  BY DEF RunTask, TypeOK
<1>3. Head(tasks) \in Task /\ Tail(tasks) \in Seq(Task)
  BY <1>2, RangeOfTail
<1>4. tasks' \in Seq(Task) /\ log' \in [ConnectionId -> Seq(Event)]
  <2>1. CASE HandleMessage(Head(tasks)) /\ tasks' = Tail(tasks)
    BY <1>3, <2>1, HandleTypes
  <2>2. CASE tasks' = <<>> /\ UNCHANGED log
    BY <2>2, EmptySeq DEF TypeOK
  <2> QED
    BY <2>1, <2>2 DEF RunTask
<1> QED
  BY <1>1, <1>4 DEF TypeOK, connector, table, sockets, late, callers

LEMMA TypeStep == TypeOK /\ [Next]_vars => TypeOK'
<1> SUFFICES ASSUME TypeOK, [Next]_vars PROVE TypeOK'
  OBVIOUS
<1> USE DEF connector, table, sockets, late, messages, callers
<1>1. CASE Initialize \/ JoinIo
  BY <1>1 DEF Initialize, JoinIo, TypeOK
<1>2. CASE AcceptorConnect \/ ResolverConnect
  BY <1>2 DEF AcceptorConnect, ResolverConnect, TypeOK
<1>3. CASE Accepted
  <2>1. CASE Emplace
    BY <1>3, <2>1, EmplaceTypes DEF Accepted, TypeOK
  <2>2. CASE io' \in {[at |-> "rearm", id |-> 0], io} /\ UNCHANGED <<table, sockets>>
    BY <1>3, <2>2, States DEF Accepted, TypeOK
  <2> QED
    BY <1>3, <2>1, <2>2 DEF Accepted
<1>4. CASE Resolved
  BY <1>4 DEF Resolved, OnConnectionFailed, TypeOK
<1>5. CASE Connected
  <2>1. CASE Emplace /\ UNCHANGED refused
    BY <1>5, <2>1, EmplaceTypes DEF Connected, TypeOK
  <2>2. CASE OnConnectionFailed /\ UNCHANGED <<io, table, sockets>>
    BY <1>5, <2>2 DEF Connected, OnConnectionFailed, TypeOK
  <2> QED
    BY <1>5, <2>1, <2>2 DEF Connected
<1>6. CASE StartAccept
  BY <1>6, States DEF StartAccept, TypeOK
<1>7. CASE InitializeConnection
  <2>1. io.id \in ConnectionId /\ io' \in IoState
    BY <1>7, States DEF InitializeConnection, TypeOK
  <2> QED
    BY <1>7, <2>1 DEF InitializeConnection, TypeOK
<1>8. CASE OnConnected
  <2>1. io.id \in ConnectionId /\ Tell(io.id, "connected", 0) /\ 0 \in Nat
    BY <1>8 DEF OnConnected, TypeOK, IoState
  <2>2. log' \in [ConnectionId -> Seq(Event)]
    BY <2>1, TellTypes
  <2> QED
    BY <1>8, <2>2, States DEF OnConnected, TypeOK
<1>9. CASE OnDisconnected
  <2>1. io.id \in ConnectionId /\ Tell(io.id, "disconnected", 0) /\ 0 \in Nat
    BY <1>9 DEF OnDisconnected, TypeOK, IoState
  <2>2. log' \in [ConnectionId -> Seq(Event)]
    BY <2>1, TellTypes
  <2> QED
    BY <1>9, <2>2, States DEF OnDisconnected, TypeOK
<1>10. ASSUME NEW c \in ConnectionId, NEW kind \in FrameKind, Read(c, kind) PROVE TypeOK'
  BY <1>10, ReadTypes
<1>11. ASSUME NEW c \in ConnectionId, FailRead(c) \/ FailWrite(c) PROVE TypeOK'
  <2>1. io' \in IoState /\ connections_' \subseteq ConnectionId
        /\ UNCHANGED next_connection_id_
    BY <1>11, States
       DEF FailRead, FailWrite, OnDisconnect, RemoveConnection, SetTable, TypeOK
  <2>2. reading' \subseteq ConnectionId /\ failedWrites' \subseteq ConnectionId
    BY <1>11 DEF FailRead, FailWrite, TypeOK
  <2>3. writes' \in [ConnectionId -> Nat]
    <3>1. CASE FailRead(c)
      BY <3>1 DEF FailRead, TypeOK
    <3>2. CASE FailWrite(c)
      <4>1. writes[c] \in Nat /\ lateWrites[c] \in Nat /\ writes[c] > lateWrites[c]
            /\ writes' = [writes EXCEPT ![c] = @ - 1]
        BY <3>2 DEF FailWrite, TypeOK
      <4>2. writes[c] - 1 \in Nat
        BY <4>1
      <4> QED
        BY <4>1, <4>2 DEF TypeOK
    <3> QED
      BY <1>11, <3>1, <3>2
  <2>4. UNCHANGED <<setup, system, connector, link, late, messages, log, callers>>
    BY <1>11 DEF FailRead, FailWrite
  <2> QED
    BY <2>1, <2>2, <2>3, <2>4 DEF TypeOK
<1>12. ASSUME NEW c \in ConnectionId, FinishWrite(c) \/ Lose(c) PROVE TypeOK'
  <2>1. CASE FinishWrite(c)
    <3>1. writes[c] - 1 \in Nat /\ writes' \in {writes, [writes EXCEPT ![c] = @ - 1]}
      BY <2>1 DEF FinishWrite, TypeOK
    <3>2. \/ UNCHANGED lateWrites
          \/ lateWrites[c] - 1 \in Nat /\ lateWrites' = [lateWrites EXCEPT ![c] = @ - 1]
      BY <2>1 DEF FinishWrite, TypeOK
    <3>3. writes' \in [ConnectionId -> Nat] /\ lateWrites' \in [ConnectionId -> Nat]
      BY <3>1, <3>2 DEF TypeOK
    <3> QED
      BY <2>1, <3>3 DEF FinishWrite, TypeOK
  <2>2. CASE Lose(c)
    BY <2>2 DEF Lose, TypeOK
  <2> QED
    BY <1>12, <2>1, <2>2
<1>13. CASE RunTask
  BY <1>13, RunTaskTypes
<1>14. CASE Lookup
  BY <1>14, LookupTypes DEF Lookup, GetConnections, TypeOK
<1>15. ASSUME NEW s \in Senders, NEW c \in ConnectionId, SendBytes(s, c) \/ Disconnect(s, c)
       PROVE  TypeOK'
  <2>1. call' \in [Senders -> CallState]
    BY <1>15, DoneTypes DEF SendBytes, Disconnect
  <2>2. writes' \in [ConnectionId -> Nat]
    <3>1. UNCHANGED writes \/ writes' = [writes EXCEPT ![c] = @ + 1]
      BY <1>15 DEF SendBytes, Disconnect
    <3>2. writes[c] + 1 \in Nat
      BY DEF TypeOK
    <3> QED
      BY <3>1, <3>2 DEF TypeOK
  <2>3. link' \in [ConnectionId -> {"none", "up", "lost", "closed"}]
    BY <1>15 DEF SendBytes, Disconnect, Close, TypeOK
  <2>3a. lateReads' \subseteq ConnectionId
    BY <1>15 DEF SendBytes, Disconnect, Close, TypeOK
  <2>3b. lateWrites' \in [ConnectionId -> Nat]
    <3>1. \/ UNCHANGED lateWrites
          \/ \E n \in Nat : lateWrites' = [lateWrites EXCEPT ![c] = n]
      BY <1>15 DEF SendBytes, Disconnect, Close, TypeOK
    <3> QED
      BY <3>1 DEF TypeOK
  <2>4. UNCHANGED <<setup, system, connector, io, table, reading, failedWrites, messages, log,
                    calls>>
    BY <1>15 DEF SendBytes, Disconnect
  <2> QED
    BY <2>1, <2>2, <2>3, <2>3a, <2>3b, <2>4 DEF TypeOK
<1>16. CASE DestroyTable \/ CloseAcceptor \/ StopIo
  <2>1. CASE DestroyTable
    BY <2>1 DEF DestroyTable, TypeOK
  <2>2. CASE CloseAcceptor
    BY <2>2 DEF CloseAcceptor, TypeOK
  <2>3. CASE StopIo
    BY <2>3 DEF StopIo, TypeOK
  <2> QED
    BY <1>16, <2>1, <2>2, <2>3
<1>17. CASE UNCHANGED vars
  BY <1>17 DEF vars, TypeOK
<1> QED
  BY <1>1, <1>2, <1>3, <1>4, <1>5, <1>6, <1>7, <1>8, <1>9, <1>10, <1>11, <1>12, <1>13,
     <1>14, <1>15, <1>16, <1>17, Steps
-----------------------------------------------------------------------------
(* The connector. *)

\* The accept and its handler pass the ball to one another.
LEMMA AcceptStep ==
  TypeOK /\ AcceptGoesOn /\ JoinedIsFree /\ [Next]_vars => AcceptGoesOn' /\ JoinedIsFree'
<1> DEFINE Goal == AcceptGoesOn' /\ JoinedIsFree'
<1> SUFFICES ASSUME TypeOK, AcceptGoesOn, JoinedIsFree, [Next]_vars PROVE Goal
  OBVIOUS
<1> USE DEF connector, table, sockets, messages, callers, AcceptGoesOn, JoinedIsFree, Free,
        IoReady
<1>1. ASSUME UNCHANGED <<setup, connector, io>>, UNCHANGED system \/ system' # "gone"
      PROVE  Goal
  BY <1>1
<1>2. CASE Initialize \/ ResolverConnect
  BY <1>1, <1>2 DEF Initialize, ResolverConnect
<1>3. CASE AcceptorConnect
  BY <1>3 DEF AcceptorConnect
<1>4. CASE Accepted
  BY <1>4 DEF Accepted, Emplace
<1>5. CASE Resolved \/ Connected
  BY <1>5 DEF Resolved, Connected, Emplace
<1>6. CASE StartAccept \/ InitializeConnection
  <2>1. io' \in {[at |-> "free", id |-> 0], [io EXCEPT !.at = "started"]}
    BY <1>6 DEF StartAccept, InitializeConnection
  <2>2. io \in IoState
    BY DEF TypeOK
  <2> QED
    BY <1>6, <2>1, <2>2 DEF StartAccept, InitializeConnection, IoState
<1>7. CASE OnConnected
  BY <1>7, SetupsAssumption DEF OnConnected, TypeOK
<1>8. CASE OnDisconnected
  BY <1>8 DEF OnDisconnected
<1>9. ASSUME NEW c \in ConnectionId, NEW kind \in FrameKind, Read(c, kind) PROVE Goal
  BY <1>9 DEF Read, OnDisconnect
<1>10. ASSUME NEW c \in ConnectionId, FailRead(c) \/ FailWrite(c) PROVE Goal
  BY <1>10 DEF FailRead, FailWrite, OnDisconnect
<1>11. ASSUME NEW c \in ConnectionId, FinishWrite(c) \/ Lose(c) PROVE Goal
  BY <1>1, <1>11 DEF FinishWrite, Lose
<1>12. CASE RunTask \/ Lookup
  BY <1>1, <1>12 DEF RunTask, Lookup, GetConnections
<1>13. ASSUME NEW s \in Senders, NEW c \in ConnectionId, SendBytes(s, c) \/ Disconnect(s, c)
       PROVE  Goal
  BY <1>1, <1>13 DEF SendBytes, Disconnect
<1>14. CASE DestroyTable \/ CloseAcceptor \/ StopIo
  BY <1>14 DEF DestroyTable, CloseAcceptor, StopIo
<1>15. CASE JoinIo
  BY <1>15 DEF JoinIo
<1>16. CASE UNCHANGED vars
  BY <1>1, <1>16 DEF vars
<1> QED
  BY <1>2, <1>3, <1>4, <1>5, <1>6, <1>7, <1>8, <1>9, <1>10, <1>11, <1>12, <1>13, <1>14,
     <1>15, <1>16, Steps

\* Each Connect of a resolver is counted once, wherever it has got to.
LEMMA ConnectStep == TypeOK /\ AcceptGoesOn /\ ConnectsAddUp /\ [Next]_vars => ConnectsAddUp'
<1> SUFFICES ASSUME TypeOK, AcceptGoesOn, ConnectsAddUp, [Next]_vars PROVE ConnectsAddUp'
  OBVIOUS
<1> USE DEF connector, table, sockets, messages, callers, ConnectsAddUp
<1>0. /\ resolving \in Nat /\ connecting \in Nat /\ refused \in Nat /\ asked \in Nat
      /\ next_connection_id_ \in Nat
  BY BoundsAssumption DEF TypeOK
<1>1. ASSUME UNCHANGED <<setup, asked, resolving, connecting, refused, next_connection_id_>>,
             system' \notin {"stopping", "gone"} => system \notin {"stopping", "gone"}
      PROVE  ConnectsAddUp'
  BY <1>1
<1>2. CASE Initialize \/ AcceptorConnect \/ StartAccept \/ InitializeConnection
           \/ OnConnected \/ OnDisconnected
  BY <1>1, <1>2 DEF Initialize, AcceptorConnect, StartAccept, InitializeConnection, OnConnected,
                    OnDisconnected
<1>3. CASE ResolverConnect
  BY <1>0, <1>3 DEF ResolverConnect
<1>4. CASE Accepted
  BY <1>4 DEF Accepted, AcceptGoesOn
<1>5. CASE Resolved
  BY <1>0, <1>5 DEF Resolved, OnConnectionFailed
<1>6. CASE Connected
  BY <1>0, <1>6 DEF Connected, OnConnectionFailed, Emplace
<1>7. ASSUME NEW c \in ConnectionId, NEW kind \in FrameKind, Read(c, kind)
      PROVE  ConnectsAddUp'
  BY <1>1, <1>7 DEF Read, OnDisconnect, RemoveConnection
<1>8. ASSUME NEW c \in ConnectionId, FailRead(c) \/ FailWrite(c) PROVE ConnectsAddUp'
  BY <1>1, <1>8 DEF FailRead, FailWrite, OnDisconnect, RemoveConnection
<1>9. ASSUME NEW c \in ConnectionId, FinishWrite(c) \/ Lose(c) PROVE ConnectsAddUp'
  BY <1>1, <1>9 DEF FinishWrite, Lose
<1>10. CASE RunTask \/ Lookup
  BY <1>1, <1>10 DEF RunTask, Lookup, GetConnections
<1>11. ASSUME NEW s \in Senders, NEW c \in ConnectionId, SendBytes(s, c) \/ Disconnect(s, c)
       PROVE  ConnectsAddUp'
  BY <1>1, <1>11 DEF SendBytes, Disconnect
<1>12. CASE DestroyTable \/ CloseAcceptor \/ StopIo \/ JoinIo
  BY <1>1, <1>12 DEF DestroyTable, CloseAcceptor, StopIo, JoinIo
<1>13. CASE UNCHANGED vars
  BY <1>1, <1>13 DEF vars
<1> QED
  BY <1>2, <1>3, <1>4, <1>5, <1>6, <1>7, <1>8, <1>9, <1>10, <1>11, <1>12, <1>13, Steps
-----------------------------------------------------------------------------
(* What is told, read and posted. *)

\* What is heard after an event is told.
LEMMA TellHeard ==
  ASSUME TypeOK, NEW c \in ConnectionId, NEW n \in Nat,
         NEW event \in {"connected", "disconnected", "message"}, Tell(c, event, n)
  PROVE  /\ log'[c] # <<>>
         /\ \A d \in ConnectionId : d # c => log'[d] = log[d]
         /\ \A d \in ConnectionId : \A e : Heard(d, e)' <=> Heard(d, e) \/ (d = c /\ e = event)
<1>1. /\ log \in [ConnectionId -> Seq(Event)] /\ <<event, n>> \in Event
      /\ log'[c] = Append(log[c], <<event, n>>)
      /\ \A d \in ConnectionId : d # c => log'[d] = log[d]
  BY TellTypes DEF TypeOK, Event
<1>2. PICK s \in Seq(Event) : s = log[c]
  BY <1>1
<1>3. /\ Len(s) \in Nat
      /\ DOMAIN s = 1..Len(s)
      /\ DOMAIN log'[c] = 1..(Len(s) + 1)
      /\ \A i \in 1..Len(s) : log'[c][i] = s[i]
      /\ log'[c][Len(s) + 1] = <<event, n>>
      /\ Append(s, <<event, n>>) # <<>>
  BY <1>1, <1>2, AppendProperties, LenProperties
<1>4. 1..Len(s) \subseteq 1..(Len(s) + 1) /\ Len(s) + 1 \in 1..(Len(s) + 1)
      /\ \A i \in 1..(Len(s) + 1) : i \in 1..Len(s) \/ i = Len(s) + 1
  BY <1>3
<1>5. \A e : (\E i \in DOMAIN log'[c] : log'[c][i][1] = e) <=>
             (\E i \in DOMAIN s : s[i][1] = e) \/ e = event
  BY <1>3, <1>4
<1>6. ASSUME NEW d \in ConnectionId, NEW e
      PROVE  Heard(d, e)' <=> Heard(d, e) \/ (d = c /\ e = event)
  <2>1. CASE d = c
    <3>1. /\ Heard(d, e) <=> \E i \in DOMAIN s : s[i][1] = e
          /\ Heard(d, e)' <=> \E i \in DOMAIN log'[c] : log'[c][i][1] = e
      BY <1>2, <2>1 DEF Heard
    <3> QED
      BY <1>5, <2>1, <3>1
  <2>2. CASE d # c
    BY <1>1, <2>2 DEF Heard
  <2> QED
    BY <2>1, <2>2
<1> QED
  BY <1>1, <1>2, <1>3, <1>6

\* What becomes of a frame: it ends the reading, is dropped, is handled at once or
\* posted; what the executor gets of it is received if it can be decoded.
Received(c) == received' = [received EXCEPT ![c] = Append(@, <<"message", frames + 1>>)]
Posted(c, kind) == tasks' = Append(tasks, [id |-> c, n |-> frames + 1, kind |-> kind])

LEMMA ReadCases ==
  ASSUME TypeOK, NEW c \in ConnectionId, NEW kind \in FrameKind, Read(c, kind)
  PROVE  /\ IoReady /\ c \in reading /\ frames' = frames + 1 /\ frames \in Nat
         /\ UNCHANGED <<setup, system, connector, link, writes, failedWrites, callers,
                        next_connection_id_>>
         /\ \/ /\ reading' = reading \ {c}
               /\ OnDisconnect(c)
               /\ UNCHANGED <<tasks, received, log>>
            \/ /\ UNCHANGED <<reading, io, table>>
               /\ \/ UNCHANGED <<tasks, received, log>>
                  \/ /\ setup.executor = "inline"
                     /\ Tell(c, "message", frames + 1) /\ Received(c) /\ UNCHANGED tasks
                  \/ /\ setup.executor # "inline"
                     /\ Posted(c, kind) /\ UNCHANGED log
                     /\ IF Decode(kind) THEN Received(c) ELSE UNCHANGED received
<1>1. frames' = frames + 1 /\ frames \in Nat /\ frames + 1 \in Nat
  BY DEF Read, TypeOK
<1>2. received \in [ConnectionId -> Seq(Message)]
  BY DEF TypeOK
<1>3. /\ IoReady /\ c \in reading
      /\ UNCHANGED <<setup, system, connector, link, writes, failedWrites, callers>>
  BY DEF Read
<1>4. CASE kind = "tooLong"
  BY <1>1, <1>3, <1>4 DEF Read, OnDisconnect, RemoveConnection
<1>5. CASE kind # "tooLong" /\ ~ (DecodeEnvelope(kind) /\ HasHandler(kind))
  BY <1>1, <1>3, <1>5 DEF Read, Process, table
<1>6. CASE kind # "tooLong" /\ DecodeEnvelope(kind) /\ HasHandler(kind)
  <2>1. PICK task \in Task : task = [id |-> c, n |-> frames + 1, kind |-> kind]
    BY <1>1 DEF Task
  <2>2. /\ task.id = c /\ task.n = frames + 1 /\ task.kind = kind
    BY <2>1
  <2>3. /\ UNCHANGED <<reading, io, table>>
        /\ Post(task)
        /\ received' = [received EXCEPT ![c] =
                          IF Decode(kind) THEN Append(@, <<"message", frames + 1>>) ELSE @]
    BY <1>6, <2>1 DEF Read, Process
  <2>4. IF Decode(kind) THEN Received(c) ELSE UNCHANGED received
    BY <1>2, <2>3 DEF Received
  <2>5. CASE setup.executor = "inline"
    <3>1. /\ UNCHANGED tasks
          /\ IF Decode(kind) THEN Tell(c, "message", frames + 1) ELSE UNCHANGED log
      BY <2>2, <2>3, <2>5 DEF Post, HandleMessage
    <3> QED
      BY <1>1, <1>3, <2>3, <2>4, <2>5, <3>1 DEF table
  <2>6. CASE setup.executor # "inline"
    <3>1. UNCHANGED log /\ Posted(c, kind)
      BY <2>1, <2>3, <2>6 DEF Post, Posted
    <3> QED
      BY <1>1, <1>3, <2>3, <2>4, <2>6, <3>1 DEF table
  <2> QED
    BY <2>5, <2>6
<1> QED
  BY <1>4, <1>5, <1>6

\* A task that runs tells its message if it can be decoded.
LEMMA RunTaskCases ==
  ASSUME TypeOK, RunTask
  PROVE  /\ UNCHANGED <<setup, system, connector, io, table, sockets, frames, received, callers>>
         /\ tasks # <<>> /\ Head(tasks) \in Task
         /\ \/ /\ tasks' = Tail(tasks)
               /\ IF Decode(Head(tasks).kind)
                    THEN Tell(Head(tasks).id, "message", Head(tasks).n)
                    ELSE UNCHANGED log
            \/ system = "gone" /\ tasks' = <<>> /\ UNCHANGED log
<1>1. tasks # <<>> /\ tasks \in Seq(Task)
  BY DEF RunTask, TypeOK
<1>2. Head(tasks) \in Task
  BY <1>1, RangeOfTail
<1> QED
  BY <1>1, <1>2 DEF RunTask, HandleMessage

\* A posted task comes last.
LEMMA PostedTasks ==
  ASSUME TypeOK, NEW c \in ConnectionId, NEW kind \in FrameKind, Posted(c, kind)
  PROVE  /\ Len(tasks) \in Nat
         /\ DOMAIN tasks = 1..Len(tasks) /\ DOMAIN tasks' = 1..(Len(tasks) + 1)
         /\ \A i \in 1..(Len(tasks) + 1) : i \in 1..Len(tasks) \/ i = Len(tasks) + 1
         /\ \A i \in 1..Len(tasks) : i \in 1..(Len(tasks) + 1) /\ tasks'[i] = tasks[i]
         /\ tasks'[Len(tasks) + 1].id = c
         /\ tasks'[Len(tasks) + 1].n = frames + 1
         /\ tasks'[Len(tasks) + 1].kind = kind
<1>0. frames + 1 \in Nat
  BY DEF TypeOK
<1>1. PICK task \in Task : task = [id |-> c, n |-> frames + 1, kind |-> kind]
  BY <1>0 DEF Task
<1>2. tasks \in Seq(Task) /\ tasks' = Append(tasks, task)
  BY <1>1 DEF TypeOK, Posted
<1>3. /\ Len(tasks) \in Nat
      /\ DOMAIN tasks = 1..Len(tasks) /\ DOMAIN tasks' = 1..(Len(tasks) + 1)
      /\ \A i \in 1..Len(tasks) : tasks'[i] = tasks[i]
      /\ tasks'[Len(tasks) + 1] = task
  BY <1>2, AppendProperties, LenProperties
<1> QED
  BY <1>1, <1>3

\* Behind the first task the others move up.
LEMMA TailOfTasks ==
  ASSUME TypeOK, tasks # <<>>
  PROVE  /\ Len(tasks) \in Nat \ {0}
         /\ DOMAIN tasks = 1..Len(tasks) /\ DOMAIN Tail(tasks) = 1..(Len(tasks) - 1)
         /\ 1 \in DOMAIN tasks /\ Head(tasks) = tasks[1]
         /\ \A i \in DOMAIN Tail(tasks) : i + 1 \in DOMAIN tasks /\ Tail(tasks)[i] = tasks[i + 1]
         /\ \A i \in DOMAIN tasks : i # 1 =>
              i - 1 \in DOMAIN Tail(tasks) /\ Tail(tasks)[i - 1] = tasks[i]
<1>1. tasks \in Seq(Task)
  BY DEF TypeOK
<1>2. /\ Len(tasks) \in Nat \ {0}
      /\ DOMAIN tasks = 1..Len(tasks) /\ DOMAIN Tail(tasks) = 1..(Len(tasks) - 1)
      /\ Head(tasks) = tasks[1]
      /\ \A i \in 1..(Len(tasks) - 1) : Tail(tasks)[i] = tasks[i + 1]
  BY <1>1, HeadTailProperties, LenProperties, EmptySeq
<1>3. 1 \in 1..Len(tasks) /\ \A i \in 1..(Len(tasks) - 1) : i + 1 \in 1..Len(tasks)
  BY <1>2
<1>4. \A i \in 1..Len(tasks) : i # 1 => i - 1 \in 1..(Len(tasks) - 1) /\ (i - 1) + 1 = i
  BY <1>2
<1>5. \A i \in 1..Len(tasks) : i # 1 => Tail(tasks)[i - 1] = tasks[i]
  BY <1>2, <1>4
<1> QED
  BY <1>2, <1>3, <1>4, <1>5
-----------------------------------------------------------------------------
(* What refers to a connection. *)

LEMMA TaskTypes ==
  ASSUME TypeOK, NEW i \in DOMAIN tasks
  PROVE  tasks[i] \in Task /\ tasks[i].id \in ConnectionId /\ tasks[i].n \in Nat
<1>1. tasks[i] \in Task
  BY ElementOfSeq, LenProperties DEF TypeOK
<1> QED
  BY <1>1 DEF Task

\* A connection is referred to only when it has been made, and nothing but the
\* handler that makes it, its reading and its table entry comes before OnConnected.
LEMMA OnlyMadeStep == TypeOK /\ OnlyMadeOnes /\ [Next]_vars => OnlyMadeOnes'
<1> SUFFICES ASSUME TypeOK, OnlyMadeOnes, [Next]_vars PROVE OnlyMadeOnes'
  OBVIOUS
<1> USE DEF connector, table, sockets, messages, callers
<1>0. /\ io \in IoState /\ next_connection_id_ \in Nat /\ ConnectionId \subseteq Nat
      /\ writes \in [ConnectionId -> Nat] /\ log \in [ConnectionId -> Seq(Event)]
      /\ tasks \in Seq(Task)
  BY BoundsAssumption DEF TypeOK, ConnectionId
<1>1. ASSUME UNCHANGED <<io, next_connection_id_, log, tasks>>,
             reading' \subseteq reading, connections_' \subseteq connections_,
             \A c \in ConnectionId : writes'[c] > 0 => writes[c] > 0 \/ c < next_connection_id_,
             \A s \in Senders : call'[s].targets \subseteq call[s].targets \cup connections_
      PROVE  OnlyMadeOnes'
  BY <1>0, <1>1 DEF OnlyMadeOnes, Making
<1>2. ASSUME io.at \in {"free", "rearm"}, io'.at \in {"free", "rearm"},
             UNCHANGED <<table, sockets, messages, log, callers>>
      PROVE  OnlyMadeOnes'
  BY <1>2 DEF OnlyMadeOnes, Making
<1>3. ASSUME IoReady, Emplace, UNCHANGED <<messages, log, callers>>
      PROVE  OnlyMadeOnes'
  <2>1. /\ io.at = "free" /\ next_connection_id_ \in ConnectionId
        /\ io'.at = "created" /\ io'.id = next_connection_id_
        /\ next_connection_id_' = next_connection_id_ + 1
        /\ connections_' \subseteq connections_ \cup {next_connection_id_}
        /\ UNCHANGED <<reading, writes>>
    BY <1>3 DEF IoReady, Emplace, SetTable
  <2> QED
    BY <1>0, <1>3, <2>1 DEF OnlyMadeOnes, Making
<1>4. CASE Initialize \/ AcceptorConnect \/ ResolverConnect \/ Resolved
  BY <1>1, <1>4 DEF Initialize, AcceptorConnect, ResolverConnect, Resolved
<1>5. CASE Accepted
  BY <1>2, <1>3, <1>5 DEF Accepted, IoReady
<1>6. CASE Connected
  BY <1>1, <1>3, <1>6 DEF Connected
<1>7. CASE StartAccept
  BY <1>2, <1>7 DEF StartAccept, Free
<1>8. CASE InitializeConnection
  <2>1. /\ io.at = "created" /\ io'.at = "started" /\ io'.id = io.id
        /\ reading' = reading \cup {io.id}
        /\ UNCHANGED <<table, writes, messages, log, callers>>
    BY <1>0, <1>8 DEF InitializeConnection, IoState
  <2> QED
    BY <1>0, <2>1 DEF OnlyMadeOnes, Making
<1>9. CASE OnConnected
  <2>1. /\ io.at = "started" /\ io.id \in ConnectionId /\ Tell(io.id, "connected", 0)
        /\ io'.at \in {"free", "rearm"}
        /\ UNCHANGED <<table, sockets, messages, callers>>
    BY <1>0, <1>9 DEF OnConnected, IoState, Free
  <2>2. log'[io.id] # <<>> /\ \A d \in ConnectionId : d # io.id => log'[d] = log[d]
    BY <2>1, TellHeard, 0 \in Nat
  <2> QED
    BY <1>0, <2>1, <2>2, TaskTypes DEF OnlyMadeOnes, Making
<1>10. CASE OnDisconnected
  <2>1. /\ io.at = "removed" /\ io.id \in ConnectionId /\ Tell(io.id, "disconnected", 0)
        /\ io'.at = "free"
        /\ UNCHANGED <<table, sockets, messages, callers>>
    BY <1>0, <1>10 DEF OnDisconnected, IoState, Free
  <2>2. log'[io.id] # <<>> /\ \A d \in ConnectionId : d # io.id => log'[d] = log[d]
    BY <2>1, TellHeard, 0 \in Nat
  <2> QED
    BY <1>0, <2>1, <2>2, TaskTypes DEF OnlyMadeOnes, Making
<1>11. ASSUME NEW c \in ConnectionId, NEW n \in Nat, Tell(c, "message", n),
              log[c] # <<>>, \A i \in DOMAIN tasks' : log[tasks'[i].id] # <<>>,
              \A i \in DOMAIN tasks' : tasks'[i].id \in ConnectionId,
              UNCHANGED <<io, table, reading, writes, callers>>
       PROVE  OnlyMadeOnes'
  <2>1. log'[c] # <<>> /\ \A d \in ConnectionId : d # c => log'[d] = log[d]
    BY <1>11, TellHeard
  <2> QED
    BY <1>0, <1>11, <2>1 DEF OnlyMadeOnes, Making
<1>12. ASSUME NEW c \in ConnectionId, OnDisconnect(c), IoReady, c < next_connection_id_,
              reading' \subseteq reading, \A d \in ConnectionId : writes'[d] > 0 => writes[d] > 0,
              UNCHANGED <<next_connection_id_, tasks, log, callers>>
       PROVE  OnlyMadeOnes'
  <2>1. /\ io.at = "free" /\ io'.at = "removed" /\ io'.id = c
        /\ connections_' \subseteq connections_
    BY <1>12 DEF IoReady, OnDisconnect, RemoveConnection, SetTable
  <2>2. UNCHANGED <<next_connection_id_, log, tasks, call>>
    BY <1>12
  <2> QED
    BY <1>0, <1>12, <2>1, <2>2 DEF OnlyMadeOnes, Making
<1>13. ASSUME NEW c \in ConnectionId, NEW kind \in FrameKind, Read(c, kind)
       PROVE  OnlyMadeOnes'
  <2>1. IoReady /\ c \in reading /\ frames + 1 \in Nat
    BY <1>13, ReadCases
  <2>2. c < next_connection_id_ /\ log[c] # <<>> /\ io.at = "free"
    BY <2>1 DEF OnlyMadeOnes, Making, IoReady
  <2>3. CASE reading' = reading \ {c} /\ OnDisconnect(c) /\ UNCHANGED <<tasks, received, log>>
    <3>1. \A d \in ConnectionId : writes'[d] > 0 => writes[d] > 0
      BY <1>13, ReadCases
    <3>2. UNCHANGED <<next_connection_id_, tasks, log, callers>>
      BY <1>13, <2>3, ReadCases
    <3> QED
      BY <1>12, <2>1, <2>2, <2>3, <3>1, <3>2
  <2>4. CASE UNCHANGED <<reading, io, table, tasks, received, log>>
    BY <1>1, <1>13, <2>4, ReadCases
  <2>5. CASE /\ UNCHANGED <<reading, io, table, tasks>>
             /\ Tell(c, "message", frames + 1)
    <3>1. UNCHANGED <<io, table, reading, writes, callers>>
      BY <1>13, <2>5, ReadCases
    <3>2. \A i \in DOMAIN tasks' : log[tasks'[i].id] # <<>> /\ tasks'[i].id \in ConnectionId
      BY <2>5, TaskTypes DEF OnlyMadeOnes
    <3> QED
      BY <1>11, <2>1, <2>2, <2>5, <3>1, <3>2
  <2>6. CASE UNCHANGED <<reading, io, table, log>> /\ Posted(c, kind)
    <3>1. UNCHANGED <<io, table, reading, writes, callers, log>>
      BY <1>13, <2>6, ReadCases
    <3>2. \A i \in DOMAIN tasks' : log[tasks'[i].id] # <<>>
      BY <2>2, <2>6, PostedTasks DEF OnlyMadeOnes
    <3> QED
      BY <3>1, <3>2 DEF OnlyMadeOnes, Making
  <2> QED
    BY <1>13, <2>3, <2>4, <2>5, <2>6, ReadCases
<1>14. ASSUME NEW c \in ConnectionId, FailRead(c) PROVE OnlyMadeOnes'
  <2>1. c < next_connection_id_
    BY <1>14 DEF FailRead, OnlyMadeOnes
  <2> QED
    BY <1>12, <1>14, <2>1 DEF FailRead, OnDisconnect, RemoveConnection
<1>15. ASSUME NEW c \in ConnectionId, FailWrite(c) PROVE OnlyMadeOnes'
  <2>1. c < next_connection_id_
    <3>1. writes[c] > lateWrites[c] /\ writes[c] \in Nat /\ lateWrites[c] \in Nat
      BY <1>15 DEF FailWrite, TypeOK
    <3>2. writes[c] > 0
      BY <3>1
    <3> QED
      BY <3>2 DEF OnlyMadeOnes
  <2>2. \A d \in ConnectionId : writes'[d] > 0 => writes[d] > 0
    BY <1>0, <1>15 DEF FailWrite
  <2> QED
    BY <1>12, <1>15, <2>1, <2>2 DEF FailWrite, OnDisconnect, RemoveConnection
<1>16. ASSUME NEW c \in ConnectionId, FinishWrite(c) \/ Lose(c) PROVE OnlyMadeOnes'
  <2>1. \A d \in ConnectionId : writes'[d] > 0 => writes[d] > 0
    BY <1>0, <1>16 DEF FinishWrite, Lose
  <2> QED
    BY <1>1, <1>16, <2>1 DEF FinishWrite, Lose
<1>17. CASE RunTask
  <2>1. /\ UNCHANGED <<io, table, sockets, callers>>
        /\ tasks # <<>>
    BY <1>17, RunTaskCases
  <2>2. PICK task \in Task : task = Head(tasks)
    BY <1>17, RunTaskCases
  <2>3. /\ task = tasks[1] /\ 1 \in DOMAIN tasks
        /\ \A i \in DOMAIN Tail(tasks) : log[Tail(tasks)[i].id] # <<>>
        /\ \A i \in DOMAIN Tail(tasks) : Tail(tasks)[i].id \in ConnectionId
    BY <2>1, <2>2, TailOfTasks, TaskTypes DEF OnlyMadeOnes
  <2>4. task.id \in ConnectionId /\ task.n \in Nat /\ log[task.id] # <<>>
    BY <2>3 DEF Task, OnlyMadeOnes
  <2>5. CASE tasks' = Tail(tasks) /\ Tell(task.id, "message", task.n)
    BY <1>11, <2>1, <2>3, <2>4, <2>5
  <2>6. CASE tasks' \in {Tail(tasks), <<>>} /\ UNCHANGED log
    <3>1. \A i \in DOMAIN tasks' : log[tasks'[i].id] # <<>>
      BY <2>3, <2>6
    <3> QED
      BY <2>1, <2>6, <3>1 DEF OnlyMadeOnes, Making
  <2> QED
    BY <1>17, <2>2, <2>5, <2>6, RunTaskCases
<1>18. CASE Lookup
  <2>1. \A u \in Senders : call'[u].targets \subseteq call[u].targets \cup connections_
    BY <1>18, LookupTypes
  <2> QED
    BY <1>1, <1>18, <2>1 DEF Lookup, GetConnections
<1>19. ASSUME NEW s \in Senders, NEW c \in ConnectionId, SendBytes(s, c) \/ Disconnect(s, c)
       PROVE  OnlyMadeOnes'
  <2>1. \A u \in Senders : call'[u].targets \subseteq call[u].targets
    BY <1>19, DoneTypes DEF SendBytes, Disconnect
  <2>2. c < next_connection_id_
    BY <1>19 DEF SendBytes, Disconnect, OnlyMadeOnes
  <2>3. \A d \in ConnectionId : writes'[d] > 0 => writes[d] > 0 \/ d < next_connection_id_
    BY <1>0, <1>19, <2>2 DEF SendBytes, Disconnect
  <2> QED
    BY <1>1, <1>19, <2>1, <2>3 DEF SendBytes, Disconnect
<1>20. CASE DestroyTable \/ CloseAcceptor \/ StopIo \/ JoinIo
  BY <1>1, <1>20 DEF DestroyTable, CloseAcceptor, StopIo, JoinIo
<1>21. CASE UNCHANGED vars
  BY <1>1, <1>21 DEF vars
<1> QED
  BY <1>4, <1>5, <1>6, <1>7, <1>8, <1>9, <1>10, <1>13, <1>14, <1>15, <1>16, <1>17, <1>18,
     <1>19, <1>20, <1>21, Steps
-----------------------------------------------------------------------------
(* What the owner hears. *)

\* An event may be told of a connection when it is the first and only OnConnected,
\* and comes after an OnDisconnected only for the reasons that EventsInOrder names.
LEMMA EventsAppend ==
  ASSUME TypeOK, EventsInOrder, NEW c \in ConnectionId, NEW n \in Nat,
         NEW event \in {"connected", "disconnected", "message"}, Tell(c, event, n),
         setup' = setup, failedWrites' = failedWrites,
         event = "connected" <=> log[c] = <<>>,
         Heard(c, "disconnected") =>
           c \in failedWrites \/ (event = "message" /\ setup.executor = "queued")
  PROVE  EventsInOrder'
<1>1. /\ log \in [ConnectionId -> Seq(Event)] /\ <<event, n>> \in Event
      /\ log'[c] = Append(log[c], <<event, n>>)
      /\ \A d \in ConnectionId : d # c => log'[d] = log[d]
  BY TellTypes DEF TypeOK, Event
<1>2. PICK s \in Seq(Event) : s = log[c]
  BY <1>1
<1>3. /\ Len(s) \in Nat
      /\ DOMAIN s = 1..Len(s)
      /\ DOMAIN log'[c] = 1..(Len(s) + 1)
      /\ \A i \in 1..Len(s) : log'[c][i] = s[i]
      /\ log'[c][Len(s) + 1] = <<event, n>>
      /\ s = <<>> <=> Len(s) = 0
  BY <1>1, <1>2, AppendProperties, LenProperties, EmptySeq
<1>4. /\ \A i \in 1..(Len(s) + 1) : i \in 1..Len(s) \/ i = Len(s) + 1
      /\ \A i \in 1..(Len(s) + 1), j \in 1..(Len(s) + 1) : i < j => i \in 1..Len(s)
  BY <1>3
<1>5. ASSUME NEW i \in 1..(Len(s) + 1)
      PROVE  (log'[c][i][1] = "connected") = (i = 1)
  <2>1. CASE i \in 1..Len(s)
    BY <1>2, <1>3, <2>1 DEF EventsInOrder
  <2>2. CASE i = Len(s) + 1
    <3>1. log'[c][i][1] = event
      BY <1>3, <2>2
    <3>2. i = 1 <=> s = <<>>
      BY <1>3, <2>2
    <3> QED
      BY <1>2, <3>1, <3>2
  <2> QED
    BY <1>4, <2>1, <2>2
<1>6. ASSUME NEW i \in 1..(Len(s) + 1), NEW j \in 1..(Len(s) + 1), i < j,
             log'[c][i][1] = "disconnected"
      PROVE  c \in failedWrites \/ (log'[c][j][1] = "message" /\ setup.executor = "queued")
  <2>1. i \in 1..Len(s) /\ s[i][1] = "disconnected"
    BY <1>3, <1>4, <1>6
  <2>2. CASE j \in 1..Len(s)
    <3>1. i \in DOMAIN log[c] /\ j \in DOMAIN log[c] /\ log[c][i][1] = "disconnected"
      BY <1>2, <1>3, <2>1, <2>2
    <3>2. c \in failedWrites \/ (log[c][j][1] = "message" /\ setup.executor = "queued")
      BY <1>6, <3>1 DEF EventsInOrder
    <3> QED
      BY <1>2, <1>3, <2>2, <3>2
  <2>3. CASE j = Len(s) + 1
    <3>1. log'[c][j][1] = event
      BY <1>3, <2>3
    <3>2. Heard(c, "disconnected")
      BY <1>2, <1>3, <2>1 DEF Heard
    <3> QED
      BY <3>1, <3>2
  <2> QED
    BY <1>4, <2>2, <2>3
<1> SUFFICES ASSUME NEW d \in ConnectionId, NEW i \in DOMAIN log'[d], NEW j \in DOMAIN log'[d]
             PROVE  /\ (log'[d][i][1] = "connected") = (i = 1)
                    /\ i < j /\ log'[d][i][1] = "disconnected" =>
                         \/ d \in failedWrites
                         \/ log'[d][j][1] = "message" /\ setup.executor = "queued"
  BY DEF EventsInOrder
<1>7. CASE d = c
  BY <1>3, <1>5, <1>6, <1>7
<1>8. CASE d # c
  BY <1>1, <1>8 DEF EventsInOrder
<1> QED
  BY <1>7, <1>8

\* What the table, the readings and the owner know of the connections goes together.
LEMMA OwnerStep ==
  TypeOK /\ OnlyMadeOnes /\ InlineNeverWaits /\ GoneIsNotRead /\ EventsInOrder /\ TableIsTrue
    /\ [Next]_vars
  => InlineNeverWaits' /\ GoneIsNotRead' /\ EventsInOrder' /\ TableIsTrue'
<1> DEFINE Goal == InlineNeverWaits' /\ GoneIsNotRead' /\ EventsInOrder' /\ TableIsTrue'
<1> SUFFICES ASSUME TypeOK, OnlyMadeOnes, [Next]_vars,
                    InlineNeverWaits, GoneIsNotRead, EventsInOrder, TableIsTrue
             PROVE  Goal
  OBVIOUS
<1> USE DEF connector, table, sockets, messages, callers
<1>0. io \in IoState /\ reading \subseteq ConnectionId /\ failedWrites \subseteq ConnectionId
  BY DEF TypeOK
<1>1. ASSUME NEW c \in ConnectionId, log[c] = <<>>
      PROVE  ~ Heard(c, "connected") /\ ~ Heard(c, "disconnected")
  <2>1. \A i : i \notin DOMAIN log[c]
    BY <1>1, EmptyQueue
  <2> QED
    BY <2>1 DEF Heard
<1>2. ASSUME UNCHANGED <<setup, log, failedWrites>>, reading' \subseteq reading,
             UNCHANGED io \/ (io.at \in {"free", "rearm"} /\ io'.at \in {"free", "rearm"}),
             system' \in {"new", "up"} => system \in {"new", "up"} /\ UNCHANGED connections_,
             setup.executor = "inline" /\ tasks = <<>> => tasks' = <<>>
      PROVE  Goal
  <2>1. \A c, e : Heard(c, e)' <=> Heard(c, e)
    BY <1>2 DEF Heard
  <2>2. EventsInOrder'
    BY <1>2 DEF EventsInOrder
  <2>3. GoneIsNotRead'
    BY <1>2, <2>1 DEF GoneIsNotRead
  <2>4. TableIsTrue'
    BY <1>2, <2>1 DEF TableIsTrue, Making
  <2> QED
    BY <1>2, <2>2, <2>3, <2>4 DEF InlineNeverWaits
<1>3. ASSUME IoReady, Emplace, UNCHANGED <<setup, system, messages, log>>
      PROVE  Goal
  <2>1. \A c, e : Heard(c, e)' <=> Heard(c, e)
    BY <1>3 DEF Heard
  <2>2. /\ io.at = "free" /\ io'.at = "created" /\ io'.id = next_connection_id_
        /\ system = "up" => connections_' = connections_ \cup {next_connection_id_}
        /\ system # "new"
        /\ UNCHANGED <<reading, failedWrites>>
    BY <1>3 DEF IoReady, Emplace, SetTable
  <2>3. EventsInOrder' /\ InlineNeverWaits'
    BY <1>3, <2>2 DEF EventsInOrder, InlineNeverWaits
  <2>4. GoneIsNotRead'
    BY <2>1, <2>2 DEF GoneIsNotRead
  <2>5. TableIsTrue'
    BY <1>3, <2>1, <2>2 DEF TableIsTrue, Making
  <2> QED
    BY <2>3, <2>4, <2>5
<1>4. ASSUME NEW c \in ConnectionId, NEW n \in Nat, Tell(c, "message", n), log[c] # <<>>,
             Heard(c, "disconnected") => c \in failedWrites \/ setup.executor = "queued",
             UNCHANGED <<setup, system, io, table, reading, failedWrites>>,
             setup.executor = "inline" /\ tasks = <<>> => tasks' = <<>>
      PROVE  Goal
  <2>1. \A d \in ConnectionId : /\ Heard(d, "connected")' <=> Heard(d, "connected")
                                /\ Heard(d, "disconnected")' <=> Heard(d, "disconnected")
    BY <1>4, TellHeard
  <2>2. EventsInOrder'
    BY <1>4, EventsAppend
  <2>3. GoneIsNotRead'
    BY <1>4, <2>1 DEF GoneIsNotRead
  <2>4. TableIsTrue'
    BY <1>4, <2>1 DEF TableIsTrue, Making
  <2> QED
    BY <1>4, <2>2, <2>3, <2>4 DEF InlineNeverWaits
<1>5. ASSUME NEW c \in ConnectionId, IoReady, OnDisconnect(c),
             UNCHANGED <<setup, system, tasks, log>>,
             \/ c \in reading /\ reading' = reading \ {c} /\ UNCHANGED failedWrites
             \/ UNCHANGED reading /\ failedWrites' = failedWrites \cup {c}
      PROVE  Goal
  <2>1. \A d, e : Heard(d, e)' <=> Heard(d, e)
    BY <1>5 DEF Heard
  <2>2. /\ io.at = "free" /\ io'.at = "removed" /\ io'.id = c
        /\ system = "up" => connections_' = connections_ \ {c}
        /\ system # "new"
    BY <1>5 DEF IoReady, OnDisconnect, RemoveConnection, SetTable
  <2>3. EventsInOrder' /\ InlineNeverWaits'
    BY <1>5 DEF EventsInOrder, InlineNeverWaits
  <2>4. GoneIsNotRead'
    BY <1>5, <2>1, <2>2 DEF GoneIsNotRead
  <2>5. TableIsTrue'
    BY <1>5, <2>1, <2>2 DEF TableIsTrue, Making
  <2> QED
    BY <2>3, <2>4, <2>5
<1>6. CASE Initialize \/ AcceptorConnect \/ ResolverConnect \/ Resolved
  BY <1>2, <1>6 DEF Initialize, AcceptorConnect, ResolverConnect, Resolved
<1>7. CASE Accepted
  BY <1>2, <1>3, <1>7 DEF Accepted, IoReady
<1>8. CASE Connected
  BY <1>2, <1>3, <1>8 DEF Connected
<1>9. CASE StartAccept
  BY <1>2, <1>9 DEF StartAccept, Free
<1>10. CASE InitializeConnection
  <2>1. /\ io.at = "created" /\ io'.at = "started" /\ io'.id = io.id /\ io.id \in ConnectionId
        /\ reading' = reading \cup {io.id}
        /\ UNCHANGED <<setup, system, table, failedWrites, messages, log>>
    BY <1>0, <1>10 DEF InitializeConnection, IoState
  <2>2. ~ Heard(io.id, "disconnected")
    BY <1>1, <2>1 DEF OnlyMadeOnes, Making
  <2>3. \A d, e : Heard(d, e)' <=> Heard(d, e)
    BY <2>1 DEF Heard
  <2>4. GoneIsNotRead'
    BY <2>1, <2>2, <2>3 DEF GoneIsNotRead
  <2>5. TableIsTrue'
    BY <2>1, <2>3 DEF TableIsTrue, Making
  <2>6. EventsInOrder' /\ InlineNeverWaits'
    BY <2>1 DEF EventsInOrder, InlineNeverWaits
  <2> QED
    BY <2>4, <2>5, <2>6
<1>11. CASE OnConnected
  <2>1. /\ io.at = "started" /\ io.id \in ConnectionId /\ Tell(io.id, "connected", 0)
        /\ io'.at \in {"free", "rearm"} /\ 0 \in Nat
        /\ UNCHANGED <<setup, system, table, sockets, messages>>
    BY <1>0, <1>11 DEF OnConnected, IoState, Free
  <2>2. log[io.id] = <<>> /\ ~ Heard(io.id, "disconnected")
    BY <1>1, <2>1 DEF OnlyMadeOnes, Making
  <2>3. \A d \in ConnectionId : /\ Heard(d, "connected")' <=> Heard(d, "connected") \/ d = io.id
                                /\ Heard(d, "disconnected")' <=> Heard(d, "disconnected")
    BY <2>1, TellHeard
  <2>4. EventsInOrder'
    BY <2>1, <2>2, EventsAppend
  <2>5. GoneIsNotRead'
    BY <2>1, <2>3 DEF GoneIsNotRead
  <2>6. TableIsTrue'
    BY <2>1, <2>2, <2>3 DEF TableIsTrue, Making
  <2> QED
    BY <2>1, <2>4, <2>5, <2>6 DEF InlineNeverWaits
<1>12. CASE OnDisconnected
  <2>1. /\ io.at = "removed" /\ io.id \in ConnectionId /\ Tell(io.id, "disconnected", 0)
        /\ io'.at = "free" /\ 0 \in Nat
        /\ UNCHANGED <<setup, system, table, sockets, messages>>
    BY <1>0, <1>12 DEF OnDisconnected, IoState, Free
  <2>2. log[io.id] # <<>>
    BY <2>1 DEF OnlyMadeOnes, Making
  <2>3. \A d \in ConnectionId :
          /\ Heard(d, "connected")' <=> Heard(d, "connected")
          /\ Heard(d, "disconnected")' <=> Heard(d, "disconnected") \/ d = io.id
    BY <2>1, TellHeard
  <2>4. EventsInOrder'
    BY <2>1, <2>2, EventsAppend DEF GoneIsNotRead
  <2>5. GoneIsNotRead'
    BY <2>1, <2>3 DEF GoneIsNotRead
  <2>6. TableIsTrue'
    BY <2>1, <2>3 DEF TableIsTrue, Making
  <2> QED
    BY <2>1, <2>4, <2>5, <2>6 DEF InlineNeverWaits
<1>13. ASSUME NEW c \in ConnectionId, NEW kind \in FrameKind, Read(c, kind)
       PROVE  Goal
  <2>1. /\ IoReady /\ c \in reading /\ frames + 1 \in Nat
        /\ UNCHANGED <<setup, system, failedWrites>>
    BY <1>13, ReadCases
  <2>2. log[c] # <<>> /\ (Heard(c, "disconnected") => c \in failedWrites)
    BY <2>1 DEF OnlyMadeOnes, Making, IoReady, GoneIsNotRead
  <2>3. CASE reading' = reading \ {c} /\ OnDisconnect(c) /\ UNCHANGED <<tasks, received, log>>
    BY <1>5, <2>1, <2>3
  <2>4. CASE /\ UNCHANGED <<reading, io, table, log>>
             /\ UNCHANGED tasks \/ setup.executor # "inline"
    BY <1>2, <2>1, <2>4
  <2>5. CASE /\ UNCHANGED <<reading, io, table, tasks>>
             /\ Tell(c, "message", frames + 1)
    <3>1. UNCHANGED <<io, table, reading, failedWrites>>
      BY <1>13, <2>5, ReadCases
    <3> QED
      BY <1>4, <2>1, <2>2, <2>5, <3>1
  <2> QED
    BY <1>13, <2>3, <2>4, <2>5, ReadCases
<1>14. ASSUME NEW c \in ConnectionId, FailRead(c) \/ FailWrite(c) PROVE Goal
  BY <1>5, <1>14 DEF FailRead, FailWrite
<1>15. ASSUME NEW c \in ConnectionId, FinishWrite(c) \/ Lose(c) PROVE Goal
  BY <1>2, <1>15 DEF FinishWrite, Lose
<1>16. CASE RunTask
  <2>1. UNCHANGED <<setup, system, io, table, sockets>> /\ tasks # <<>>
    BY <1>16, RunTaskCases
  <2>2. PICK task \in Task : task = Head(tasks)
    BY <1>16, RunTaskCases
  <2>3. task.id \in ConnectionId /\ task.n \in Nat /\ log[task.id] # <<>>
    BY <2>1, <2>2, TailOfTasks DEF Task, OnlyMadeOnes
  <2>4. setup.executor = "queued"
    BY <2>1, SetupsAssumption DEF InlineNeverWaits, TypeOK
  <2>5. CASE Tell(task.id, "message", task.n)
    BY <1>4, <2>1, <2>3, <2>4, <2>5
  <2>6. CASE UNCHANGED log
    BY <1>2, <2>1, <2>4, <2>6
  <2> QED
    BY <1>16, <2>2, <2>5, <2>6, RunTaskCases
<1>17. CASE Lookup
  BY <1>2, <1>17 DEF Lookup, GetConnections
<1>18. ASSUME NEW s \in Senders, NEW c \in ConnectionId, SendBytes(s, c) \/ Disconnect(s, c)
       PROVE  Goal
  BY <1>2, <1>18 DEF SendBytes, Disconnect
<1>19. CASE DestroyTable \/ CloseAcceptor \/ StopIo \/ JoinIo
  BY <1>2, <1>19 DEF DestroyTable, CloseAcceptor, StopIo, JoinIo
<1>20. CASE UNCHANGED vars
  BY <1>2, <1>20 DEF vars
<1> QED
  BY <1>6, <1>7, <1>8, <1>9, <1>10, <1>11, <1>12, <1>13, <1>14, <1>15, <1>16, <1>17, <1>18,
     <1>19, <1>20, Steps
-----------------------------------------------------------------------------
(* What is handled of what is received. *)

\* A message that comes last is one more.
LEMMA AppendedMessages ==
  ASSUME NEW s \in Seq(Event), NEW e \in Event
  PROVE  /\ MessagesAmong(s, Len(s)) \in Nat
         /\ \A i \in 1..Len(s) : MessagesAmong(Append(s, e), i) = MessagesAmong(s, i)
         /\ MessagesAmong(Append(s, e), Len(s) + 1) =
              IF e[1] = "message" THEN MessagesAmong(s, Len(s)) + 1 ELSE MessagesAmong(s, Len(s))
<1>1. /\ Len(s) \in Nat
      /\ \A i \in 1..Len(s) : Append(s, e)[i] = s[i]
      /\ Append(s, e)[Len(s) + 1] = e
  BY AppendProperties, LenProperties
<1>2. PICK old : old = {i \in 1..Len(s) : s[i][1] = "message"}
  OBVIOUS
<1>3. IsFiniteSet(1..Len(s))
  BY <1>1, FS_Interval
<1>4. IsFiniteSet(old) /\ Cardinality(old) \in Nat
  <2>1. old \subseteq 1..Len(s)
    BY <1>2
  <2> QED
    BY <1>3, <2>1, FS_Subset, FS_CardinalityType
<1>5. ASSUME NEW i \in 1..Len(s) PROVE MessagesAmong(Append(s, e), i) = MessagesAmong(s, i)
  <2>1. \A k \in 1..i : k \in 1..Len(s)
    BY <1>1
  <2>2. {k \in 1..i : Append(s, e)[k][1] = "message"} = {k \in 1..i : s[k][1] = "message"}
    BY <1>1, <2>1
  <2> QED
    BY <2>2 DEF MessagesAmong
<1>6. MessagesAmong(s, Len(s)) = Cardinality(old)
  BY <1>2 DEF MessagesAmong
<1>7. PICK new : new = {i \in 1..(Len(s) + 1) : Append(s, e)[i][1] = "message"}
  OBVIOUS
<1>8. new = IF e[1] = "message" THEN old \cup {Len(s) + 1} ELSE old
  <2>1. \A i : i \in 1..(Len(s) + 1) <=> i \in 1..Len(s) \/ i = Len(s) + 1
    BY <1>1
  <2> QED
    BY <1>1, <1>2, <1>7, <2>1
<1>9. MessagesAmong(Append(s, e), Len(s) + 1) = Cardinality(new)
  BY <1>7 DEF MessagesAmong
<1>10. Len(s) + 1 \notin old
  BY <1>1, <1>2
<1>11. Cardinality(old \cup {Len(s) + 1}) = Cardinality(old) + 1
  BY <1>4, <1>10, FS_AddElement
<1> QED
  BY <1>4, <1>5, <1>6, <1>8, <1>9, <1>11

\* The messages told so far are the first received, when the next one told is the
\* next one received.
LEMMA HandledAppend ==
  ASSUME TypeOK, HandledAsReceived, NEW c \in ConnectionId, NEW n \in Nat,
         NEW event \in {"connected", "disconnected", "message"}, Tell(c, event, n),
         \A d \in ConnectionId : \A k \in DOMAIN received[d] :
           k \in DOMAIN received'[d] /\ received'[d][k] = received[d][k],
         event = "message" =>
           /\ Handled(c) + 1 \in DOMAIN received'[c]
           /\ received'[c][Handled(c) + 1] = <<"message", n>>
  PROVE  /\ HandledAsReceived'
         /\ Handled(c)' = IF event = "message" THEN Handled(c) + 1 ELSE Handled(c)
         /\ \A d \in ConnectionId : d # c => Handled(d)' = Handled(d)
<1>1. /\ log \in [ConnectionId -> Seq(Event)] /\ <<event, n>> \in Event
      /\ log'[c] = Append(log[c], <<event, n>>)
      /\ \A d \in ConnectionId : d # c => log'[d] = log[d]
  BY TellTypes DEF TypeOK, Event
<1>2. PICK s \in Seq(Event) : s = log[c]
  BY <1>1
<1>3. PICK e \in Event : e = <<event, n>>
  BY <1>1
<1>4. /\ Len(s) \in Nat
      /\ DOMAIN s = 1..Len(s)
      /\ DOMAIN Append(s, e) = 1..(Len(s) + 1)
      /\ Len(Append(s, e)) = Len(s) + 1
      /\ \A i \in 1..Len(s) : Append(s, e)[i] = s[i]
      /\ Append(s, e)[Len(s) + 1] = e
  BY AppendProperties, LenProperties
<1>5. Handled(c) = MessagesAmong(s, Len(s))
  BY <1>2 DEF Handled
<1>6. log'[c] = Append(s, e) /\ e[1] = event
  BY <1>1, <1>2, <1>3
<1>7. Handled(c)' = IF event = "message" THEN Handled(c) + 1 ELSE Handled(c)
  <2>1. Handled(c)' = MessagesAmong(Append(s, e), Len(s) + 1)
    BY <1>4, <1>6 DEF Handled
  <2> QED
    BY <1>5, <1>6, <2>1, AppendedMessages
<1>8. \A d \in ConnectionId : d # c => Handled(d)' = Handled(d)
  BY <1>1 DEF Handled
<1>9. ASSUME NEW d \in ConnectionId, NEW i \in DOMAIN log'[d], log'[d][i][1] = "message"
      PROVE  /\ MessagesAmong(log'[d], i) \in DOMAIN received'[d]
             /\ log'[d][i] = received'[d][MessagesAmong(log'[d], i)]
  <2>1. CASE d # c
    <3>1. log'[d] = log[d]
      BY <1>1, <2>1
    <3>2. /\ MessagesAmong(log[d], i) \in DOMAIN received[d]
          /\ log[d][i] = received[d][MessagesAmong(log[d], i)]
      BY <1>9, <3>1 DEF HandledAsReceived
    <3> QED
      BY <3>1, <3>2
  <2>2. CASE d = c /\ i \in 1..Len(s)
    <3>1. log'[c][i] = log[c][i] /\ i \in DOMAIN log[c]
      BY <1>2, <1>4, <1>6, <2>2
    <3>2. MessagesAmong(log'[c], i) = MessagesAmong(log[c], i)
      BY <1>2, <1>6, <2>2, AppendedMessages
    <3>3. /\ MessagesAmong(log[c], i) \in DOMAIN received[c]
          /\ log[c][i] = received[c][MessagesAmong(log[c], i)]
      BY <1>9, <2>2, <3>1 DEF HandledAsReceived
    <3> QED
      BY <2>2, <3>1, <3>2, <3>3
  <2>3. CASE d = c /\ i = Len(s) + 1
    <3>1. log'[c][i] = <<event, n>> /\ event = "message"
      BY <1>3, <1>4, <1>6, <1>9, <2>3
    <3>2. MessagesAmong(log'[c], i) = Handled(c) + 1
      BY <1>5, <1>6, <2>3, <3>1, AppendedMessages
    <3> QED
      BY <2>3, <3>1, <3>2
  <2>4. d = c => i \in 1..Len(s) \/ i = Len(s) + 1
    BY <1>4, <1>6, <1>9
  <2> QED
    BY <2>1, <2>2, <2>3, <2>4
<1>10. HandledAsReceived'
  BY <1>9 DEF HandledAsReceived
<1> QED
  BY <1>7, <1>8, <1>10

\* What the steps do to messages: nothing but tell another event; receive one and
\* tell it at once; post one; or run a task.
Quiet ==
  /\ UNCHANGED <<tasks, received>> /\ frames' \in {frames, frames + 1}
  /\ system = "gone" => system' = "gone"
  /\ \/ UNCHANGED log
     \/ \E c \in ConnectionId, event \in {"connected", "disconnected"} : Tell(c, event, 0)

ToldAtOnce(c) ==
  /\ IoReady /\ setup.executor = "inline" /\ frames' = frames + 1
  /\ Tell(c, "message", frames + 1) /\ Received(c) /\ UNCHANGED <<tasks, system>>

PostedForLater(c, kind) ==
  /\ IoReady /\ frames' = frames + 1
  /\ Posted(c, kind) /\ UNCHANGED <<log, system>>
  /\ IF Decode(kind) THEN Received(c) ELSE UNCHANGED received

LEMMA MessageSteps ==
  ASSUME TypeOK, [Next]_vars
  PROVE  \/ Quiet
         \/ \E c \in ConnectionId : ToldAtOnce(c)
         \/ \E c \in ConnectionId, kind \in FrameKind : PostedForLater(c, kind)
         \/ RunTask
<1> USE DEF connector, table, sockets, messages, callers
<1>0. io \in IoState
  BY DEF TypeOK
<1>1. CASE Initialize \/ AcceptorConnect \/ ResolverConnect \/ Accepted \/ Resolved \/ Connected
  BY <1>1 DEF Initialize, AcceptorConnect, ResolverConnect, Accepted, Resolved, Connected,
              IoReady, Quiet
<1>2. CASE StartAccept \/ InitializeConnection
  BY <1>2 DEF StartAccept, InitializeConnection, Quiet
<1>3. CASE OnConnected \/ OnDisconnected
  <2>1. io.id \in ConnectionId
    BY <1>0, <1>3 DEF OnConnected, OnDisconnected, IoState
  <2> QED
    BY <1>3, <2>1 DEF OnConnected, OnDisconnected, Quiet
<1>4. ASSUME NEW c \in ConnectionId, NEW kind \in FrameKind, Read(c, kind)
      PROVE  Quiet \/ ToldAtOnce(c) \/ PostedForLater(c, kind)
  BY <1>4, ReadCases DEF Quiet, ToldAtOnce, PostedForLater
<1>5. ASSUME NEW c \in ConnectionId, FailRead(c) \/ FinishWrite(c) \/ FailWrite(c) \/ Lose(c)
      PROVE  Quiet
  BY <1>5 DEF FailRead, FinishWrite, FailWrite, Lose, Quiet
<1>6. CASE Lookup
  BY <1>6 DEF Lookup, GetConnections, Quiet
<1>7. ASSUME NEW s \in Senders, NEW c \in ConnectionId, SendBytes(s, c) \/ Disconnect(s, c)
      PROVE  Quiet
  BY <1>7 DEF SendBytes, Disconnect, Quiet
<1>8. CASE DestroyTable \/ CloseAcceptor \/ StopIo \/ JoinIo \/ UNCHANGED vars
  BY <1>8 DEF DestroyTable, CloseAcceptor, StopIo, JoinIo, vars, Quiet
<1> QED
  BY <1>1, <1>2, <1>3, <1>4, <1>5, <1>6, <1>7, <1>8, Steps

\* A message received comes last.
LEMMA ReceivedLast ==
  ASSUME TypeOK, NEW c \in ConnectionId, Received(c)
  PROVE  /\ Len(received[c]) \in Nat
         /\ DOMAIN received[c] = 1..Len(received[c])
         /\ DOMAIN received'[c] = 1..(Len(received[c]) + 1)
         /\ Len(received'[c]) = Len(received[c]) + 1
         /\ \A k \in 1..Len(received[c]) : received'[c][k] = received[c][k]
         /\ received'[c][Len(received[c]) + 1] = <<"message", frames + 1>>
         /\ \A d \in ConnectionId : d # c => received'[d] = received[d]
<1>1. received \in [ConnectionId -> Seq(Message)] /\ <<"message", frames + 1>> \in Message
  BY DEF TypeOK, Message
<1>2. PICK s \in Seq(Message) : s = received[c]
  BY <1>1
<1>3. /\ received'[c] = Append(s, <<"message", frames + 1>>)
      /\ \A d \in ConnectionId : d # c => received'[d] = received[d]
  BY <1>1, <1>2 DEF Received
<1> QED
  BY <1>1, <1>2, <1>3, AppendProperties, LenProperties

\* Frames are numbered as they are read.
LEMMA FramesStep == TypeOK /\ FramesInOrder /\ [Next]_vars => FramesInOrder'
<1> SUFFICES ASSUME TypeOK, FramesInOrder, [Next]_vars PROVE FramesInOrder'
  OBVIOUS
<1> DEFINE ReceivedInOrder == \A c \in ConnectionId : \A i, j \in DOMAIN received[c] :
      received[c][i][2] <= frames /\ (i < j => received[c][i][2] < received[c][j][2])
<1> DEFINE TasksInOrder == \A i, j \in DOMAIN tasks :
      tasks[i].n <= frames /\ (i < j => tasks[i].n < tasks[j].n)
<1>0. frames \in Nat /\ ReceivedInOrder /\ TasksInOrder
  BY DEF TypeOK, FramesInOrder
<1>1. \A c \in ConnectionId : \A i \in DOMAIN received[c] : received[c][i][2] \in Nat
  <2>1. \A c \in ConnectionId : \A i \in DOMAIN received[c] : received[c][i] \in Message
    BY ElementOfSeq, LenProperties DEF TypeOK
  <2> QED
    BY <2>1 DEF Message
<1>2. \A i \in DOMAIN tasks : tasks[i].n \in Nat
  BY TaskTypes
<1>3. ASSUME UNCHANGED received, frames' \in {frames, frames + 1}
      PROVE  ReceivedInOrder'
  BY <1>0, <1>1, <1>3
<1>4. ASSUME NEW c \in ConnectionId, Received(c), frames' = frames + 1
      PROVE  ReceivedInOrder'
  <2> SUFFICES ASSUME NEW d \in ConnectionId,
                      NEW i \in DOMAIN received'[d], NEW j \in DOMAIN received'[d]
               PROVE  /\ received'[d][i][2] <= frames'
                      /\ i < j => received'[d][i][2] < received'[d][j][2]
    OBVIOUS
  <2>1. CASE d # c
    <3>1. received'[d] = received[d]
      BY <1>4, <2>1, ReceivedLast
    <3> QED
      BY <1>0, <1>1, <1>4, <3>1
  <2>2. CASE d = c
    <3>1. /\ i \in DOMAIN received[c] \/ i = Len(received[c]) + 1
          /\ j \in DOMAIN received[c] \/ j = Len(received[c]) + 1
          /\ i < j => i \in DOMAIN received[c]
      BY <1>4, <2>2, ReceivedLast
    <3>2. /\ \A k \in DOMAIN received[c] : received'[c][k][2] = received[c][k][2]
          /\ received'[c][Len(received[c]) + 1][2] = frames + 1
      BY <1>4, ReceivedLast
    <3> QED
      BY <1>0, <1>1, <1>4, <2>2, <3>1, <3>2
  <2> QED
    BY <2>1, <2>2
<1>5. ASSUME UNCHANGED tasks, frames' \in {frames, frames + 1}
      PROVE  TasksInOrder'
  BY <1>0, <1>2, <1>5
<1>6. ASSUME NEW c \in ConnectionId, NEW kind \in FrameKind, Posted(c, kind),
             frames' = frames + 1
      PROVE  TasksInOrder'
  <2> SUFFICES ASSUME NEW i \in DOMAIN tasks', NEW j \in DOMAIN tasks'
               PROVE  tasks'[i].n <= frames' /\ (i < j => tasks'[i].n < tasks'[j].n)
    OBVIOUS
  <2>1. /\ i \in DOMAIN tasks \/ i = Len(tasks) + 1
        /\ j \in DOMAIN tasks \/ j = Len(tasks) + 1
        /\ i < j => i \in DOMAIN tasks
    BY <1>6, PostedTasks
  <2>2. /\ \A k \in DOMAIN tasks : tasks'[k].n = tasks[k].n
        /\ tasks'[Len(tasks) + 1].n = frames + 1
    BY <1>6, PostedTasks
  <2> QED
    BY <1>0, <1>2, <1>6, <2>1, <2>2
<1>7. CASE RunTask
  <2>1. /\ UNCHANGED <<received, frames>> /\ tasks # <<>>
        /\ tasks' = Tail(tasks) \/ tasks' = <<>>
    BY <1>7, RunTaskCases
  <2>2. CASE tasks' = Tail(tasks)
    <3> SUFFICES ASSUME NEW i \in DOMAIN Tail(tasks), NEW j \in DOMAIN Tail(tasks)
                 PROVE  /\ Tail(tasks)[i].n <= frames
                        /\ i < j => Tail(tasks)[i].n < Tail(tasks)[j].n
      BY <1>3, <2>1, <2>2 DEF FramesInOrder
    <3>1. /\ i + 1 \in DOMAIN tasks /\ Tail(tasks)[i] = tasks[i + 1]
          /\ j + 1 \in DOMAIN tasks /\ Tail(tasks)[j] = tasks[j + 1]
          /\ i < j => i + 1 < j + 1
      BY <2>1, TailOfTasks
    <3> QED
      BY <1>0, <3>1
  <2>3. CASE tasks' = <<>>
    <3>1. TasksInOrder'
      BY <2>3, EmptyQueue
    <3> QED
      BY <1>3, <2>1, <3>1 DEF FramesInOrder
  <2> QED
    BY <2>1, <2>2, <2>3
<1>8. CASE Quiet
  BY <1>3, <1>5, <1>8 DEF Quiet, FramesInOrder
<1>9. ASSUME NEW c \in ConnectionId, ToldAtOnce(c) PROVE FramesInOrder'
  BY <1>4, <1>5, <1>9 DEF ToldAtOnce, FramesInOrder
<1>10. ASSUME NEW c \in ConnectionId, NEW kind \in FrameKind, PostedForLater(c, kind)
       PROVE  FramesInOrder'
  BY <1>3, <1>4, <1>6, <1>10 DEF PostedForLater, FramesInOrder
<1> QED
  BY <1>7, <1>8, <1>9, <1>10, MessageSteps

\* The first task carries the next message of its connection, and that one alone.
LEMMA HeadIsNext ==
  ASSUME TypeOK, FramesInOrder, RestIsWaiting, tasks # <<>>, Decode(Head(tasks).kind),
         NEW c \in ConnectionId, Head(tasks).id = c, Handled(c) \in Nat
  PROVE  /\ Handled(c) + 1 \in DOMAIN received[c]
         /\ received[c][Handled(c) + 1] = <<"message", Head(tasks).n>>
         /\ \A j \in (Handled(c) + 2)..Len(received[c]) : ~ Carries(Head(tasks), c, received[c][j])
         /\ \A i \in DOMAIN tasks : i # 1 => ~ Carries(tasks[i], c, received[c][Handled(c) + 1])
<1>1. /\ received[c] \in Seq(Message) /\ Len(received[c]) \in Nat
      /\ DOMAIN received[c] = 1..Len(received[c])
      /\ 1 \in DOMAIN tasks /\ Head(tasks) = tasks[1] /\ DOMAIN tasks = 1..Len(tasks)
      /\ Len(tasks) \in Nat
  BY TailOfTasks, LenProperties DEF TypeOK
<1>2. PICK j \in (Handled(c) + 1)..Len(received[c]) : Carries(tasks[1], c, received[c][j])
  BY <1>1 DEF RestIsWaiting
<1>3. Handled(c) + 1 \in DOMAIN received[c] /\ j \in DOMAIN received[c]
  BY <1>1, <1>2
<1>4. PICK i \in DOMAIN tasks : Carries(tasks[i], c, received[c][Handled(c) + 1])
  <2>1. Handled(c) + 1 \in (Handled(c) + 1)..Len(received[c])
    BY <1>1, <1>2
  <2> QED
    BY <2>1 DEF RestIsWaiting, TasksAreLost
<1>5. \A k \in DOMAIN received[c] : received[c][k] \in Message /\ received[c][k][2] \in Nat
  <2>1. \A k \in DOMAIN received[c] : received[c][k] \in Message
    BY <1>1, ElementOfSeq
  <2> QED
    BY <2>1 DEF Message
<1>6. \A k \in DOMAIN tasks : tasks[k].n \in Nat
  BY TaskTypes
<1>7. j = Handled(c) + 1
  <2>1. SUFFICES ASSUME j # Handled(c) + 1 PROVE FALSE
    OBVIOUS
  <2>2. Handled(c) + 1 < j
    BY <1>2, <2>1
  <2>3. received[c][Handled(c) + 1][2] < received[c][j][2]
    BY <1>3, <2>2 DEF FramesInOrder
  <2>4. tasks[i].n < tasks[1].n
    BY <1>2, <1>4, <2>3 DEF Carries
  <2>5. i = 1 \/ tasks[1].n < tasks[i].n
    BY <1>1 DEF FramesInOrder
  <2> QED
    BY <1>1, <1>6, <2>4, <2>5
<1>8. received[c][Handled(c) + 1][2] = tasks[1].n
  BY <1>2, <1>7 DEF Carries
<1>9. received[c][Handled(c) + 1] = <<"message", tasks[1].n>>
  BY <1>3, <1>5, <1>8 DEF Message
<1>10. ASSUME NEW k \in (Handled(c) + 2)..Len(received[c])
       PROVE  ~ Carries(Head(tasks), c, received[c][k])
  <2>1. k \in DOMAIN received[c] /\ Handled(c) + 1 < k
    BY <1>1, <1>10
  <2>2. received[c][Handled(c) + 1][2] < received[c][k][2]
    BY <1>3, <2>1 DEF FramesInOrder
  <2> QED
    BY <1>1, <1>3, <1>5, <1>8, <2>1, <2>2 DEF Carries
<1>11. ASSUME NEW k \in DOMAIN tasks, k # 1
       PROVE  ~ Carries(tasks[k], c, received[c][Handled(c) + 1])
  <2>1. tasks[1].n < tasks[k].n
    BY <1>1, <1>11 DEF FramesInOrder
  <2> QED
    BY <1>1, <1>6, <1>8, <2>1 DEF Carries
<1> QED
  BY <1>1, <1>3, <1>9, <1>10, <1>11

\* A message that is received is told at once or waits in the last task, and
\* the task that runs is the next message of its connection.
LEMMA RestStep ==
  TypeOK /\ InlineNeverWaits /\ FramesInOrder /\ RestIsWaiting /\ HandledAsReceived /\ [Next]_vars
  => RestIsWaiting' /\ HandledAsReceived'
<1> SUFFICES ASSUME TypeOK, InlineNeverWaits, FramesInOrder, RestIsWaiting, HandledAsReceived,
                    [Next]_vars
             PROVE  RestIsWaiting' /\ HandledAsReceived'
  OBVIOUS
<1>0. /\ \A c \in ConnectionId : /\ Handled(c) \in Nat /\ Len(received[c]) \in Nat
                                 /\ DOMAIN received[c] = 1..Len(received[c])
      /\ frames \in Nat /\ frames + 1 \in Nat /\ 0 \in Nat
  <2>1. \A c \in ConnectionId : Handled(c) \in Nat
    <3> SUFFICES ASSUME NEW c \in ConnectionId PROVE Handled(c) \in Nat
      OBVIOUS
    <3>1. log[c] \in Seq(Event) /\ <<"message", 0>> \in Event
      BY DEF TypeOK, Event
    <3> QED
      BY <3>1, AppendedMessages DEF Handled
  <2>2. \A c \in ConnectionId : Len(received[c]) \in Nat /\ DOMAIN received[c] = 1..Len(received[c])
    BY LenProperties DEF TypeOK
  <2> QED
    BY <2>1, <2>2 DEF TypeOK
<1>1. CASE Quiet
  <2>1. UNCHANGED <<tasks, received>> /\ (system = "gone" => system' = "gone")
    BY <1>1 DEF Quiet
  <2>2. HandledAsReceived' /\ \A c \in ConnectionId : Handled(c)' = Handled(c)
    <3>1. CASE UNCHANGED log
      BY <2>1, <3>1 DEF HandledAsReceived, Handled
    <3>2. ASSUME NEW c \in ConnectionId, NEW event \in {"connected", "disconnected"},
                 Tell(c, event, 0)
          PROVE  HandledAsReceived' /\ \A d \in ConnectionId : Handled(d)' = Handled(d)
      BY <1>0, <2>1, <3>2, HandledAppend
    <3> QED
      BY <1>1, <3>1, <3>2 DEF Quiet
  <2>3. RestIsWaiting'
    BY <2>1, <2>2 DEF RestIsWaiting, TasksAreLost
  <2> QED
    BY <2>2, <2>3
<1>2. ASSUME NEW c \in ConnectionId, ToldAtOnce(c)
      PROVE  RestIsWaiting' /\ HandledAsReceived'
  <2>1. /\ tasks = <<>> /\ tasks' = <<>> /\ system # "gone" /\ system' = system
        /\ Received(c) /\ Tell(c, "message", frames + 1)
    BY <1>2 DEF ToldAtOnce, IoReady, InlineNeverWaits
  <2>2. \A i : i \notin DOMAIN tasks
    BY <2>1, EmptyQueue
  <2>3. \A d \in ConnectionId : Handled(d) = Len(received[d])
    BY <1>0, <2>1, <2>2 DEF RestIsWaiting, TasksAreLost
  <2>4. /\ DOMAIN received'[c] = 1..(Len(received[c]) + 1)
        /\ Len(received'[c]) = Len(received[c]) + 1
        /\ \A k \in 1..Len(received[c]) : received'[c][k] = received[c][k]
        /\ received'[c][Len(received[c]) + 1] = <<"message", frames + 1>>
        /\ \A d \in ConnectionId : d # c => received'[d] = received[d]
    BY <2>1, ReceivedLast
  <2>5. \A d \in ConnectionId : \A k \in DOMAIN received[d] :
          k \in DOMAIN received'[d] /\ received'[d][k] = received[d][k]
    <3>1. \A k \in 1..Len(received[c]) : k \in 1..(Len(received[c]) + 1)
      BY <1>0
    <3>2. \A k \in DOMAIN received[c] :
            k \in DOMAIN received'[c] /\ received'[c][k] = received[c][k]
      BY <1>0, <2>4, <3>1
    <3> QED
      BY <2>4, <3>2
  <2>6. Handled(c) + 1 \in DOMAIN received'[c]
    BY <1>0, <2>3, <2>4
  <2>7. received'[c][Handled(c) + 1] = <<"message", frames + 1>>
    BY <2>3, <2>4
  <2>8. /\ HandledAsReceived' /\ Handled(c)' = Handled(c) + 1
        /\ \A d \in ConnectionId : d # c => Handled(d)' = Handled(d)
    BY <1>0, <2>1, <2>5, <2>6, <2>7, HandledAppend
  <2>9. \A d \in ConnectionId : Handled(d)' = Len(received'[d]) /\ Len(received'[d]) \in Nat
    BY <1>0, <2>3, <2>4, <2>8
  <2>10. RestIsWaiting'
    BY <2>1, <2>2, <2>9 DEF RestIsWaiting
  <2> QED
    BY <2>8, <2>10
<1>3. ASSUME NEW c \in ConnectionId, NEW kind \in FrameKind, PostedForLater(c, kind)
      PROVE  RestIsWaiting' /\ HandledAsReceived'
  <2>1. /\ Posted(c, kind) /\ UNCHANGED log /\ system # "gone"
        /\ IF Decode(kind) THEN Received(c) ELSE UNCHANGED received
    BY <1>3 DEF PostedForLater, IoReady
  <2>2. /\ \A d \in ConnectionId : \A k \in DOMAIN received[d] :
             k \in DOMAIN received'[d] /\ received'[d][k] = received[d][k]
        /\ \A d \in ConnectionId :
             \/ received'[d] = received[d]
             \/ /\ d = c /\ Decode(kind) /\ Len(received'[d]) = Len(received[d]) + 1
                /\ received'[d][Len(received[d]) + 1] = <<"message", frames + 1>>
        /\ Decode(kind) => Len(received'[c]) = Len(received[c]) + 1
    <3>1. CASE Decode(kind)
      BY <1>0, <2>1, <3>1, ReceivedLast
    <3>2. CASE ~ Decode(kind)
      BY <2>1, <3>2
    <3> QED
      BY <3>1, <3>2
  <2>3. HandledAsReceived' /\ \A d \in ConnectionId : Handled(d)' = Handled(d)
    BY <2>1, <2>2 DEF HandledAsReceived, Handled
  <2>4. /\ \A i \in DOMAIN tasks : i \in DOMAIN tasks' /\ tasks'[i] = tasks[i]
        /\ \A i \in DOMAIN tasks' : i \in DOMAIN tasks \/ i = Len(tasks) + 1
        /\ Len(tasks) + 1 \in DOMAIN tasks'
        /\ tasks'[Len(tasks) + 1].id = c
        /\ tasks'[Len(tasks) + 1].n = frames + 1
        /\ tasks'[Len(tasks) + 1].kind = kind
    BY <2>1, PostedTasks
  <2>5. ASSUME NEW d \in ConnectionId
        PROVE  /\ Handled(d) <= Len(received'[d])
               /\ \A j \in (Handled(d) + 1)..Len(received'[d]) :
                    \E i \in DOMAIN tasks' : Carries(tasks'[i], d, received'[d][j])
               /\ \A i \in DOMAIN tasks' : tasks'[i].id = d /\ Decode(tasks'[i].kind) =>
                    \E j \in (Handled(d) + 1)..Len(received'[d]) :
                      Carries(tasks'[i], d, received'[d][j])
    <3>1. /\ Handled(d) <= Len(received[d])
          /\ \A j \in (Handled(d) + 1)..Len(received[d]) :
               \E i \in DOMAIN tasks : Carries(tasks[i], d, received[d][j])
          /\ \A i \in DOMAIN tasks : tasks[i].id = d /\ Decode(tasks[i].kind) =>
               \E j \in (Handled(d) + 1)..Len(received[d]) : Carries(tasks[i], d, received[d][j])
      BY <2>1 DEF RestIsWaiting, TasksAreLost
    <3>2. Len(received'[d]) \in Nat /\ Len(received[d]) <= Len(received'[d])
      BY <1>0, <2>2
    <3>3. \A j \in (Handled(d) + 1)..Len(received[d]) :
            j \in (Handled(d) + 1)..Len(received'[d]) /\ received'[d][j] = received[d][j]
      BY <1>0, <2>2, <3>2
    <3>4. ASSUME NEW j \in (Handled(d) + 1)..Len(received'[d])
          PROVE  \E i \in DOMAIN tasks' : Carries(tasks'[i], d, received'[d][j])
      <4>1. CASE j \in (Handled(d) + 1)..Len(received[d])
        BY <2>4, <3>1, <3>3, <4>1
      <4>2. CASE j \notin (Handled(d) + 1)..Len(received[d])
        <5>1. d = c /\ Decode(kind) /\ received'[d][j] = <<"message", frames + 1>>
          BY <1>0, <2>2, <3>4, <4>2
        <5> QED
          BY <2>4, <5>1 DEF Carries
      <4> QED
        BY <4>1, <4>2
    <3>5. ASSUME NEW i \in DOMAIN tasks', tasks'[i].id = d, Decode(tasks'[i].kind)
          PROVE  \E j \in (Handled(d) + 1)..Len(received'[d]) :
                   Carries(tasks'[i], d, received'[d][j])
      <4>1. CASE i \in DOMAIN tasks
        BY <2>4, <3>1, <3>3, <3>5, <4>1
      <4>2. CASE i = Len(tasks) + 1
        <5>1. d = c /\ Decode(kind)
          BY <2>4, <3>5, <4>2
        <5>2. Received(c)
          BY <2>1, <5>1
        <5>3. /\ Len(received[c]) + 1 \in (Handled(d) + 1)..Len(received'[d])
              /\ received'[c][Len(received[c]) + 1] = <<"message", frames + 1>>
          BY <1>0, <3>1, <5>1, <5>2, ReceivedLast
        <5> QED
          BY <2>4, <4>2, <5>1, <5>3 DEF Carries
      <4> QED
        BY <2>4, <4>1, <4>2
    <3>6. Handled(d) <= Len(received'[d])
      BY <1>0, <3>1, <3>2
    <3> QED
      BY <3>4, <3>5, <3>6
  <2>6. RestIsWaiting'
    BY <2>3, <2>5 DEF RestIsWaiting
  <2> QED
    BY <2>3, <2>6
<1>4. CASE RunTask
  <2>1. UNCHANGED <<system, received>> /\ tasks # <<>>
    BY <1>4, RunTaskCases
  <2>2. PICK task \in Task : task = Head(tasks)
    BY <1>4, RunTaskCases
  <2>3. /\ 1 \in DOMAIN tasks /\ task = tasks[1]
        /\ \A i \in DOMAIN Tail(tasks) : i + 1 \in DOMAIN tasks /\ Tail(tasks)[i] = tasks[i + 1]
        /\ \A i \in DOMAIN Tail(tasks) : i + 1 # 1
        /\ \A i \in DOMAIN tasks : i # 1 =>
             i - 1 \in DOMAIN Tail(tasks) /\ Tail(tasks)[i - 1] = tasks[i]
    BY <2>1, <2>2, TailOfTasks
  <2>4. CASE tasks' = Tail(tasks) /\ Decode(task.kind) /\ Tell(task.id, "message", task.n)
    <3>1. PICK c \in ConnectionId : c = task.id
      BY <2>2 DEF Task
    <3>2. /\ Handled(c) + 1 \in DOMAIN received[c]
          /\ received[c][Handled(c) + 1] = <<"message", task.n>>
          /\ \A j \in (Handled(c) + 2)..Len(received[c]) : ~ Carries(task, c, received[c][j])
          /\ \A i \in DOMAIN tasks : i # 1 => ~ Carries(tasks[i], c, received[c][Handled(c) + 1])
      BY <1>0, <2>1, <2>2, <2>4, <3>1, HeadIsNext
    <3>3. /\ HandledAsReceived' /\ Handled(c)' = Handled(c) + 1
          /\ \A d \in ConnectionId : d # c => Handled(d)' = Handled(d)
      <4>1. Tell(c, "message", task.n) /\ task.n \in Nat
        BY <2>4, <3>1 DEF Task
      <4> QED
        BY <2>1, <3>2, <4>1, HandledAppend
    <3>4. ASSUME NEW d \in ConnectionId
          PROVE  /\ Handled(d)' <= Len(received[d])
                 /\ \A j \in (Handled(d)' + 1)..Len(received[d]) :
                      \E i \in DOMAIN Tail(tasks) : Carries(Tail(tasks)[i], d, received[d][j])
                 /\ \A i \in DOMAIN Tail(tasks) :
                      Tail(tasks)[i].id = d /\ Decode(Tail(tasks)[i].kind) =>
                        \E j \in (Handled(d)' + 1)..Len(received[d]) :
                          Carries(Tail(tasks)[i], d, received[d][j])
      <4>1. /\ Handled(d) <= Len(received[d])
            /\ \A j \in (Handled(d) + 1)..Len(received[d]) :
                 \E i \in DOMAIN tasks : Carries(tasks[i], d, received[d][j])
            /\ \A i \in DOMAIN tasks : tasks[i].id = d /\ Decode(tasks[i].kind) =>
                 \E j \in (Handled(d) + 1)..Len(received[d]) : Carries(tasks[i], d, received[d][j])
        BY <2>1 DEF RestIsWaiting, TasksAreLost
      <4>2. /\ Handled(d)' \in {Handled(d), Handled(d) + 1}
            /\ d = c => Handled(d)' = Handled(d) + 1
            /\ d # c => Handled(d)' = Handled(d)
        BY <3>3
      <4>3. Handled(d)' <= Len(received[d])
        BY <1>0, <3>2, <4>1, <4>2
      <4>4. ASSUME NEW j \in (Handled(d)' + 1)..Len(received[d])
            PROVE  \E i \in DOMAIN Tail(tasks) : Carries(Tail(tasks)[i], d, received[d][j])
        <5>1. j \in (Handled(d) + 1)..Len(received[d])
          BY <1>0, <4>2, <4>4
        <5>2. PICK i \in DOMAIN tasks : Carries(tasks[i], d, received[d][j])
          BY <4>1, <5>1
        <5>3. i # 1
          <6>1. CASE d = c
            <7>1. j \in (Handled(c) + 2)..Len(received[c])
              BY <1>0, <4>2, <4>4, <6>1
            <7> QED
              BY <2>3, <3>2, <5>2, <6>1, <7>1
          <6>2. CASE d # c
            BY <2>3, <3>1, <5>2, <6>2 DEF Carries
          <6> QED
            BY <6>1, <6>2
        <5> QED
          BY <2>3, <5>2, <5>3
      <4>5. ASSUME NEW i \in DOMAIN Tail(tasks), Tail(tasks)[i].id = d,
                   Decode(Tail(tasks)[i].kind)
            PROVE  \E j \in (Handled(d)' + 1)..Len(received[d]) :
                     Carries(Tail(tasks)[i], d, received[d][j])
        <5>1. i + 1 \in DOMAIN tasks /\ Tail(tasks)[i] = tasks[i + 1] /\ i + 1 # 1
          BY <2>3
        <5>2. PICK j \in (Handled(d) + 1)..Len(received[d]) :
                Carries(Tail(tasks)[i], d, received[d][j])
          BY <4>1, <4>5, <5>1
        <5>3. d = c => j # Handled(c) + 1
          BY <3>2, <5>1, <5>2
        <5>4. j \in (Handled(d)' + 1)..Len(received[d])
          BY <1>0, <4>2, <5>3
        <5> QED
          BY <5>2, <5>4
      <4> QED
        BY <4>3, <4>4, <4>5
    <3>5. RestIsWaiting'
      BY <2>1, <2>4, <3>4 DEF RestIsWaiting
    <3> QED
      BY <3>3, <3>5
  <2>5. CASE UNCHANGED log /\ tasks' = Tail(tasks) /\ ~ Decode(task.kind)
    <3>1. HandledAsReceived' /\ \A d \in ConnectionId : Handled(d)' = Handled(d)
      BY <2>1, <2>5 DEF HandledAsReceived, Handled
    <3>2. ASSUME NEW d \in ConnectionId, NEW m, NEW i \in DOMAIN tasks, Carries(tasks[i], d, m)
          PROVE  \E k \in DOMAIN Tail(tasks) : Carries(Tail(tasks)[k], d, m)
      <4>1. i # 1
        BY <2>3, <2>5, <3>2 DEF Carries
      <4> QED
        BY <2>3, <3>2, <4>1
    <3>3. ASSUME NEW d \in ConnectionId
          PROVE  /\ Handled(d) <= Len(received[d])
                 /\ \A j \in (Handled(d) + 1)..Len(received[d]) :
                      \E i \in DOMAIN Tail(tasks) : Carries(Tail(tasks)[i], d, received[d][j])
                 /\ \A i \in DOMAIN Tail(tasks) :
                      Tail(tasks)[i].id = d /\ Decode(Tail(tasks)[i].kind) =>
                        \E j \in (Handled(d) + 1)..Len(received[d]) :
                          Carries(Tail(tasks)[i], d, received[d][j])
      BY <2>1, <2>3, <3>2 DEF RestIsWaiting, TasksAreLost
    <3>4. RestIsWaiting'
      BY <2>1, <2>5, <3>1, <3>3 DEF RestIsWaiting
    <3> QED
      BY <3>1, <3>4
  <2>6. CASE system = "gone" /\ tasks' = <<>> /\ UNCHANGED log
    <3>1. HandledAsReceived' /\ \A d \in ConnectionId : Handled(d)' = Handled(d)
      BY <2>1, <2>6 DEF HandledAsReceived, Handled
    <3>2. \A i : i \notin DOMAIN tasks'
      BY <2>6, EmptyQueue
    <3>3. \A d \in ConnectionId : Handled(d) <= Len(received[d])
      BY DEF RestIsWaiting
    <3>4. RestIsWaiting'
      BY <2>1, <2>6, <3>1, <3>2, <3>3 DEF RestIsWaiting, TasksAreLost
    <3> QED
      BY <3>1, <3>4
  <2> QED
    BY <1>4, <2>2, <2>4, <2>5, <2>6, RunTaskCases
<1> QED
  BY <1>1, <1>2, <1>3, <1>4, MessageSteps
-----------------------------------------------------------------------------
(* The theorems. *)

LEMMA InitInv == Init => IInv
<1> SUFFICES ASSUME Init PROVE IInv
  OBVIOUS
<1> USE DEF Init
<1>1. \A i : i \notin DOMAIN <<>>
  BY EmptyQueue
<1>2. TypeOK
  BY BoundsAssumption, States, EmptySeq DEF TypeOK
<1>3. \A c \in ConnectionId : \A e : ~ Heard(c, e)
  BY <1>1 DEF Heard
<1>4. \A c \in ConnectionId : Handled(c) = 0 /\ Len(received[c]) = 0
  <2>1. \A c \in ConnectionId : log[c] = <<>> /\ received[c] = <<>> /\ Len(<<>>) = 0
    BY EmptySeq
  <2>2. {i \in 1..0 : <<>>[i][1] = "message"} = {}
    OBVIOUS
  <2>3. MessagesAmong(<<>>, 0) = 0
    BY <2>2, FS_EmptySet DEF MessagesAmong
  <2> QED
    BY <2>1, <2>3 DEF Handled
<1>5. AcceptGoesOn /\ JoinedIsFree
  BY DEF AcceptGoesOn, JoinedIsFree, Free
<1>6. ConnectsAddUp
  BY DEF ConnectsAddUp
<1>7. OnlyMadeOnes
  BY <1>1, States DEF OnlyMadeOnes, Making, Free, Idle, ConnectionId
<1>8. InlineNeverWaits /\ GoneIsNotRead
  BY <1>3 DEF InlineNeverWaits, GoneIsNotRead
<1>9. EventsInOrder
  BY <1>1 DEF EventsInOrder
<1>10. TableIsTrue
  BY <1>3 DEF TableIsTrue, Making, Free
<1>11. FramesInOrder /\ HandledAsReceived
  BY <1>1 DEF FramesInOrder, HandledAsReceived
<1>12. RestIsWaiting
  BY <1>1, <1>4 DEF RestIsWaiting
<1> QED
  BY <1>2, <1>5, <1>6, <1>7, <1>8, <1>9, <1>10, <1>11, <1>12 DEF IInv

\* The inductive invariant holds.
THEOREM Invariance == Spec => []IInv
<1>1. IInv /\ [Next]_vars => IInv'
  BY TypeStep, AcceptStep, ConnectStep, OnlyMadeStep, OwnerStep, FramesStep, RestStep DEF IInv
<1> QED
  BY InitInv, <1>1, PTL DEF Spec

\* No Connect is forgotten: the acceptor's is followed up after each connection,
\* and each of the resolver's ends in a connection or in a report.
THEOREM ConnectsAreKept == Spec => []ConnectIsKept
<1>1. IInv => ConnectIsKept
  BY DEF IInv, AcceptGoesOn, ConnectsAddUp, ConnectIsKept
<1> QED
  BY Invariance, <1>1, PTL

\* The owner hears OnConnected first and once, and OnDisconnected last unless a
\* write failed or messages waited in a queue.
THEOREM EventsAreInOrder == Spec => []EventsInOrder
<1>1. IInv => EventsInOrder
  BY DEF IInv
<1> QED
  BY Invariance, <1>1, PTL

\* While the system is up, its table holds exactly the connections whose owner
\* was told of them and not told that they are gone.
THEOREM TableIsKept == Spec => []TableKnowsWhoIsUp
<1>1. IInv => TableKnowsWhoIsUp
  <2> SUFFICES ASSUME IInv, system = "up" PROVE TableKnowsWhoIsUp
    BY DEF TableKnowsWhoIsUp
  <2> DEFINE up == {c \in ConnectionId : Heard(c, "connected") /\ ~ Heard(c, "disconnected")}
  <2>1. io \in IoState /\ connections_ \subseteq ConnectionId
    BY DEF IInv, TypeOK
  <2>2. \A c \in ConnectionId :
          c \in connections_ <=> Making(c) \/ (c \in up /\ ~ (io.at = "removed" /\ io.id = c))
    BY DEF IInv, TableIsTrue
  <2>3. io.at \in {"created", "started"} => connections_ = up \cup {io.id}
    BY <2>1, <2>2 DEF Making, IoState
  <2>4. io.at = "removed" => connections_ = up \ {io.id}
    BY <2>1, <2>2 DEF Making
  <2>5. io.at \notin {"created", "started", "removed"} => connections_ = up
    BY <2>1, <2>2 DEF Making
  <2>6. connections_ = CASE io.at \in {"created", "started"} -> up \cup {io.id}
                         [] io.at = "removed" -> up \ {io.id}
                         [] OTHER -> up
    <3>1. CASE io.at \in {"created", "started"}
      <4>1. io.at # "removed"
        BY <3>1
      <4> HIDE DEF up
      <4> QED
        BY <2>3, <3>1, <4>1, Zenon
    <3>2. CASE io.at = "removed"
      <4>1. io.at \notin {"created", "started"}
        BY <3>2
      <4> HIDE DEF up
      <4> QED
        BY <2>4, <3>2, <4>1, Zenon
    <3>3. CASE io.at \notin {"created", "started", "removed"}
      <4>1. io.at \notin {"created", "started"} /\ io.at # "removed"
        BY <3>3
      <4> HIDE DEF up
      <4> QED
        BY <2>5, <3>3, <4>1, Zenon
    <3> QED
      BY <3>1, <3>2, <3>3
  <2> QED
    BY <2>6, Zenon DEF TableKnowsWhoIsUp
<1> QED
  BY Invariance, <1>1, PTL

\* The handler gets the messages of each connection in the order in which they
\* were received, none twice and none left out.
THEOREM MessagesStayInOrder == Spec => []HandledAsReceived
<1>1. IInv => HandledAsReceived
  BY DEF IInv
<1> QED
  BY Invariance, <1>1, PTL

\* Nothing is heard of a system that is destroyed but the tasks it left.
THEOREM TheRestIsSilence == Spec => OnlyTasksOutlive
<1>1. IInv /\ [Next]_vars => [system = "gone" /\ log' # log => tasks' # tasks]_vars
  <2> SUFFICES ASSUME IInv, [Next]_vars, system = "gone", log' # log PROVE tasks' # tasks
    OBVIOUS
  <2>1. io.at = "free" /\ TypeOK
    BY DEF IInv, JoinedIsFree
  <2>2. RunTask
    <3> USE DEF connector, table, sockets, messages, callers
    <3>1. ~ IoReady
      BY DEF IoReady
    <3>2. ASSUME NEW c \in ConnectionId, NEW kind \in FrameKind, Read(c, kind) PROVE FALSE
      BY <3>1, <3>2 DEF Read
    <3>3. ASSUME NEW c \in ConnectionId, FailRead(c) \/ FinishWrite(c) \/ FailWrite(c) \/ Lose(c)
          PROVE  FALSE
      BY <3>3 DEF FailRead, FinishWrite, FailWrite, Lose
    <3>4. CASE Initialize \/ AcceptorConnect \/ ResolverConnect \/ Accepted \/ Resolved
               \/ Connected
      BY <3>4 DEF Initialize, AcceptorConnect, ResolverConnect, Accepted, Resolved, Connected
    <3>5. CASE StartAccept \/ InitializeConnection \/ OnConnected \/ OnDisconnected
      BY <2>1, <3>5 DEF StartAccept, InitializeConnection, OnConnected, OnDisconnected
    <3>6. CASE Lookup
      BY <3>6 DEF Lookup, GetConnections
    <3>7. ASSUME NEW s \in Senders, NEW c \in ConnectionId, SendBytes(s, c) \/ Disconnect(s, c)
          PROVE  FALSE
      BY <3>7 DEF SendBytes, Disconnect
    <3>8. CASE DestroyTable \/ CloseAcceptor \/ StopIo \/ JoinIo \/ UNCHANGED vars
      BY <3>8 DEF DestroyTable, CloseAcceptor, StopIo, JoinIo, vars
    <3> QED
      BY <3>2, <3>3, <3>4, <3>5, <3>6, <3>7, <3>8, Steps
  <2>3. Len(Tail(tasks)) # Len(tasks)
    BY <2>1, <2>2, RunTaskCases, HeadTailProperties, LenProperties DEF TypeOK
  <2> QED
    BY <2>1, <2>2, <2>3, RunTaskCases
<1> QED
  BY Invariance, <1>1, PTL DEF Spec, OnlyTasksOutlive
=============================================================================
