----------------------------- MODULE TcpSystem -----------------------------
(***************************************************************************)
(* The TCP system (network/tcp/tcp_system.hpp) with what it is built of:   *)
(* the facades, the message processor and its codec, a connector           *)
(* (BoostTcpAcceptor or BoostTcpResolver) and the executor of messages.    *)
(*                                                                         *)
(* The connector's io thread runs completion handlers one at a time;       *)
(* application threads connect, send and disconnect; the executor runs the *)
(* message handlers: InlineExecutor on the io thread, QueuedExecutor with  *)
(* one worker on another (with more workers messages lose their order, see *)
(* QueuedExecutor).  A connection is its socket, the read in flight and    *)
(* the number of chains of writes in flight; BoostTcpConnection has the    *)
(* detail.  The owner of every connection has given an event handler.      *)
(***************************************************************************)
EXTENDS Naturals, Sequences, FiniteSets

CONSTANTS
  Setups,          \* the connectors and executors that a system is built with
  Senders,         \* application threads that send and disconnect
  MaxConnections,  \* bound: the connections ever created
  MaxFrames,       \* bound: the frames the peers send
  MaxCalls,        \* bound: the lookups of Send, Broadcast and Disconnect
  MaxConnects      \* bound: the calls of the resolver's Connect

ASSUME SetupsAssumption ==
  Setups \subseteq [connector : {"acceptor", "resolver"}, executor : {"inline", "queued"}]
ASSUME BoundsAssumption ==
  /\ MaxConnections \in Nat /\ MaxFrames \in Nat
  /\ MaxCalls \in Nat /\ MaxConnects \in Nat

ConnectionId == 1..MaxConnections

\* What an incoming frame is to ReadBytes, Process and HandleMessage.
FrameKind == {"tooLong", "malformed", "unknownType", "undecodable", "message"}

VARIABLES
  setup,                \* the connector and the executor the system was built with
  system,               \* the life of the system object
  accept,               \* acceptor_: not created, its accept in flight, or how that ended
  resolving,            \* Connect calls of the resolver whose async_resolve is in flight
  connecting,           \* those whose async_connect is in flight
  io,                   \* where the io thread is in a handler, and for which connection
  connections_,
  next_connection_id_,
  link,                 \* the socket of each connection
  reading,              \* the connections with a read in flight
  writes,               \* the chains of writes in flight of each connection
  lateReads,            \* the reads of closed sockets that had completed before the close
  lateWrites,           \* how many of the writes had, of each connection
  call,                 \* what each application thread is doing, and to whom
  tasks,                \* the executor's queue
  frames,               \* history: the number of frames read
  received,             \* history: the messages among them that the executor got
  log,                  \* history: what the owner heard of each connection, in order
  failedWrites,         \* history: the connections with a failed write
  asked, refused,       \* history: calls of the resolver's Connect, and those that failed
  calls                 \* history: the number of lookups

connector == <<accept, resolving, connecting, asked, refused>>
table     == <<connections_, next_connection_id_>>
late      == <<lateReads, lateWrites>>
sockets   == <<link, reading, writes, late, failedWrites>>
messages  == <<tasks, frames, received>>
callers   == <<call, calls>>
vars == <<setup, system, connector, io, table, sockets, messages, log, callers>>

Free == [at |-> "free", id |-> 0]
Idle == [at |-> "idle", targets |-> {}]

Init ==
  /\ setup \in Setups
  /\ system = "new"
  /\ accept = "none" /\ resolving = 0 /\ connecting = 0
  /\ io = Free
  /\ connections_ = {} /\ next_connection_id_ = 1
  /\ link = [c \in ConnectionId |-> "none"]
  /\ reading = {} /\ lateReads = {} /\ failedWrites = {}
  /\ writes = [c \in ConnectionId |-> 0] /\ lateWrites = [c \in ConnectionId |-> 0]
  /\ call = [s \in Senders |-> Idle]
  /\ tasks = <<>>
  /\ frames = 0
  /\ received = [c \in ConnectionId |-> <<>>]
  /\ log = [c \in ConnectionId |-> <<>>]
  /\ asked = 0 /\ refused = 0 /\ calls = 0
-----------------------------------------------------------------------------
\* Variant: several threads run the io_context.
AnyIoThread == system \in {"up", "tableGone", "closing"}

\* The io thread runs, and is between two handlers.
IoReady == system \in {"up", "tableGone", "closing"} /\ io.at = "free"

Tell(c, event, n) == log' = [log EXCEPT ![c] = Append(@, <<event, n>>)]

\* A step on connections_ after it was destroyed is undefined: here it has no
\* effect that anyone else sees.
SetTable(ids) == connections_' = IF system = "up" THEN ids ELSE connections_

(* The connector. *)

\* The facade is set and the io thread started.
Initialize ==
  /\ system = "new" /\ system' = "up"
  /\ UNCHANGED <<setup, connector, io, table, sockets, messages, log, callers>>

\* The acceptor is opened once: while it is open Connect returns at once, and
\* when it cannot be opened (which is reported) it may be tried again.
AcceptorConnect ==
  /\ setup.connector = "acceptor" /\ system \in {"new", "up"}
  /\ accept = "none" /\ accept' \in {"none", "armed"}
  /\ UNCHANGED <<setup, system, resolving, connecting, asked, refused, io, table, sockets,
                 messages, log, callers>>

ResolverConnect ==
  /\ setup.connector = "resolver" /\ system \in {"new", "up"}
  /\ asked < MaxConnects
  /\ asked' = asked + 1
  /\ resolving' = resolving + 1
  /\ UNCHANGED <<setup, system, accept, connecting, refused, io, table, sockets, messages,
                 log, callers>>

\* CreateConnection, first half: the connection is in the table before it has
\* a facade, and before its owner hears of it.
Emplace ==
  /\ next_connection_id_ \in ConnectionId
  /\ next_connection_id_' = next_connection_id_ + 1
  /\ SetTable(connections_ \cup {next_connection_id_})
  /\ link' = [link EXCEPT ![next_connection_id_] = "up"]
  /\ io' = [at |-> "created", id |-> next_connection_id_]
  /\ UNCHANGED <<reading, writes, late, failedWrites>>

\* The handler of async_accept.  On an error it goes straight on to StartAccept,
\* unless the accept was cancelled.
Accepted ==
  /\ IoReady
  /\ \/ accept = "armed" /\ accept' = "completed" /\ Emplace
     \/ /\ accept \in {"armed", "failed"} /\ accept' = "completed"
        /\ io' = [at |-> "rearm", id |-> 0] /\ UNCHANGED <<table, sockets>>
     \/ accept = "aborted" /\ accept' = "none" /\ UNCHANGED <<io, table, sockets>>
  /\ UNCHANGED <<setup, system, resolving, connecting, asked, refused, messages, log, callers>>

\* An acceptor that was closed accepts nothing.
StartAccept ==
  /\ io.at = "rearm" /\ io' = Free
  /\ accept' = IF system \in {"closing", "stopping"} THEN "failed" ELSE "armed"
  /\ UNCHANGED <<setup, system, resolving, connecting, asked, refused, table, sockets, messages,
                 log, callers>>

OnConnectionFailed == refused' = refused + 1

\* Variant: the error is reported, and the handler goes on.
ResolvedWithoutReturn ==
  /\ IoReady
  /\ resolving > 0 /\ resolving' = resolving - 1
  /\ connecting' = connecting + 1
  /\ refused' \in {refused, refused + 1}
  /\ UNCHANGED <<setup, system, accept, asked, io, table, sockets, messages, log, callers>>

\* The handlers of async_resolve and of async_connect.
Resolved ==
  /\ IoReady
  /\ resolving > 0 /\ resolving' = resolving - 1
  /\ \/ connecting' = connecting + 1 /\ UNCHANGED refused
     \/ OnConnectionFailed /\ UNCHANGED connecting
  /\ UNCHANGED <<setup, system, accept, asked, io, table, sockets, messages, log, callers>>

Connected ==
  /\ IoReady
  /\ connecting > 0 /\ connecting' = connecting - 1
  /\ \/ Emplace /\ UNCHANGED refused
     \/ OnConnectionFailed /\ UNCHANGED <<io, table, sockets>>
  /\ UNCHANGED <<setup, system, accept, resolving, asked, messages, log, callers>>

\* Variant: the facade is set, and nothing is read.
InitializeWithoutStart ==
  /\ io.at = "created" /\ io' = [io EXCEPT !.at = "started"]
  /\ UNCHANGED <<reading, setup, system, connector, table, link, writes, late, failedWrites,
                 messages, log, callers>>

\* CreateConnection, second half: the facade is set and the reading started ...
InitializeConnection ==
  /\ io.at = "created" /\ io' = [io EXCEPT !.at = "started"]
  /\ reading' = reading \cup {io.id}
  /\ UNCHANGED <<setup, system, connector, table, link, writes, late, failedWrites,
                 messages, log, callers>>

\* ... and the owner told.  An acceptor goes on to StartAccept.
OnConnected ==
  /\ io.at = "started"
  /\ Tell(io.id, "connected", 0)
  /\ io' = IF setup.connector = "acceptor" THEN [at |-> "rearm", id |-> 0] ELSE Free
  /\ UNCHANGED <<setup, system, connector, table, sockets, messages, callers>>
-----------------------------------------------------------------------------
(* A connection, on the io thread. *)

\* Variant: the connection stays in the table.
KeepConnection(c) == UNCHANGED table

RemoveConnection(c) == SetTable(connections_ \ {c}) /\ UNCHANGED next_connection_id_

\* The connection is out of the table before its owner is told.
OnDisconnect(c) ==
  /\ RemoveConnection(c)
  /\ io' = [at |-> "removed", id |-> c]

OnDisconnected ==
  /\ io.at = "removed" /\ io' = Free
  /\ Tell(io.id, "disconnected", 0)
  /\ UNCHANGED <<setup, system, connector, table, sockets, messages, callers>>

\* The codec and the table of known types.  Exceptions of the JSON library end
\* as a frame, or a payload, that is not decoded.
DecodeEnvelope(kind) == kind # "malformed"
HasHandler(kind) == kind # "unknownType"
Decode(kind) == kind # "undecodable"

\* What a task does: it decodes the payload and calls the message handler.
HandleMessage(task) ==
  IF Decode(task.kind) THEN Tell(task.id, "message", task.n) ELSE UNCHANGED log

\* Variant: the executor takes the newest task first.
PostFirst(task) ==
  IF setup.executor = "inline"
    THEN HandleMessage(task) /\ UNCHANGED tasks
    ELSE tasks' = <<task>> \o tasks /\ UNCHANGED log

Post(task) ==
  IF setup.executor = "inline"
    THEN HandleMessage(task) /\ UNCHANGED tasks
    ELSE tasks' = Append(tasks, task) /\ UNCHANGED log

\* A frame that has no envelope or no known type is dropped.
Process(c, kind) ==
  IF DecodeEnvelope(kind) /\ HasHandler(kind)
    THEN /\ Post([id |-> c, n |-> frames + 1, kind |-> kind])
         /\ received' = [received EXCEPT ![c] =
                           IF Decode(kind) THEN Append(@, <<"message", frames + 1>>) ELSE @]
    ELSE UNCHANGED <<tasks, log, received>>

MoreFrames == frames + Cardinality(lateReads) < MaxFrames

\* A frame has been read, though the socket may be closed since.  One that is
\* too long ends the reading, and the connection with it.
Read(c, kind) ==
  /\ IoReady
  /\ c \in reading
  /\ c \in lateReads \/ (link[c] # "closed" /\ MoreFrames)
  /\ lateReads' = lateReads \ {c}
  /\ frames' = frames + 1
  /\ IF kind = "tooLong"
       THEN reading' = reading \ {c} /\ OnDisconnect(c) /\ UNCHANGED <<tasks, received, log>>
       ELSE Process(c, kind) /\ UNCHANGED <<reading, io, table>>
  /\ UNCHANGED <<setup, system, connector, link, writes, lateWrites, failedWrites, callers>>

FailRead(c) ==
  /\ IoReady
  /\ c \in reading \ lateReads /\ link[c] # "up"
  /\ reading' = reading \ {c}
  /\ OnDisconnect(c)
  /\ UNCHANGED <<setup, system, connector, link, writes, late, failedWrites, messages, log, callers>>

\* The last write of a chain has ended, or on a closed socket one after which
\* the chain goes on.
FinishWrite(c) ==
  /\ IoReady
  /\ writes[c] > 0
  /\ \/ /\ link[c] # "closed"
        /\ writes' = [writes EXCEPT ![c] = @ - 1] /\ UNCHANGED lateWrites
     \/ /\ lateWrites[c] > 0
        /\ writes' \in {writes, [writes EXCEPT ![c] = @ - 1]}
        /\ lateWrites' = [lateWrites EXCEPT ![c] = @ - 1]
  /\ UNCHANGED <<setup, system, connector, io, table, link, reading, lateReads, failedWrites,
                 messages, log, callers>>

FailWrite(c) ==
  /\ IoReady
  /\ writes[c] > lateWrites[c] /\ link[c] # "up"
  /\ writes' = [writes EXCEPT ![c] = @ - 1]
  /\ failedWrites' = failedWrites \cup {c}
  /\ OnDisconnect(c)
  /\ UNCHANGED <<setup, system, connector, link, reading, late, messages, log, callers>>

\* The peer goes away.  (During the destructor it makes no difference.)
Lose(c) ==
  /\ system = "up"
  /\ link[c] = "up" /\ link' = [link EXCEPT ![c] = "lost"]
  /\ UNCHANGED <<setup, system, connector, io, table, reading, writes, late, failedWrites,
                 messages, log, callers>>

\* The worker of a queued executor takes a task.  Once the system is gone the
\* processor that a task points to is freed: the task runs as before, or it
\* takes the process with it.
RunTask ==
  /\ tasks # <<>>
  /\ \/ HandleMessage(Head(tasks)) /\ tasks' = Tail(tasks)
     \/ system = "gone" /\ tasks' = <<>> /\ UNCHANGED log
  /\ UNCHANGED <<setup, system, connector, io, table, sockets, frames, received, callers>>
-----------------------------------------------------------------------------
(* The application. *)

\* The connections found are kept after the mutex is released.
GetConnections(s, range, next) ==
  /\ system = "up" /\ call[s] = Idle /\ calls < MaxCalls
  /\ calls' = calls + 1
  /\ LET targets == range \cap connections_
     IN  call' = [call EXCEPT ![s] =
                    IF targets = {} THEN Idle ELSE [at |-> next, targets |-> targets]]
  /\ UNCHANGED <<setup, system, connector, io, table, sockets, messages, log>>

Send(s, c) == GetConnections(s, {c}, "send")

\* To a range of connections, or to all of them.
Broadcast(s) ==
  \E range \in SUBSET ConnectionId : GetConnections(s, range, "send")

FindToDisconnect(s, c) == GetConnections(s, {c}, "disconnect")

Done(s, c) ==
  LET left == call[s].targets \ {c}
  IN  call' = [call EXCEPT ![s] =
                 IF left = {} THEN Idle ELSE [at |-> call[s].at, targets |-> left]]

\* A write is started, or the frame left to one in flight.
SendBytes(s, c) ==
  /\ call[s].at = "send" /\ c \in call[s].targets
  /\ Done(s, c)
  /\ \/ writes' = [writes EXCEPT ![c] = @ + 1]
     \/ writes[c] > 0 /\ UNCHANGED writes
  /\ UNCHANGED <<setup, system, connector, io, table, link, reading, late, failedWrites,
                 messages, log, calls>>

\* What has completed before the socket is closed still has its handler run
\* without an error.
Close(c) ==
  /\ link[c] # "closed" /\ link' = [link EXCEPT ![c] = "closed"]
  /\ \/ UNCHANGED lateReads
     \/ c \in reading /\ MoreFrames /\ lateReads' = lateReads \cup {c}
  /\ \E n \in 0..writes[c] : lateWrites' = [lateWrites EXCEPT ![c] = n]

\* Shutting down a socket that is closed, or perhaps that its peer has left,
\* throws before it is closed.
Disconnect(s, c) ==
  /\ call[s].at = "disconnect" /\ c \in call[s].targets
  /\ Done(s, c)
  /\ \/ Close(c)
     \/ link[c] # "up" /\ UNCHANGED <<link, late>>
  /\ UNCHANGED <<setup, system, connector, io, table, reading, writes, failedWrites, messages, log,
                 calls>>

\* The destructor, when no call is under way.  Members die in reverse order:
\* connections_ and its mutex first, while the connector still runs ...
DestroyTable ==
  /\ system \in {"new", "up"}
  /\ \A s \in Senders : call[s] = Idle
  /\ system' = "tableGone"
  /\ connections_' = {}
  /\ UNCHANGED <<setup, connector, io, next_connection_id_, sockets, messages, log, callers>>

\* ... then the connector.  An accept in flight is cancelled and its acceptor
\* closed, unless it has completed (and a resolve, which can fail anyway); ...
CloseAcceptor ==
  /\ system = "tableGone" /\ system' = "closing"
  /\ accept' \in IF accept = "armed" THEN {"armed", "aborted"} ELSE {accept}
  /\ UNCHANGED <<setup, resolving, connecting, asked, refused, io, table, sockets, messages, log,
                 callers>>

\* ... the io_context is stopped, which starts no other handler, ...
StopIo ==
  /\ system = "closing" /\ system' = "stopping"
  /\ accept' = "none" /\ resolving' = 0 /\ connecting' = 0
  /\ link' = [c \in ConnectionId |-> "none"]
  /\ reading' = {} /\ lateReads' = {}
  /\ writes' = [c \in ConnectionId |-> 0] /\ lateWrites' = [c \in ConnectionId |-> 0]
  /\ UNCHANGED <<setup, asked, refused, io, table, failedWrites, messages, log, callers>>

\* Variant: the thread is detached.
DetachIo ==
  /\ system = "stopping"
  /\ system' = "gone"
  /\ UNCHANGED <<setup, connector, io, table, sockets, messages, log, callers>>

\* ... and joins the io thread, which ends the handler it is in.
JoinIo ==
  /\ system = "stopping" /\ io = Free
  /\ system' = "gone"
  /\ UNCHANGED <<setup, connector, io, table, sockets, messages, log, callers>>
-----------------------------------------------------------------------------
\* A handler that has begun goes on.
Continue == StartAccept \/ InitializeConnection \/ OnConnected \/ OnDisconnected

Next ==
  \/ Initialize \/ AcceptorConnect \/ ResolverConnect
  \/ Accepted \/ Resolved \/ Connected \/ Continue
  \/ \E c \in ConnectionId :
       \/ \E kind \in FrameKind : Read(c, kind)
       \/ FailRead(c) \/ FinishWrite(c) \/ FailWrite(c) \/ Lose(c)
  \/ RunTask
  \/ \E s \in Senders :
       \/ Broadcast(s)
       \/ \E c \in ConnectionId :
            Send(s, c) \/ FindToDisconnect(s, c) \/ SendBytes(s, c) \/ Disconnect(s, c)
  \/ DestroyTable \/ CloseAcceptor \/ StopIo \/ JoinIo

Spec == Init /\ [][Next]_vars

\* The handler of a read that has ended.
EndRead(c) == FailRead(c) \/ (c \in lateReads /\ \E kind \in FrameKind : Read(c, kind))

\* A handler that has begun ends, and the io_context runs its ready handlers in
\* turn, so a read that has ended is not passed over for ever.
Fairness ==
  /\ WF_vars(Continue)
  /\ \A c \in ConnectionId : SF_vars(EndRead(c))

FairSpec == Spec /\ Fairness
-----------------------------------------------------------------------------
(* Properties. *)

Heard(c, event) == \E i \in DOMAIN log[c] : log[c][i][1] = event
MessagesAmong(events, n) == Cardinality({i \in 1..n : events[i][1] = "message"})

\* The owner hears OnConnected first and once, though the connection could be
\* sent to, lost and closed before.  After OnDisconnected it may hear
\* OnDisconnected again, or a message with it, only because a write failed or
\* because messages wait in a queue.
EventsInOrder ==
  \A c \in ConnectionId : \A i, j \in DOMAIN log[c] :
    /\ (log[c][i][1] = "connected") = (i = 1)
    /\ i < j /\ log[c][i][1] = "disconnected" =>
         \/ c \in failedWrites
         \/ log[c][j][1] = "message" /\ setup.executor = "queued"

\* The table holds exactly the connections that the owner has been told of
\* and not told are gone, apart from the one the io thread is telling it of.
TableKnowsWhoIsUp ==
  system = "up" =>
    LET up == {c \in ConnectionId : Heard(c, "connected") /\ ~Heard(c, "disconnected")}
    IN  connections_ = CASE io.at \in {"created", "started"} -> up \cup {io.id}
                         [] io.at = "removed" -> up \ {io.id}
                         [] OTHER -> up

\* The handler gets the messages of a connection once each and in the order
\* they were received; none is overtaken in the executor.
HandledAsReceived ==
  \A c \in ConnectionId : \A i \in DOMAIN log[c] :
    log[c][i][1] = "message" =>
      LET n == MessagesAmong(log[c], i)
      IN  n \in DOMAIN received[c] /\ log[c][i] = received[c][n]

\* No Connect is forgotten, whatever handler fails.  The acceptor's goes on: it
\* has an accept in flight, or a handler under way that will start the next.
\* Each of the resolver's is under way, refused, or has made one connection.
ConnectIsKept ==
  /\ accept = "completed" => io.at \in {"created", "started", "rearm"}
  /\ setup.connector = "resolver" /\ system \notin {"stopping", "gone"} =>
       asked = resolving + connecting + refused + (next_connection_id_ - 1)

\* A connection that is lost or closed while the system is up is removed and
\* reported, even if it is lost before its reading began.
LossIsReported ==
  \A c \in ConnectionId :
    (system = "up" /\ link[c] \in {"lost", "closed"}) ~>
      (Heard(c, "disconnected") \/ system # "up")

\* Once the system is destroyed its connections are silent; all that may still
\* be heard is a task that was left in the executor.
OnlyTasksOutlive == [][system = "gone" /\ log' # log => tasks' # tasks]_vars
=============================================================================
