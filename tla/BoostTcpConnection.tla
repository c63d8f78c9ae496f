------------------------ MODULE BoostTcpConnection ------------------------
(***************************************************************************)
(* One asynchronous TCP connection (network-modules/src/connectors/        *)
(* boost_async/boost_tcp_connection.cpp) between the TCP system that sends *)
(* on it and its peer.                                                     *)
(*                                                                         *)
(* Any thread may send; completion handlers run one at a time on the       *)
(* thread of the connector's io_context.  A frame (length and payload) is  *)
(* written by boost::asio::async_write, a composed operation that moves it *)
(* to the socket in several pieces; pieces of two operations that are in   *)
(* flight together go out in any order.  Frames are numbered in the order  *)
(* in which SendBytes queued them.                                         *)
(***************************************************************************)
EXTENDS Naturals, Sequences, FiniteSets, Functions

CONSTANTS
  Senders,      \* threads that send
  io,           \* the thread of the io_context
  MaxFrames,    \* bound: the number of frames ever sent
  MaxIncoming,  \* bound: the number of frames the peer has under way
  Pieces        \* the pieces that a frame is written in

ASSUME IoAssumption == io \notin Senders
ASSUME BoundsAssumption == MaxFrames \in Nat /\ MaxIncoming \in Nat /\ Pieces \in Nat \ {0}

Threads == Senders \cup {io}
Frame == 1..MaxFrames
NoFrame == 0
Length == {"fits", "tooLong"}  \* of an incoming frame, against MaxMessageBytes

VARIABLES
  socket,           \* socket_
  outgoing_bytes_,  \* the frames queued
  at,               \* where each thread is in SendBytes and SendNext
  held,             \* the frame a thread has popped and not begun to write
  writes,           \* the frames whose async_write is in flight
  written,          \* how many pieces of each frame are on the wire
  wire,             \* the pieces sent
  reader,           \* where the connection is in ReadBytes
  incoming,         \* the frames from the peer that are still to be read
  removed,          \* OnDisconnect has removed the connection from its system
  queued,           \* history: the number of frames queued
  failed,           \* history: the frames whose write failed
  paced             \* history: no frame was queued before the last was written

sending   == <<outgoing_bytes_, at, held, writes, written, wire>>
receiving == <<reader, incoming>>
history   == <<queued, failed, paced>>
vars == <<socket, sending, receiving, removed, history>>

TypeOK ==
  /\ socket \in {"open", "closed"}
  /\ outgoing_bytes_ \in Seq(Frame)
  /\ at \in [Threads -> {"idle", "found", "next", "write"}]
  /\ held \in [Threads -> Frame \cup {NoFrame}]
  /\ writes \subseteq Frame
  /\ written \in [Frame -> 0..Pieces]
  /\ wire \in Seq(Frame \X (1..Pieces))
  /\ reader \in {"new", "length", "payload", "stopped"}
  /\ incoming \in Seq(Length)
  /\ removed \in BOOLEAN
  /\ queued \in 0..MaxFrames
  /\ failed \subseteq Frame
  /\ paced \in BOOLEAN

Init ==
  /\ socket = "open"
  /\ outgoing_bytes_ = <<>>
  /\ at = [t \in Threads |-> "idle"]
  /\ held = [t \in Threads |-> NoFrame]
  /\ writes = {}
  /\ written = [f \in Frame |-> 0]
  /\ wire = <<>>
  /\ reader = "new"
  /\ incoming = <<>>
  /\ removed = FALSE
  /\ queued = 0
  /\ failed = {}
  /\ paced = TRUE
-----------------------------------------------------------------------------
Goto(t, place) == at' = [at EXCEPT ![t] = place]

\* A handler runs when the io thread is free.
IoFree == at[io] = "idle"

\* The facade removes the connection from the TCP system.
OnDisconnect == removed' = TRUE

\* No frame is queued, popped or being written.
Quiet ==
  /\ outgoing_bytes_ = <<>>
  /\ writes = {}
  /\ \A t \in Threads : held[t] = NoFrame

(* Sending. *)

\* TcpSystem::Send finds the connection and keeps it.
FindConnection(s) ==
  /\ at[s] = "idle"
  /\ ~removed
  /\ queued < MaxFrames
  /\ Goto(s, "found")
  /\ UNCHANGED <<socket, outgoing_bytes_, held, writes, written, wire, receiving,
                 removed, history>>

\* The frame is queued; whoever finds the queue empty goes on to SendNext.
SendBytes(s) ==
  /\ at[s] = "found"
  /\ queued < MaxFrames
  /\ queued' = queued + 1
  /\ outgoing_bytes_' = Append(outgoing_bytes_, queued + 1)
  /\ paced' = (paced /\ Quiet)
  /\ Goto(s, IF Len(outgoing_bytes_) > 0 THEN "idle" ELSE "next")
  /\ UNCHANGED <<socket, held, writes, written, wire, receiving, removed, failed>>

\* Variant: the frame is copied and stays in the queue.
PopNothing(t) ==
  /\ at[t] = "next"
  /\ IF outgoing_bytes_ = <<>>
       THEN Goto(t, "idle") /\ UNCHANGED held
       ELSE Goto(t, "write") /\ held' = [held EXCEPT ![t] = Head(outgoing_bytes_)]
  /\ UNCHANGED <<outgoing_bytes_, socket, writes, written, wire, receiving, removed,
                 history>>

\* SendNext under the mutex: the frame leaves the queue before it is written.
PopFrame(t) ==
  /\ at[t] = "next"
  /\ IF outgoing_bytes_ = <<>>
       THEN Goto(t, "idle") /\ UNCHANGED <<held, outgoing_bytes_>>
       ELSE /\ Goto(t, "write")
            /\ held' = [held EXCEPT ![t] = Head(outgoing_bytes_)]
            /\ outgoing_bytes_' = Tail(outgoing_bytes_)
  /\ UNCHANGED <<socket, writes, written, wire, receiving, removed, history>>

StartWrite(t) ==
  /\ at[t] = "write"
  /\ writes' = writes \cup {held[t]}
  /\ held' = [held EXCEPT ![t] = NoFrame]
  /\ Goto(t, "idle")
  /\ UNCHANGED <<socket, outgoing_bytes_, written, wire, receiving, removed, history>>

\* The socket takes a piece of any write in flight.
WritePiece(f) ==
  /\ f \in writes
  /\ socket = "open"
  /\ written[f] < Pieces
  /\ written' = [written EXCEPT ![f] = @ + 1]
  /\ wire' = Append(wire, <<f, written[f] + 1>>)
  /\ UNCHANGED <<socket, outgoing_bytes_, at, held, writes, receiving, removed, history>>

\* Variant: a finished write does not go on with the next frame.
FinishWriteAndStop(f) ==
  /\ IoFree
  /\ f \in writes
  /\ written[f] = Pieces
  /\ writes' = writes \ {f}
  /\ UNCHANGED <<socket, outgoing_bytes_, at, held, written, wire, receiving,
                 removed, history>>

\* Variant: one async_write_some, that may write less than the frame.
FinishShortWrite(f) ==
  /\ IoFree
  /\ f \in writes
  /\ written[f] > 0
  /\ writes' = writes \ {f}
  /\ Goto(io, "next")
  /\ UNCHANGED <<socket, outgoing_bytes_, held, written, wire, receiving, removed,
                 history>>

FinishWrite(f) ==
  /\ IoFree
  /\ f \in writes
  /\ written[f] = Pieces
  /\ writes' = writes \ {f}
  /\ Goto(io, "next")
  /\ UNCHANGED <<socket, outgoing_bytes_, held, written, wire, receiving, removed,
                 history>>

\* A write that fails reports the disconnect and is followed by no other.
FailWrite(f) ==
  /\ IoFree
  /\ f \in writes
  /\ written[f] < Pieces
  /\ socket = "closed"
  /\ writes' = writes \ {f}
  /\ failed' = failed \cup {f}
  /\ OnDisconnect
  /\ UNCHANGED <<socket, outgoing_bytes_, at, held, written, wire, receiving,
                 queued, paced>>
-----------------------------------------------------------------------------
(* Receiving. *)

Start ==
  /\ reader = "new"
  /\ reader' = "length"
  /\ UNCHANGED <<socket, sending, incoming, removed, history>>

PeerSends(length) ==
  /\ socket = "open"
  /\ Len(incoming) < MaxIncoming
  /\ incoming' = Append(incoming, length)
  /\ UNCHANGED <<socket, sending, reader, removed, history>>

\* A frame that is too long ends the reading, and the connection with it; the
\* socket is not closed.
ReadLength ==
  /\ IoFree
  /\ reader = "length"
  /\ incoming # <<>>
  /\ IF Head(incoming) = "tooLong"
       THEN reader' = "stopped" /\ OnDisconnect
       ELSE reader' = "payload" /\ UNCHANGED removed
  /\ UNCHANGED <<socket, sending, incoming, history>>

ReadPayload ==
  /\ IoFree
  /\ reader = "payload"
  /\ incoming' = Tail(incoming)
  /\ reader' = "length"
  /\ UNCHANGED <<socket, sending, removed, history>>

\* Variant: an error ends the reading without a report.
FailReadSilently ==
  /\ IoFree
  /\ reader \in {"length", "payload"}
  /\ socket = "closed"
  /\ reader' = "stopped"
  /\ UNCHANGED <<socket, sending, incoming, removed, history>>

FailRead ==
  /\ IoFree
  /\ reader \in {"length", "payload"}
  /\ socket = "closed"
  /\ reader' = "stopped"
  /\ OnDisconnect
  /\ UNCHANGED <<socket, sending, incoming, history>>

\* The peer goes away, or TcpSystem::Disconnect closes the socket.  (On a
\* socket that is closed already, Disconnect throws and changes nothing.)
Close ==
  /\ socket = "open"
  /\ socket' = "closed"
  /\ UNCHANGED <<sending, receiving, removed, history>>
-----------------------------------------------------------------------------
IoStep ==
  \/ PopFrame(io) \/ StartWrite(io)
  \/ \E f \in Frame : FinishWrite(f) \/ FailWrite(f)
  \/ ReadLength \/ ReadPayload \/ FailRead

SenderStep(s) == SendBytes(s) \/ PopFrame(s) \/ StartWrite(s)

Next ==
  \/ \E s \in Senders : FindConnection(s) \/ SenderStep(s)
  \/ \E f \in Frame : WritePiece(f)
  \/ \E length \in Length : PeerSends(length)
  \/ Start \/ Close
  \/ IoStep

Spec == Init /\ [][Next]_vars

\* The handlers that are ready run, and a call that has begun goes on.  A peer
\* need neither send nor read.
Fairness ==
  /\ WF_vars(IoStep) /\ WF_vars(Start)
  /\ \A s \in Senders : WF_vars(SenderStep(s))

FairSpec == Spec /\ Fairness
-----------------------------------------------------------------------------
(* Properties. *)

Unwritten == {f \in Frame : f <= queued /\ written[f] < Pieces} \ failed

\* A queued frame never waits for nothing: a write is in flight whose handler
\* sends the next frame, a thread is about to, or a write has failed.
QueueIsServed ==
  outgoing_bytes_ # <<>> =>
    \/ writes # {} \/ failed # {}
    \/ \E t \in Threads : at[t] \in {"next", "write"}

\* A frame that is not on the wire yet is in one place: queued once, popped by
\* one thread, or being written.  None is lost between the threads, or taken
\* by two of them.
EachFrameInOnePlace ==
  \A f \in Unwritten :
    Cardinality({i \in DOMAIN outgoing_bytes_ : outgoing_bytes_[i] = f})
      + Cardinality({t \in Threads : held[t] = f})
      + Cardinality(writes \cap {f}) = 1

\* The wire carries whole frames, in the order they were queued.
InFrames(pieces) ==
  \A i \in DOMAIN pieces :
    pieces[i] = <<((i - 1) \div Pieces) + 1, ((i - 1) % Pieces) + 1>>

\* Frames are whole, and in order, if each is queued after the last was written.
PacedFramesIntact == paced => InFrames(wire)

\* A connection that is closed by either side is removed from its system.
CloseIsReported == (socket = "closed") ~> removed
=============================================================================
