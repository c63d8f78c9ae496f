---------------------- MODULE BoostTcpConnection_proofs ----------------------
(***************************************************************************)
(* Proofs of the safety properties of BoostTcpConnection, for any senders, *)
(* any number of frames and any number of pieces that they are written in. *)
(***************************************************************************)
EXTENDS BoostTcpConnection, SequenceLemmas, FiniteSetTheorems

(* The inductive invariant. *)

\* A thread holds a frame while it is about to write it.
HeldWhileWriting ==
  \A t \in Threads : at[t] = "write" <=> held[t] # NoFrame

\* The payload is read of a frame that is there.
PayloadIsThere == reader = "payload" => incoming # <<>>

\* The places of a frame that is not on the wire.
InQueue(f) == f \in Range(outgoing_bytes_)
IsHeld(f) == \E t \in Threads : held[t] = f

\* Frames are numbered as they are queued, and there are none but these.
OnlyQueuedFrames ==
  /\ Increasing(outgoing_bytes_)
  /\ \A f \in Frame : InQueue(f) \/ IsHeld(f) \/ f \in writes => f <= queued
  /\ \A f \in Frame : f > queued => written[f] = 0

\* No frame is in two places, nor does one get lost on the way.
OnePlace ==
  /\ \A f \in Frame :
       /\ ~ (InQueue(f) /\ IsHeld(f))
       /\ ~ (InQueue(f) /\ f \in writes)
       /\ ~ (IsHeld(f) /\ f \in writes)
       /\ \A t, u \in Threads : held[t] = f /\ held[u] = f => t = u
  /\ \A f \in Unwritten : InQueue(f) \/ IsHeld(f) \/ f \in writes

\* A write fails only on a closed socket, which takes no more pieces.
FailedOnlyWhenClosed == failed # {} => socket = "closed"

\* While the senders wait for one another, only the last frame is under way,
\* and what is on the wire are the frames before it and its own first pieces.
LastFrameOnly ==
  paced =>
    /\ \A f \in Frame : InQueue(f) \/ IsHeld(f) \/ f \in writes => f = queued
    /\ InFrames(wire)
    /\ socket = "open" =>
         Len(wire) = IF queued = 0 THEN 0
                     ELSE (queued - 1) * Pieces + written[queued]

PlaceInv ==
  /\ TypeOK
  /\ HeldWhileWriting
  /\ PayloadIsThere
  /\ OnlyQueuedFrames
  /\ OnePlace

IInv ==
  /\ PlaceInv
  /\ QueueIsServed
  /\ FailedOnlyWhenClosed
  /\ LastFrameOnly
-----------------------------------------------------------------------------
(* Type correctness. *)

\* The frame at the front leaves the queue.
LEMMA FirstFrame ==
  ASSUME TypeOK, outgoing_bytes_ # <<>>
  PROVE  /\ Head(outgoing_bytes_) \in Frame
         /\ Head(outgoing_bytes_) # NoFrame
         /\ Tail(outgoing_bytes_) \in Seq(Frame)
         /\ Range(outgoing_bytes_) =
              {Head(outgoing_bytes_)} \cup Range(Tail(outgoing_bytes_))
<1>1. outgoing_bytes_ \in Seq(Frame)
  BY DEF TypeOK
<1>2. /\ Head(outgoing_bytes_) \in Frame
      /\ Tail(outgoing_bytes_) \in Seq(Frame)
      /\ Range(outgoing_bytes_) =
           {Head(outgoing_bytes_)} \cup Range(Tail(outgoing_bytes_))
  BY <1>1, RangeOfTail
<1>3. NoFrame \notin Frame
  BY DEF Frame, NoFrame
<1> QED
  BY <1>2, <1>3

LEMMA FramesAreNumbers == \A s \in Seq(Frame) : s \in Seq(Nat)
<1>1. Frame \subseteq Nat
  BY DEF Frame
<1> QED
  BY <1>1, SeqMonotonic

LEMMA TypeStep ==
  TypeOK /\ HeldWhileWriting /\ PayloadIsThere /\ [Next]_vars =>
    TypeOK' /\ HeldWhileWriting' /\ PayloadIsThere'
<1> DEFINE Goal == TypeOK' /\ HeldWhileWriting' /\ PayloadIsThere'
<1> SUFFICES ASSUME TypeOK, HeldWhileWriting, PayloadIsThere, [Next]_vars PROVE Goal
  OBVIOUS
<1> USE BoundsAssumption DEF sending, receiving, history, Goto, HeldWhileWriting,
        PayloadIsThere
<1>0. io \in Threads /\ Senders \subseteq Threads
  BY DEF Threads
<1>1. ASSUME NEW s \in Senders, FindConnection(s) PROVE Goal
  BY <1>0, <1>1 DEF FindConnection, TypeOK
<1>2. ASSUME NEW s \in Senders, SendBytes(s) PROVE Goal
  <2>1. queued + 1 \in Frame /\ queued + 1 \in 0..MaxFrames
    BY <1>2 DEF SendBytes, TypeOK, Frame
  <2>2. outgoing_bytes_' \in Seq(Frame)
    BY <1>2, <2>1, AppendProperties DEF SendBytes, TypeOK
  <2>3. at' \in [Threads -> {"idle", "found", "next", "write"}] /\ paced' \in BOOLEAN
    BY <1>0, <1>2 DEF SendBytes, TypeOK
  <2>4. HeldWhileWriting'
    BY <1>0, <1>2 DEF SendBytes, TypeOK
  <2> QED
    BY <1>2, <2>1, <2>2, <2>3, <2>4 DEF SendBytes, TypeOK
<1>3. ASSUME NEW t \in Threads, PopFrame(t) PROVE Goal
  <2>1. CASE outgoing_bytes_ = <<>>
    BY <1>3, <2>1 DEF PopFrame, TypeOK
  <2>2. CASE outgoing_bytes_ # <<>>
    <3>1. /\ at' = [at EXCEPT ![t] = "write"]
          /\ held' = [held EXCEPT ![t] = Head(outgoing_bytes_)]
          /\ outgoing_bytes_' = Tail(outgoing_bytes_)
      BY <1>3, <2>2 DEF PopFrame
    <3>2. HeldWhileWriting'
      BY <2>2, <3>1, FirstFrame DEF TypeOK
    <3> QED
      BY <1>3, <2>2, <3>1, <3>2, FirstFrame DEF PopFrame, TypeOK
  <2> QED
    BY <2>1, <2>2
<1>4. ASSUME NEW t \in Threads, StartWrite(t) PROVE Goal
  BY <1>4 DEF StartWrite, TypeOK, Frame, NoFrame
<1>5. ASSUME NEW f \in Frame, WritePiece(f) PROVE Goal
  <2>1. written[f] + 1 \in 0..Pieces /\ <<f, written[f] + 1>> \in Frame \X (1..Pieces)
    BY <1>5 DEF WritePiece, TypeOK
  <2>2. wire' \in Seq(Frame \X (1..Pieces))
    BY <1>5, <2>1, AppendProperties DEF WritePiece, TypeOK
  <2>3. written' \in [Frame -> 0..Pieces]
    BY <1>5, <2>1 DEF WritePiece, TypeOK
  <2> QED
    BY <1>5, <2>2, <2>3 DEF WritePiece, TypeOK
<1>6. ASSUME NEW f \in Frame, FinishWrite(f) PROVE Goal
  BY <1>0, <1>6 DEF FinishWrite, IoFree, TypeOK
<1>7. ASSUME NEW f \in Frame, FailWrite(f) PROVE Goal
  BY <1>7 DEF FailWrite, OnDisconnect, TypeOK
<1>8. ASSUME NEW length \in Length, PeerSends(length) PROVE Goal
  <2>1. incoming \in Seq(Length) /\ incoming' = Append(incoming, length)
    BY <1>8 DEF PeerSends, TypeOK
  <2>2. incoming' \in Seq(Length) /\ incoming' # <<>>
    BY <2>1, AppendProperties
  <2> QED
    BY <1>8, <2>2 DEF PeerSends, TypeOK
<1>9. CASE Start \/ Close
  BY <1>9 DEF Start, Close, TypeOK
<1>10. CASE ReadLength
  BY <1>10 DEF ReadLength, OnDisconnect, TypeOK
<1>11. CASE ReadPayload
  <2>1. Tail(incoming) \in Seq(Length)
    BY <1>11, RangeOfTail DEF ReadPayload, TypeOK
  <2> QED
    BY <1>11, <2>1 DEF ReadPayload, TypeOK
<1>12. CASE FailRead
  BY <1>12 DEF FailRead, OnDisconnect, TypeOK
<1>13. CASE UNCHANGED vars
  BY <1>13 DEF vars, TypeOK
<1> QED
  BY <1>0, <1>1, <1>2, <1>3, <1>4, <1>5, <1>6, <1>7, <1>8, <1>9, <1>10, <1>11,
     <1>12, <1>13
     DEF Next, SenderStep, IoStep
-----------------------------------------------------------------------------
(* The queue is served. *)

\* Needs no more than the types: who has to go on with the queue is a write in
\* flight, whose handler does, or a thread that has not let go of it.
LEMMA ServedStep == TypeOK /\ QueueIsServed /\ [Next]_vars => QueueIsServed'
<1> SUFFICES ASSUME TypeOK, QueueIsServed, [Next]_vars PROVE QueueIsServed'
  OBVIOUS
<1> USE DEF sending, receiving, history, Goto, QueueIsServed
<1>0. io \in Threads /\ Senders \subseteq Threads
  BY DEF Threads
<1>1. ASSUME UNCHANGED <<outgoing_bytes_, at, writes, failed>> PROVE QueueIsServed'
  BY <1>1
<1>2. ASSUME NEW s \in Senders, FindConnection(s) PROVE QueueIsServed'
  BY <1>0, <1>2 DEF FindConnection, TypeOK
<1>3. ASSUME NEW s \in Senders, SendBytes(s) PROVE QueueIsServed'
  <2>1. CASE outgoing_bytes_ = <<>>
    <3>1. at'[s] = "next"
      BY <1>0, <1>3, <2>1 DEF SendBytes, TypeOK
    <3> QED
      BY <1>0, <3>1
  <2>2. CASE outgoing_bytes_ # <<>>
    BY <1>0, <1>3, <2>2 DEF SendBytes, TypeOK
  <2> QED
    BY <2>1, <2>2
<1>4. ASSUME NEW t \in Threads, PopFrame(t) PROVE QueueIsServed'
  BY <1>4 DEF PopFrame, TypeOK
<1>5. ASSUME NEW t \in Threads, StartWrite(t) PROVE QueueIsServed'
  BY <1>5 DEF StartWrite
<1>6. ASSUME NEW f \in Frame, FinishWrite(f) PROVE QueueIsServed'
  BY <1>0, <1>6 DEF FinishWrite, TypeOK
<1>7. ASSUME NEW f \in Frame, FailWrite(f) PROVE QueueIsServed'
  BY <1>7 DEF FailWrite
<1>8. ASSUME NEW f \in Frame, WritePiece(f) PROVE QueueIsServed'
  BY <1>1, <1>8 DEF WritePiece
<1>9. ASSUME NEW length \in Length, PeerSends(length) PROVE QueueIsServed'
  BY <1>1, <1>9 DEF PeerSends
<1>10. CASE Start \/ Close \/ ReadLength \/ ReadPayload \/ FailRead \/ UNCHANGED vars
  BY <1>1, <1>10 DEF Start, Close, ReadLength, ReadPayload, FailRead, vars
<1> QED
  BY <1>0, <1>2, <1>3, <1>4, <1>5, <1>6, <1>7, <1>8, <1>9, <1>10
     DEF Next, SenderStep, IoStep
-----------------------------------------------------------------------------
(* Each frame is in one place. *)

\* Steps that touch neither queue nor frames leave all in their places.
LEMMA PlacesUntouched ==
  ASSUME OnlyQueuedFrames, OnePlace,
         UNCHANGED <<outgoing_bytes_, held, writes, written, queued, failed>>
  PROVE  OnlyQueuedFrames' /\ OnePlace'
BY DEF OnlyQueuedFrames, OnePlace, Unwritten, InQueue, IsHeld

\* A new frame is in the queue only, behind all the others.
LEMMA PlaceSendBytes ==
  ASSUME PlaceInv, NEW s \in Threads, SendBytes(s)
  PROVE  OnlyQueuedFrames' /\ OnePlace'
<1> USE BoundsAssumption
<1>1. queued + 1 \in Frame /\ queued \in Nat /\ queued + 1 \in Nat
  BY DEF SendBytes, PlaceInv, TypeOK, Frame
<1>2. outgoing_bytes_ \in Seq(Frame) /\ outgoing_bytes_ \in Seq(Nat)
  BY FramesAreNumbers DEF PlaceInv, TypeOK
<1>3. outgoing_bytes_' = Append(outgoing_bytes_, queued + 1)
  BY DEF SendBytes
<1>4. Range(outgoing_bytes_') = Range(outgoing_bytes_) \cup {queued + 1}
  BY <1>1, <1>2, <1>3, RangeOfAppend
<1>5. Range(outgoing_bytes_) \subseteq Frame
  BY <1>2 DEF Range
<1>6. \A f \in Range(outgoing_bytes_) : f < queued + 1
  BY <1>1, <1>5 DEF PlaceInv, OnlyQueuedFrames, InQueue, Frame
<1>7. Increasing(outgoing_bytes_')
  BY <1>1, <1>2, <1>3, <1>6, IncreasingAppend DEF PlaceInv, OnlyQueuedFrames
<1>8. /\ UNCHANGED <<held, writes, written, failed>>
      /\ queued' = queued + 1
  BY DEF SendBytes
<1>9. \A f \in Frame : InQueue(f)' <=> InQueue(f) \/ f = queued + 1
  BY <1>4 DEF InQueue
<1>10. \A f \in Frame : IsHeld(f)' <=> IsHeld(f)
  BY <1>8 DEF IsHeld
<1>11. \A f \in Frame : f <= queued' <=> f <= queued \/ f = queued + 1
  BY <1>1, <1>8 DEF Frame
<1>12. OnlyQueuedFrames'
  BY <1>1, <1>7, <1>8, <1>9, <1>10, <1>11 DEF PlaceInv, OnlyQueuedFrames, Frame
<1>13. ~ IsHeld(queued + 1) /\ queued + 1 \notin writes
  BY <1>1 DEF PlaceInv, OnlyQueuedFrames
<1>14. \A f \in Unwritten' : f \in Unwritten \/ f = queued + 1
  BY <1>8, <1>11 DEF Unwritten
<1>15. OnePlace'
  <2>1. \A f \in Unwritten' : InQueue(f)' \/ IsHeld(f)' \/ f \in writes'
    BY <1>8, <1>9, <1>10, <1>14 DEF PlaceInv, OnePlace, Unwritten
  <2>2. ASSUME NEW f \in Frame
        PROVE  /\ ~ (InQueue(f)' /\ IsHeld(f)')
               /\ ~ (InQueue(f)' /\ f \in writes')
               /\ ~ (IsHeld(f)' /\ f \in writes')
               /\ \A t, u \in Threads : held'[t] = f /\ held'[u] = f => t = u
    BY <1>8, <1>9, <1>10, <1>13 DEF PlaceInv, OnePlace
  <2> QED
    BY <2>1, <2>2 DEF OnePlace, InQueue, IsHeld
<1> QED
  BY <1>12, <1>15

\* A frame that is popped is the first, and is no longer queued.
LEMMA PlacePopFrame ==
  ASSUME PlaceInv, NEW t \in Threads, PopFrame(t)
  PROVE  OnlyQueuedFrames' /\ OnePlace'
<1>1. CASE outgoing_bytes_ = <<>>
  BY <1>1, PlacesUntouched DEF PopFrame, PlaceInv, history
<1>2. CASE outgoing_bytes_ # <<>>
  <2> DEFINE first == Head(outgoing_bytes_)
  <2>1. /\ first \in Frame
        /\ first # NoFrame
        /\ Range(outgoing_bytes_) = {first} \cup Range(Tail(outgoing_bytes_))
    BY <1>2, FirstFrame DEF PlaceInv
  <2>2. /\ outgoing_bytes_' = Tail(outgoing_bytes_)
        /\ held' = [held EXCEPT ![t] = first]
        /\ UNCHANGED <<writes, written, queued, failed>>
    BY <1>2 DEF PopFrame, history
  <2>3. held[t] = NoFrame /\ held \in [Threads -> Frame \cup {NoFrame}]
    BY DEF PopFrame, PlaceInv, TypeOK, HeldWhileWriting
  <2>4. /\ Increasing(outgoing_bytes_')
        /\ \A f \in Range(Tail(outgoing_bytes_)) : first < f
    <3>1. outgoing_bytes_ \in Seq(Nat) /\ Increasing(outgoing_bytes_)
      BY FramesAreNumbers DEF PlaceInv, TypeOK, OnlyQueuedFrames
    <3> QED
      BY <1>2, <2>2, <3>1, IncreasingTail
  <2>5. ~ (first < first)
    BY <2>1 DEF Frame
  <2>6. \A f \in Frame : InQueue(f)' <=> InQueue(f) /\ f # first
    BY <2>1, <2>2, <2>4, <2>5 DEF InQueue
  <2> HIDE DEF first
  <2>7. \A f \in Frame : f # NoFrame
    BY DEF Frame, NoFrame
  <2>8. \A f \in Frame : IsHeld(f)' <=> IsHeld(f) \/ f = first
    BY <2>1, <2>2, <2>3, <2>7 DEF IsHeld
  <2>9. InQueue(first)
    BY <2>1 DEF InQueue, first
  <2>10. OnlyQueuedFrames'
    BY <2>1, <2>2, <2>4, <2>6, <2>8, <2>9 DEF PlaceInv, OnlyQueuedFrames
  <2>11. \A f \in Frame :
           /\ ~ (InQueue(f)' /\ IsHeld(f)')
           /\ ~ (InQueue(f)' /\ f \in writes')
           /\ ~ (IsHeld(f)' /\ f \in writes')
    BY <2>1, <2>2, <2>6, <2>8, <2>9 DEF PlaceInv, OnePlace
  <2>12. ASSUME NEW f \in Frame, NEW u \in Threads, NEW v \in Threads,
                held'[u] = f, held'[v] = f
         PROVE  u = v
    <3>1. CASE f = first
      <4>1. \A w \in Threads : held[w] # first
        BY <2>1, <2>9 DEF PlaceInv, OnePlace, IsHeld
      <4> QED
        BY <2>2, <2>3, <2>12, <3>1, <4>1
    <3>2. CASE f # first
      BY <2>2, <2>3, <2>12, <3>2 DEF PlaceInv, OnePlace
    <3> QED
      BY <3>1, <3>2
  <2>13. \A f \in Unwritten' : InQueue(f)' \/ IsHeld(f)' \/ f \in writes'
    BY <2>2, <2>6, <2>8 DEF PlaceInv, OnePlace, Unwritten
  <2> QED
    BY <2>10, <2>11, <2>12, <2>13 DEF OnePlace, InQueue, IsHeld
<1> QED
  BY <1>1, <1>2

\* A frame whose write begins is no longer held.
LEMMA PlaceStartWrite ==
  ASSUME PlaceInv, NEW t \in Threads, StartWrite(t)
  PROVE  OnlyQueuedFrames' /\ OnePlace'
<1>1. PICK g \in Frame : held[t] = g /\ g # NoFrame
  BY DEF StartWrite, PlaceInv, TypeOK, HeldWhileWriting
<1>2. /\ writes' = writes \cup {g}
      /\ held' = [held EXCEPT ![t] = NoFrame]
      /\ UNCHANGED <<outgoing_bytes_, written, queued, failed>>
  BY <1>1 DEF StartWrite, history
<1>3. held \in [Threads -> Frame \cup {NoFrame}]
  BY DEF PlaceInv, TypeOK
<1>4. \A f \in Frame : f # NoFrame
  BY DEF Frame, NoFrame
<1>5. \A f \in Frame : InQueue(f)' <=> InQueue(f)
  BY <1>2 DEF InQueue
<1>6. \A f \in Frame : IsHeld(f)' <=> IsHeld(f) /\ f # g
  BY <1>1, <1>2, <1>3, <1>4 DEF IsHeld, PlaceInv, OnePlace
<1>7. IsHeld(g)
  BY <1>1 DEF IsHeld
<1>8. OnlyQueuedFrames'
  BY <1>2, <1>5, <1>6, <1>7 DEF PlaceInv, OnlyQueuedFrames
<1>9. \A f \in Frame :
        /\ ~ (InQueue(f)' /\ IsHeld(f)')
        /\ ~ (InQueue(f)' /\ f \in writes')
        /\ ~ (IsHeld(f)' /\ f \in writes')
  BY <1>2, <1>5, <1>6, <1>7 DEF PlaceInv, OnePlace
<1>10. \A f \in Frame : \A u, v \in Threads : held'[u] = f /\ held'[v] = f => u = v
  BY <1>2, <1>3, <1>4 DEF PlaceInv, OnePlace
<1>11. \A f \in Unwritten' : InQueue(f)' \/ IsHeld(f)' \/ f \in writes'
  BY <1>2, <1>5, <1>6 DEF PlaceInv, OnePlace, Unwritten
<1> QED
  BY <1>8, <1>9, <1>10, <1>11 DEF OnePlace, InQueue, IsHeld

\* A write that ends, well or not, was of a frame that needs no place any more.
LEMMA PlaceEndOfWrite ==
  ASSUME PlaceInv, NEW f \in Frame, FinishWrite(f) \/ FailWrite(f)
  PROVE  OnlyQueuedFrames' /\ OnePlace'
<1>1. /\ writes' = writes \ {f}
      /\ UNCHANGED <<outgoing_bytes_, held, written, queued>>
  BY DEF FinishWrite, FailWrite, history
<1>2. \A g \in Unwritten' : g \in Unwritten /\ g # f
  <2>1. CASE FinishWrite(f)
    <3>1. ~ (written[f] < Pieces) /\ UNCHANGED failed
      BY <2>1, BoundsAssumption DEF FinishWrite, history
    <3> QED
      BY <1>1, <3>1 DEF Unwritten
  <2>2. CASE FailWrite(f)
    BY <1>1, <2>2 DEF FailWrite, Unwritten
  <2> QED
    BY <2>1, <2>2
<1>3. OnlyQueuedFrames'
  BY <1>1 DEF PlaceInv, OnlyQueuedFrames, InQueue, IsHeld
<1> QED
  BY <1>1, <1>2, <1>3 DEF PlaceInv, OnePlace, InQueue, IsHeld

\* A piece on the wire moves no frame: its write is still in flight.
LEMMA PlaceWritePiece ==
  ASSUME PlaceInv, NEW f \in Frame, WritePiece(f)
  PROVE  OnlyQueuedFrames' /\ OnePlace'
<1>1. /\ f \in writes
      /\ written' = [written EXCEPT ![f] = @ + 1]
      /\ written \in [Frame -> 0..Pieces]
      /\ written[f] < Pieces
      /\ UNCHANGED <<outgoing_bytes_, held, writes, queued, failed>>
  BY DEF WritePiece, history, PlaceInv, TypeOK
<1>2. f <= queued /\ queued \in Nat /\ f \in Nat
  BY <1>1, BoundsAssumption DEF PlaceInv, TypeOK, OnlyQueuedFrames, Frame
<1>3. \A g \in Unwritten' : g \in Unwritten
  <2>1. \A g \in Frame : g # f => written'[g] = written[g]
    BY <1>1
  <2> QED
    BY <1>1, <1>2, <2>1 DEF Unwritten, PlaceInv, OnlyQueuedFrames
<1>4. OnlyQueuedFrames'
  <2>1. \A g \in Frame : g > queued => g # f
    BY <1>2 DEF Frame
  <2>2. \A g \in Frame : g # f => written'[g] = written[g]
    BY <1>1
  <2> QED
    BY <1>1, <2>1, <2>2 DEF PlaceInv, OnlyQueuedFrames, InQueue, IsHeld
<1> QED
  BY <1>1, <1>3, <1>4 DEF PlaceInv, OnePlace, InQueue, IsHeld

LEMMA PlaceStep == PlaceInv /\ [Next]_vars => PlaceInv'
<1> SUFFICES ASSUME PlaceInv, [Next]_vars PROVE OnlyQueuedFrames' /\ OnePlace'
  BY TypeStep DEF PlaceInv
<1>0. io \in Threads /\ Senders \subseteq Threads
  BY DEF Threads
<1>1. ASSUME UNCHANGED <<outgoing_bytes_, held, writes, written, queued, failed>>
      PROVE  OnlyQueuedFrames' /\ OnePlace'
  BY <1>1, PlacesUntouched DEF PlaceInv
<1>2. ASSUME NEW s \in Senders, FindConnection(s) PROVE OnlyQueuedFrames' /\ OnePlace'
  BY <1>1, <1>2 DEF FindConnection, history
<1>3. ASSUME NEW length \in Length, PeerSends(length)
      PROVE  OnlyQueuedFrames' /\ OnePlace'
  BY <1>1, <1>3 DEF PeerSends, sending, history
<1>4. CASE Start \/ Close \/ ReadLength \/ ReadPayload \/ FailRead \/ UNCHANGED vars
  BY <1>1, <1>4
     DEF Start, Close, ReadLength, ReadPayload, FailRead, vars, sending, history
<1> QED
  BY <1>0, <1>2, <1>3, <1>4, PlaceSendBytes, PlacePopFrame, PlaceStartWrite,
     PlaceEndOfWrite, PlaceWritePiece
     DEF Next, SenderStep, IoStep
-----------------------------------------------------------------------------
(* The wire. *)

\* A socket is never opened again.
LEMMA FailedStep == FailedOnlyWhenClosed /\ [Next]_vars => FailedOnlyWhenClosed'
<1> SUFFICES ASSUME FailedOnlyWhenClosed, [Next]_vars PROVE FailedOnlyWhenClosed'
  OBVIOUS
<1> USE DEF FailedOnlyWhenClosed, history
<1>1. ASSUME NEW s \in Senders, FindConnection(s) \/ SendBytes(s)
      PROVE  FailedOnlyWhenClosed'
  BY <1>1 DEF FindConnection, SendBytes
<1>2. ASSUME NEW t \in Threads, PopFrame(t) \/ StartWrite(t) PROVE FailedOnlyWhenClosed'
  BY <1>2 DEF PopFrame, StartWrite
<1>3. ASSUME NEW f \in Frame, WritePiece(f) \/ FinishWrite(f) \/ FailWrite(f)
      PROVE  FailedOnlyWhenClosed'
  BY <1>3 DEF WritePiece, FinishWrite, FailWrite
<1>4. ASSUME NEW length \in Length, PeerSends(length) PROVE FailedOnlyWhenClosed'
  BY <1>4 DEF PeerSends
<1>5. CASE Start \/ Close \/ ReadLength \/ ReadPayload \/ FailRead \/ UNCHANGED vars
  BY <1>5 DEF Start, Close, ReadLength, ReadPayload, FailRead, vars
<1> QED
  BY <1>1, <1>2, <1>3, <1>4, <1>5 DEF Next, SenderStep, IoStep, Threads

\* A piece's place on the wire tells its frame, and which of its pieces it is.
LEMMA PieceAt ==
  ASSUME NEW q \in Nat, NEW P \in Nat \ {0}, NEW w \in 0..(P - 1)
  PROVE  (q * P + w) \div P = q /\ (q * P + w) % P = w
<1> DEFINE n == q * P + w
           d == n \div P
           r == n % P
<1>1. q * P \in Nat /\ n \in Nat
  OBVIOUS
<1>2. d \in Int /\ r \in 0..(P - 1) /\ n = P * d + r
  BY <1>1
<1> HIDE DEF d, r
<1>3. ASSUME d > q PROVE FALSE
  <2>1. PICK k \in Nat : d = q + k /\ k >= 1
    <3>1. d - q \in Nat /\ d - q >= 1 /\ d = q + (d - q)
      BY <1>2, <1>3
    <3> QED
      BY <3>1
  <2>2. P * k >= P
    BY <2>1
  <2>3. P * d = q * P + P * k
    BY <2>1
  <2> QED
    BY <1>2, <2>2, <2>3
<1>4. ASSUME d < q PROVE FALSE
  <2>1. PICK k \in Nat : q = d + k /\ k >= 1
    <3>1. q - d \in Nat /\ q - d >= 1 /\ q = d + (q - d)
      BY <1>2, <1>4
    <3> QED
      BY <3>1
  <2>2. P * k >= P
    BY <2>1
  <2>3. q * P = P * d + P * k
    BY <1>2, <2>1
  <2> QED
    BY <1>2, <2>2, <2>3
<1>5. d = q
  BY <1>2, <1>3, <1>4
<1>6. r = w
  BY <1>2, <1>5
<1> QED
  BY <1>5, <1>6 DEF d, r

\* A piece that is the next of the last frame keeps the wire in frames.
LEMMA InFramesAppend ==
  ASSUME NEW pieces \in Seq(Frame \X (1..Pieces)), InFrames(pieces),
         NEW f \in Frame, NEW w \in 0..(Pieces - 1),
         Len(pieces) = (f - 1) * Pieces + w
  PROVE  InFrames(Append(pieces, <<f, w + 1>>))
<1> DEFINE longer == Append(pieces, <<f, w + 1>>)
<1>1. Pieces \in Nat \ {0} /\ f \in Nat /\ f - 1 \in Nat /\ (f - 1) + 1 = f
  BY BoundsAssumption DEF Frame
<1>2. w + 1 \in 1..Pieces
  BY <1>1
<1>3. <<f, w + 1>> \in Frame \X (1..Pieces)
  BY <1>2
<1>4. /\ DOMAIN pieces = 1..Len(pieces)
      /\ Len(pieces) \in Nat
      /\ DOMAIN longer = 1..(Len(pieces) + 1)
      /\ \A i \in 1..Len(pieces) : longer[i] = pieces[i]
      /\ longer[Len(pieces) + 1] = <<f, w + 1>>
  BY <1>3, AppendProperties, LenProperties
<1>5. /\ ((f - 1) * Pieces + w) \div Pieces = f - 1
      /\ ((f - 1) * Pieces + w) % Pieces = w
  BY <1>1, PieceAt
<1> HIDE DEF longer
<1>6. ASSUME NEW i \in 1..(Len(pieces) + 1)
      PROVE  longer[i] = <<((i - 1) \div Pieces) + 1, ((i - 1) % Pieces) + 1>>
  <2>1. CASE i \in 1..Len(pieces)
    BY <1>4, <2>1 DEF InFrames
  <2>2. CASE i = Len(pieces) + 1
    <3>1. i - 1 = (f - 1) * Pieces + w
      BY <1>4, <2>2
    <3>2. (i - 1) \div Pieces = f - 1 /\ (i - 1) % Pieces = w
      BY <1>5, <3>1
    <3> QED
      BY <1>1, <1>4, <2>2, <3>2
  <2> QED
    BY <1>4, <2>1, <2>2
<1> QED
  BY <1>4, <1>6 DEF InFrames, longer

\* Steps that queue no frame, bring none to a new place and write no piece.
LEMMA LastFrameKept ==
  ASSUME LastFrameOnly, UNCHANGED <<wire, written, queued, paced>>,
         socket' = "open" => socket = "open",
         \A f \in Frame : (InQueue(f) \/ IsHeld(f) \/ f \in writes)' =>
                            InQueue(f) \/ IsHeld(f) \/ f \in writes
  PROVE  LastFrameOnly'
BY DEF LastFrameOnly, InQueue, IsHeld

\* A frame that is queued when nothing else is under way comes after frames
\* that are all on the wire, unless the socket is closed.
LEMMA LastFrameSendBytes ==
  ASSUME PlaceInv, FailedOnlyWhenClosed, LastFrameOnly,
         NEW s \in Threads, SendBytes(s)
  PROVE  LastFrameOnly'
<1> SUFFICES ASSUME paced, Quiet PROVE LastFrameOnly'
  BY DEF SendBytes, LastFrameOnly
<1>1. /\ queued + 1 \in Frame /\ queued \in 0..MaxFrames /\ MaxFrames \in Nat
      /\ Pieces \in Nat \ {0}
      /\ written \in [Frame -> 0..Pieces]
  BY BoundsAssumption DEF SendBytes, PlaceInv, TypeOK, Frame
<1>2. /\ UNCHANGED <<socket, held, writes, written, wire, failed>>
      /\ queued' = queued + 1
      /\ outgoing_bytes_' = Append(outgoing_bytes_, queued + 1)
  BY DEF SendBytes
<1>3. Range(outgoing_bytes_') = {queued + 1}
  <2>1. outgoing_bytes_ \in Seq(Frame) /\ Range(outgoing_bytes_) = {}
    BY EmptyQueue DEF PlaceInv, TypeOK, Quiet
  <2> QED
    BY <1>1, <1>2, <2>1, RangeOfAppend
<1>4. \A f \in Frame : ~ IsHeld(f) /\ f \notin writes /\ ~ InQueue(f)
  BY EmptyQueue DEF Quiet, IsHeld, InQueue, Frame, NoFrame
<1>5. \A f \in Frame : (InQueue(f) \/ IsHeld(f) \/ f \in writes)' => f = queued + 1
  BY <1>2, <1>3, <1>4 DEF InQueue, IsHeld
<1>6. ASSUME socket = "open"
      PROVE  Len(wire) = queued * Pieces
  <2>1. CASE queued = 0
    BY <1>1, <1>6, <2>1 DEF LastFrameOnly
  <2>2. CASE queued # 0
    <3>1. queued \in Frame
      BY <1>1, <2>2 DEF Frame
    <3>2. failed = {}
      BY <1>6 DEF FailedOnlyWhenClosed
    <3>3. queued \notin Unwritten
      BY <1>4, <3>1 DEF PlaceInv, OnePlace
    <3>4. written[queued] = Pieces
      BY <1>1, <3>1, <3>2, <3>3 DEF Unwritten
    <3>5. Len(wire) = (queued - 1) * Pieces + Pieces
      BY <1>6, <2>2, <3>4 DEF LastFrameOnly
    <3> QED
      BY <1>1, <3>5
  <2> QED
    BY <2>1, <2>2
<1>7. written[queued + 1] = 0
  BY <1>1 DEF PlaceInv, OnlyQueuedFrames
<1>8. socket' = "open" =>
        /\ queued' # 0
        /\ Len(wire') = (queued' - 1) * Pieces + written'[queued']
  <2>1. (queued + 1) - 1 = queued /\ queued + 1 # 0
    BY <1>1
  <2>2. queued * Pieces + 0 = queued * Pieces
    BY <1>1
  <2> QED
    BY <1>2, <1>6, <1>7, <2>1, <2>2
<1>9. InFrames(wire)
  BY DEF LastFrameOnly
<1> QED
  BY <1>2, <1>5, <1>8, <1>9 DEF LastFrameOnly, InFrames, InQueue, IsHeld

\* A piece that goes out is the next of the last frame.
LEMMA LastFrameWritePiece ==
  ASSUME PlaceInv, LastFrameOnly, NEW f \in Frame, WritePiece(f)
  PROVE  LastFrameOnly'
<1> SUFFICES ASSUME paced PROVE LastFrameOnly'
  BY DEF WritePiece, LastFrameOnly, history
<1>1. /\ f \in writes
      /\ socket = "open"
      /\ written[f] < Pieces
      /\ written' = [written EXCEPT ![f] = @ + 1]
      /\ wire' = Append(wire, <<f, written[f] + 1>>)
      /\ UNCHANGED <<socket, outgoing_bytes_, held, writes, queued, paced>>
  BY DEF WritePiece, history
<1>2. /\ written \in [Frame -> 0..Pieces]
      /\ wire \in Seq(Frame \X (1..Pieces))
      /\ Pieces \in Nat \ {0}
  BY BoundsAssumption DEF PlaceInv, TypeOK
<1>3. f = queued /\ f # 0 /\ f \in Nat
  BY <1>1 DEF LastFrameOnly, Frame
<1>4. Len(wire) = (f - 1) * Pieces + written[f]
  BY <1>1, <1>3 DEF LastFrameOnly
<1>5. written[f] \in 0..(Pieces - 1) /\ written[f] + 1 \in 1..Pieces
  BY <1>1, <1>2
<1>6. InFrames(wire')
  BY <1>1, <1>2, <1>4, <1>5, InFramesAppend DEF LastFrameOnly
<1>7. Len(wire') = Len(wire) + 1
  <2>1. <<f, written[f] + 1>> \in Frame \X (1..Pieces)
    BY <1>5
  <2> QED
    BY <1>1, <1>2, <2>1, AppendProperties
<1>8. Len(wire') = (queued' - 1) * Pieces + written'[queued']
  <2>1. written'[f] = written[f] + 1
    BY <1>1, <1>2
  <2>2. (f - 1) * Pieces \in Int
    BY <1>2, <1>3
  <2> QED
    BY <1>1, <1>3, <1>4, <1>5, <1>7, <2>1, <2>2
<1>9. \A g \in Frame : (InQueue(g) \/ IsHeld(g) \/ g \in writes)' => g = queued'
  BY <1>1 DEF LastFrameOnly, InQueue, IsHeld
<1>10. queued' # 0
  BY <1>1, <1>3
<1> QED
  BY <1>6, <1>8, <1>9, <1>10 DEF LastFrameOnly, InQueue, IsHeld

LEMMA LastFrameStep ==
  PlaceInv /\ FailedOnlyWhenClosed /\ LastFrameOnly /\ [Next]_vars => LastFrameOnly'
<1> SUFFICES ASSUME PlaceInv, FailedOnlyWhenClosed, LastFrameOnly, [Next]_vars
             PROVE  LastFrameOnly'
  OBVIOUS
<1>0. io \in Threads /\ Senders \subseteq Threads
  BY DEF Threads
<1>1. ASSUME UNCHANGED <<outgoing_bytes_, held, writes, wire, written, queued, paced>>,
             socket' = "open" => socket = "open"
      PROVE  LastFrameOnly'
  BY <1>1, LastFrameKept DEF InQueue, IsHeld
<1>2. ASSUME NEW s \in Senders, FindConnection(s) PROVE LastFrameOnly'
  BY <1>1, <1>2 DEF FindConnection, history
<1>3. ASSUME NEW t \in Threads, PopFrame(t) PROVE LastFrameOnly'
  <2>1. CASE outgoing_bytes_ = <<>>
    BY <1>1, <1>3, <2>1 DEF PopFrame, history
  <2>2. CASE outgoing_bytes_ # <<>>
    <3>1. /\ Head(outgoing_bytes_) \in Frame
          /\ Range(outgoing_bytes_) =
               {Head(outgoing_bytes_)} \cup Range(Tail(outgoing_bytes_))
      BY <2>2, FirstFrame DEF PlaceInv
    <3>2. /\ outgoing_bytes_' = Tail(outgoing_bytes_)
          /\ held' = [held EXCEPT ![t] = Head(outgoing_bytes_)]
          /\ UNCHANGED <<socket, writes, wire, written, queued, paced>>
      BY <1>3, <2>2 DEF PopFrame, history
    <3>3. ASSUME NEW f \in Frame, (InQueue(f) \/ IsHeld(f) \/ f \in writes)'
          PROVE  InQueue(f) \/ IsHeld(f) \/ f \in writes
      BY <3>1, <3>2, <3>3 DEF InQueue, IsHeld, PlaceInv, TypeOK
    <3> QED
      BY <3>2, <3>3, LastFrameKept
  <2> QED
    BY <2>1, <2>2
<1>4. ASSUME NEW t \in Threads, StartWrite(t) PROVE LastFrameOnly'
  <2>1. /\ writes' = writes \cup {held[t]}
        /\ held' = [held EXCEPT ![t] = NoFrame]
        /\ UNCHANGED <<socket, outgoing_bytes_, wire, written, queued, paced>>
    BY <1>4 DEF StartWrite, history
  <2>2. ASSUME NEW f \in Frame, (InQueue(f) \/ IsHeld(f) \/ f \in writes)'
        PROVE  InQueue(f) \/ IsHeld(f) \/ f \in writes
    BY <2>1, <2>2 DEF InQueue, IsHeld, PlaceInv, TypeOK, Frame, NoFrame
  <2> QED
    BY <2>1, <2>2, LastFrameKept
<1>5. ASSUME NEW f \in Frame, FinishWrite(f) \/ FailWrite(f) PROVE LastFrameOnly'
  <2>1. /\ writes' = writes \ {f}
        /\ UNCHANGED <<socket, outgoing_bytes_, held, wire, written, queued, paced>>
    BY <1>5 DEF FinishWrite, FailWrite, history
  <2>2. ASSUME NEW g \in Frame, (InQueue(g) \/ IsHeld(g) \/ g \in writes)'
        PROVE  InQueue(g) \/ IsHeld(g) \/ g \in writes
    BY <2>1, <2>2 DEF InQueue, IsHeld
  <2> QED
    BY <2>1, <2>2, LastFrameKept
<1>6. ASSUME NEW length \in Length, PeerSends(length) PROVE LastFrameOnly'
  BY <1>1, <1>6 DEF PeerSends, sending, history
<1>7. CASE Start \/ Close \/ ReadLength \/ ReadPayload \/ FailRead \/ UNCHANGED vars
  BY <1>1, <1>7
     DEF Start, Close, ReadLength, ReadPayload, FailRead, vars, sending, history
<1> QED
  BY <1>0, <1>2, <1>3, <1>4, <1>5, <1>6, <1>7, LastFrameSendBytes, LastFrameWritePiece
     DEF Next, SenderStep, IoStep
-----------------------------------------------------------------------------
(* The theorems. *)

LEMMA InitInv == Init => IInv
<1> SUFFICES ASSUME Init PROVE IInv
  OBVIOUS
<1> USE BoundsAssumption DEF Init
<1>1. Range(outgoing_bytes_) = {} /\ Increasing(outgoing_bytes_)
  BY EmptyQueue
<1>2. TypeOK
  <2>1. /\ outgoing_bytes_ \in Seq(Frame) /\ incoming \in Seq(Length)
        /\ wire \in Seq(Frame \X (1..Pieces))
    BY EmptySeq
  <2>2. at \in [Threads -> {"idle"}] /\ held \in [Threads -> {NoFrame}]
    OBVIOUS
  <2>3. written \in [Frame -> 0..Pieces] /\ queued \in 0..MaxFrames
    OBVIOUS
  <2> QED
    BY <2>1, <2>2, <2>3 DEF TypeOK
<1>3. HeldWhileWriting /\ PayloadIsThere
  BY DEF HeldWhileWriting, PayloadIsThere
<1>4. \A f \in Frame : f \in Nat /\ ~ (f <= 0) /\ f # NoFrame
  BY DEF Frame, NoFrame
<1>5. \A f \in Frame : ~ InQueue(f) /\ ~ IsHeld(f) /\ f \notin writes
  BY <1>1, <1>4 DEF InQueue, IsHeld
<1>6. OnlyQueuedFrames
  BY <1>1, <1>5 DEF OnlyQueuedFrames
<1>7. OnePlace
  BY <1>4, <1>5 DEF OnePlace, Unwritten
<1>8. QueueIsServed /\ FailedOnlyWhenClosed
  BY DEF QueueIsServed, FailedOnlyWhenClosed
<1>9. LastFrameOnly
  <2>1. InFrames(wire) /\ Len(wire) = 0
    BY DEF InFrames
  <2> QED
    BY <1>5, <2>1 DEF LastFrameOnly
<1> QED
  BY <1>2, <1>3, <1>6, <1>7, <1>8, <1>9 DEF IInv, PlaceInv

\* The inductive invariant of the connection.
THEOREM Invariance == Spec => []IInv
<1>1. Init => IInv
  BY InitInv
<1>2. IInv /\ [Next]_vars => IInv'
  BY PlaceStep, ServedStep, FailedStep, LastFrameStep DEF IInv, PlaceInv
<1> QED
  BY <1>1, <1>2, PTL DEF Spec

\* SendBytes and the handlers never leave a queued frame without a write in
\* flight, a thread about to start one, or a write that has failed.
THEOREM QueueIsAlwaysServed == Spec => []QueueIsServed
<1>1. IInv => QueueIsServed
  BY DEF IInv
<1> QED
  BY <1>1, Invariance, PTL

\* The three sets that a frame is counted in: one has one element.
LEMMA OnePlaceIsOne ==
  ASSUME PlaceInv, NEW f \in Unwritten
  PROVE  Cardinality({i \in DOMAIN outgoing_bytes_ : outgoing_bytes_[i] = f})
           + Cardinality({t \in Threads : held[t] = f})
           + Cardinality(writes \cap {f}) = 1
<1> DEFINE Q == {i \in DOMAIN outgoing_bytes_ : outgoing_bytes_[i] = f}
           H == {t \in Threads : held[t] = f}
           W == writes \cap {f}
<1>1. f \in Frame
  BY DEF Unwritten
<1>2. InQueue(f) => Q # {}
  BY DEF InQueue, Range
<1>3. Q # {} => InQueue(f) /\ \E i : Q = {i}
  <2> SUFFICES ASSUME NEW i \in Q PROVE InQueue(f) /\ Q = {i}
    OBVIOUS
  <2>2. InQueue(f)
    BY DEF InQueue, Range
  <2>3. /\ DOMAIN outgoing_bytes_ = 1..Len(outgoing_bytes_)
        /\ Len(outgoing_bytes_) \in Nat
    BY LenProperties DEF PlaceInv, TypeOK
  <2>4. ~ (f < f)
    BY <1>1 DEF Frame
  <2>5. ASSUME NEW j \in Q PROVE j = i
    BY <2>3, <2>4 DEF PlaceInv, OnlyQueuedFrames, Increasing
  <2> QED
    BY <2>2, <2>5
<1>4. IsHeld(f) <=> H # {}
  BY DEF IsHeld
<1>5. H # {} => \E t : H = {t}
  BY <1>1 DEF PlaceInv, OnePlace
<1>6. W = IF f \in writes THEN {f} ELSE {}
  OBVIOUS
<1>7. /\ ~ (InQueue(f) /\ IsHeld(f))
      /\ ~ (InQueue(f) /\ f \in writes)
      /\ ~ (IsHeld(f) /\ f \in writes)
      /\ InQueue(f) \/ IsHeld(f) \/ f \in writes
  BY <1>1 DEF PlaceInv, OnePlace
<1> HIDE DEF Q, H, W
<1>8. Cardinality({}) = 0 /\ \A x : Cardinality({x}) = 1
  BY FS_EmptySet, FS_Singleton
<1>9. CASE InQueue(f)
  <2>1. H = {} /\ W = {} /\ \E i : Q = {i}
    BY <1>2, <1>3, <1>4, <1>6, <1>7, <1>9
  <2>2. Cardinality(Q) = 1 /\ Cardinality(H) = 0 /\ Cardinality(W) = 0
    BY <1>8, <2>1
  <2> QED
    BY <2>2 DEF Q, H, W
<1>10. CASE IsHeld(f)
  <2>1. Q = {} /\ W = {} /\ \E t : H = {t}
    BY <1>3, <1>4, <1>5, <1>6, <1>7, <1>10
  <2>2. Cardinality(Q) = 0 /\ Cardinality(H) = 1 /\ Cardinality(W) = 0
    BY <1>8, <2>1
  <2> QED
    BY <2>2 DEF Q, H, W
<1>11. CASE f \in writes
  <2>1. Q = {} /\ H = {} /\ W = {f}
    BY <1>3, <1>4, <1>6, <1>7, <1>11
  <2>2. Cardinality(Q) = 0 /\ Cardinality(H) = 0 /\ Cardinality(W) = 1
    BY <1>8, <2>1
  <2> QED
    BY <2>2 DEF Q, H, W
<1> QED
  BY <1>7, <1>9, <1>10, <1>11

\* The mutex in SendBytes and SendNext hands each frame on: until it is on the
\* wire or its write has failed, it is queued once, popped by one thread, or
\* being written, and never two of these.
THEOREM NoFrameIsLostOrDoubled == Spec => []EachFrameInOnePlace
<1>1. IInv => EachFrameInOnePlace
  BY OnePlaceIsOne DEF IInv, EachFrameInOnePlace
<1> QED
  BY <1>1, Invariance, PTL

\* As long as each frame is sent when the one before it is on the wire, the
\* peer finds whole frames in the order in which they were sent.
THEOREM PacedFramesAreIntact == Spec => []PacedFramesIntact
<1>1. IInv => PacedFramesIntact
  BY DEF IInv, LastFrameOnly, PacedFramesIntact
<1> QED
  BY <1>1, Invariance, PTL
=============================================================================
