---------------------------- MODULE Signal_proofs ----------------------------
(***************************************************************************)
(* Proofs of the properties of Signal, for any signals and handles, any    *)
(* number of subscriptions, and emissions within one another to any depth. *)
(***************************************************************************)
EXTENDS Signal, SequenceLemmas, FiniteSetTheorems

(* The inductive invariant. *)

Subscription == [id : Id, signal : Signals]

Emission == [signal : Signals, buffer : SUBSET Id, running : Id \cup {None},
             stayed : SUBSET Id, called : SUBSET Id]

TypeOK ==
  /\ alive \subseteq Signals
  /\ slots_ \in [Signals -> SUBSET Id]
  /\ id_counter_ \in Id \cup {MaxSubscriptions}
  /\ handle \in [Handles -> Subscription \cup {Empty}]
  /\ stack \in Seq(Emission)
  /\ emissions \in Nat

\* A handle with an id that was given out keeps it to itself, even when its
\* signal is gone.
IdsAreUnique ==
  \A h \in Handles : handle[h] # Empty =>
    /\ handle[h].id < id_counter_
    /\ \A g \in Handles : handle[g] # Empty /\ handle[g].id = handle[h].id => g = h

\* What handles refer to and what is in the slots of the signals agree.
SlotsMatchHandles ==
  /\ \A h \in Handles :
       handle[h] # Empty /\ handle[h].signal \in alive =>
         handle[h].id \in slots_[handle[h].signal]
  /\ \A s \in Signals : \A id \in slots_[s] :
       s \in alive /\ \E h \in Handles : handle[h] = [id |-> id, signal |-> s]

\* What an emission knows of its signal: who stayed is still subscribed, who
\* is to be called and still subscribed has stayed, no id still to come is in
\* its copy, and who stayed has been called or is going to be.
Sound(e) ==
  /\ e.signal \in alive
  /\ e.stayed \subseteq slots_[e.signal]
  /\ e.buffer \cap slots_[e.signal] \subseteq e.stayed
  /\ \A id \in e.buffer : id < id_counter_
  /\ e.stayed \subseteq e.called \cup e.buffer

EmissionsAreSound == \A i \in DOMAIN stack : Sound(stack[i])

IInv ==
  /\ TypeOK
  /\ IdsAreUnique
  /\ SlotsMatchHandles
  /\ EmissionsAreSound
-----------------------------------------------------------------------------
(* Leaving: what Without, Forget and Leave do. *)

\* Handle h refers to this slot of signal s.
Refers(h, s, id) == handle[h] # Empty /\ handle[h].signal = s /\ handle[h].id = id

LEMMA Ids ==
  /\ MaxSubscriptions \in Nat /\ MaxSubscriptions \notin Id /\ Id \subseteq Nat
  /\ Empty.id = MaxSubscriptions
  /\ \A c \in Subscription : c # Empty /\ c.id \in Id /\ c.signal \in Signals
  /\ \A id \in Id : \A s \in Signals :
       /\ [id |-> id, signal |-> s] \in Subscription
       /\ [id |-> id, signal |-> s].id = id
       /\ [id |-> id, signal |-> s].signal = s
<1>1. MaxSubscriptions \in Nat /\ MaxSubscriptions \notin Id /\ Id \subseteq Nat
  BY BoundsAssumption DEF Id
<1>2. Empty.id = MaxSubscriptions
  BY DEF Empty
<1>3. \A c \in Subscription : c.id \in Id /\ c.signal \in Signals
  BY DEF Subscription
<1>4. \A c \in Subscription : c # Empty
  BY <1>1, <1>2, <1>3
<1>5. \A id \in Id : \A s \in Signals :
        /\ [id |-> id, signal |-> s] \in Subscription
        /\ [id |-> id, signal |-> s].id = id
        /\ [id |-> id, signal |-> s].signal = s
  BY DEF Subscription
<1> QED
  BY <1>1, <1>2, <1>3, <1>4, <1>5

\* To unsubscribe removes the one slot that the handle refers to.
LEMMA WithoutSlots ==
  ASSUME TypeOK, NEW h \in Handles, NEW slots \in [Signals -> SUBSET Id]
  PROVE  /\ Without(h, slots) \in [Signals -> SUBSET Id]
         /\ \A s \in Signals : \A id \in Id :
              id \in Without(h, slots)[s] <=>
                id \in slots[s] /\ ~ (s \in alive /\ Refers(h, s, id))
<1>1. handle[h] = Empty \/ handle[h] \in Subscription
  BY DEF TypeOK
<1>2. CASE handle[h] = Empty \/ handle[h].signal \notin alive
  BY <1>2 DEF Without, Refers
<1>3. CASE ~ (handle[h] = Empty \/ handle[h].signal \notin alive)
  <2>1. handle[h].signal \in Signals
    BY <1>1, <1>3, Ids
  <2>2. Without(h, slots) = [slots EXCEPT ![handle[h].signal] = @ \ {handle[h].id}]
    BY <1>3 DEF Without
  <2> QED
    BY <1>3, <2>1, <2>2 DEF Refers
<1> QED
  BY <1>2, <1>3

\* The emissions of its signal forget it; they change in nothing else.
LEMMA LeaveStack ==
  ASSUME TypeOK, NEW h \in Handles, Leave(h)
  PROVE  /\ stack' \in Seq(Emission)
         /\ DOMAIN stack' = DOMAIN stack
         /\ \A i \in DOMAIN stack :
              /\ stack'[i].signal = stack[i].signal
              /\ stack'[i].buffer = stack[i].buffer
              /\ stack'[i].called = stack[i].called
              /\ \A id : id \in stack'[i].stayed <=>
                   id \in stack[i].stayed /\ ~ Refers(h, stack[i].signal, id)
<1>1. stack \in Seq(Emission)
  BY DEF TypeOK
<1>2. CASE handle[h] = Empty
  BY <1>1, <1>2 DEF Leave, Refers
<1>3. CASE handle[h] # Empty
  <2> DEFINE s == handle[h].signal
             gone == {handle[h].id}
  <2>1. PICK t : t = Forget(s, gone) /\ stack' = t
    BY <1>3 DEF Leave
  <2>2. \A i \in DOMAIN stack :
          t[i] = IF stack[i].signal = s THEN [stack[i] EXCEPT !.stayed = @ \ gone]
                 ELSE stack[i]
    BY <2>1 DEF Forget
  <2>3. t = [i \in DOMAIN stack |-> t[i]]
    BY <2>1 DEF Forget
  <2>4. \A i \in DOMAIN stack : stack[i] \in Emission
    BY <1>1, LenProperties, ElementOfSeq
  <2>5. ASSUME NEW i \in DOMAIN stack
        PROVE  /\ t[i] \in Emission
               /\ t[i].signal = stack[i].signal
               /\ t[i].buffer = stack[i].buffer
               /\ t[i].called = stack[i].called
               /\ t[i].stayed = IF stack[i].signal = s THEN stack[i].stayed \ gone
                                ELSE stack[i].stayed
    <3>1. CASE stack[i].signal = s
      <4>1. t[i] = [stack[i] EXCEPT !.stayed = @ \ gone]
        BY <2>2, <3>1
      <4> HIDE DEF gone, s
      <4> QED
        BY <2>4, <3>1, <4>1 DEF Emission
    <3>2. CASE stack[i].signal # s
      BY <2>2, <2>4, <3>2
    <3> QED
      BY <3>1, <3>2
  <2>6. t \in Seq(Emission) /\ DOMAIN t = DOMAIN stack
    <3> HIDE DEF s, gone
    <3> QED
      BY <1>1, <2>3, <2>5, Elementwise
  <2>7. \A i \in DOMAIN stack : \A id :
          id \in t[i].stayed <=>
            id \in stack[i].stayed /\ ~ Refers(h, stack[i].signal, id)
    BY <1>3, <2>5 DEF Refers
  <2> HIDE DEF s, gone
  <2> QED
    BY <2>1, <2>5, <2>6, <2>7
<1> QED
  BY <1>2, <1>3

\* Emissions stay sound when one handle leaves and at most one slot comes in,
\* with a new id.
LEMMA LeaveKeepsSound ==
  ASSUME TypeOK, EmissionsAreSound, NEW h \in Handles, Leave(h),
         alive' = alive, id_counter_ \in Nat,
         id_counter_' \in {id_counter_, id_counter_ + 1},
         \A s \in alive : \A id \in Id :
           /\ id \in slots_[s] /\ ~ Refers(h, s, id) => id \in slots_'[s]
           /\ id \in slots_'[s] =>
                id = id_counter_ \/ (id \in slots_[s] /\ ~ Refers(h, s, id))
  PROVE  EmissionsAreSound'
<1> SUFFICES ASSUME NEW i \in DOMAIN stack PROVE Sound(stack[i])'
  BY LeaveStack DEF EmissionsAreSound
<1>1. Sound(stack[i])
  BY DEF EmissionsAreSound
<1>2. PICK e \in Emission : e = stack[i]
  BY LenProperties, ElementOfSeq DEF TypeOK
<1>3. PICK d : d = stack'[i]
  OBVIOUS
<1>4. /\ e.stayed \subseteq Id /\ e.buffer \subseteq Id
      /\ \A id \in e.buffer : id \in Nat
  BY <1>2, Ids DEF Emission
<1>5. /\ d.signal = e.signal /\ d.buffer = e.buffer /\ d.called = e.called
      /\ \A id : id \in d.stayed <=> id \in e.stayed /\ ~ Refers(h, e.signal, id)
  BY <1>2, <1>3, LeaveStack
<1>6. /\ e.signal \in alive
      /\ e.stayed \subseteq slots_[e.signal]
      /\ e.buffer \cap slots_[e.signal] \subseteq e.stayed
      /\ \A id \in e.buffer : id < id_counter_
      /\ e.stayed \subseteq e.called \cup e.buffer
  BY <1>1, <1>2 DEF Sound
<1>7. d.stayed \subseteq slots_'[d.signal]
  BY <1>4, <1>5, <1>6
<1>8. d.buffer \cap slots_'[d.signal] \subseteq d.stayed
  <2> SUFFICES ASSUME NEW id \in e.buffer, id \in slots_'[e.signal]
               PROVE  id \in d.stayed
    BY <1>5
  <2>1. id # id_counter_
    BY <1>4, <1>6
  <2> QED
    BY <1>4, <1>5, <1>6, <2>1
<1>9. \A id \in d.buffer : id < id_counter_'
  BY <1>4, <1>5, <1>6
<1>10. d.stayed \subseteq d.called \cup d.buffer
  BY <1>5, <1>6
<1> QED
  BY <1>3, <1>5, <1>6, <1>7, <1>8, <1>9, <1>10 DEF Sound
-----------------------------------------------------------------------------
(* The program's steps. *)

\* The new slot has an id that no other handle has, and that no emission has in
\* its copy.
LEMMA SubscribeStep ==
  ASSUME IInv, NEW h \in Handles, NEW s \in Signals, Subscribe(h, s)
  PROVE  IInv'
<1> DEFINE old == handle[h]
           new == [id |-> id_counter_, signal |-> s]
           more == [slots_ EXCEPT ![s] = @ \cup {id_counter_}]
<1>0. TypeOK
  BY DEF IInv
<1>1. /\ s \in alive /\ id_counter_ \in Id /\ id_counter_ \in Nat
      /\ id_counter_' = id_counter_ + 1
      /\ slots_' = Without(h, more)
      /\ handle' = [handle EXCEPT ![h] = new]
      /\ Leave(h)
      /\ alive' = alive /\ emissions' = emissions
  BY Ids DEF Subscribe
<1>2. /\ new \in Subscription /\ new # Empty /\ new.id = id_counter_ /\ new.signal = s
  BY <1>1, Ids
<1>3. /\ more \in [Signals -> SUBSET Id]
      /\ \A t \in Signals : \A id :
           id \in more[t] <=> id \in slots_[t] \/ (t = s /\ id = id_counter_)
  BY <1>0, <1>1 DEF TypeOK
<1>4. /\ handle \in [Handles -> Subscription \cup {Empty}]
      /\ handle' \in [Handles -> Subscription \cup {Empty}]
      /\ handle'[h] = new
      /\ \A g \in Handles : g # h => handle'[g] = handle[g]
  BY <1>0, <1>1, <1>2 DEF TypeOK
<1> HIDE DEF old, new, more
<1>5. /\ slots_' \in [Signals -> SUBSET Id]
      /\ \A t \in Signals : \A id \in Id :
           id \in slots_'[t] <=>
             /\ id \in slots_[t] \/ (t = s /\ id = id_counter_)
             /\ ~ (t \in alive /\ Refers(h, t, id))
  BY <1>0, <1>1, <1>3, WithoutSlots
<1>6. /\ \A g \in Handles : handle[g] # Empty => handle[g].id < id_counter_
      /\ \A g, f \in Handles :
           handle[g] # Empty /\ handle[f] # Empty /\ handle[f].id = handle[g].id => f = g
  BY DEF IInv, IdsAreUnique
<1>7. \A g \in Handles : handle[g] # Empty =>
        handle[g].id \in Id /\ handle[g].id \in Nat /\ handle[g].signal \in Signals
  BY <1>4, Ids
<1>8. \A t \in Signals : ~ Refers(h, t, id_counter_)
  BY <1>1, <1>6, <1>7 DEF Refers
<1>9. TypeOK'
  <2>1. stack' \in Seq(Emission)
    BY <1>0, <1>1, LeaveStack
  <2>2. id_counter_' \in Id \cup {MaxSubscriptions}
    BY <1>1, BoundsAssumption DEF Id
  <2> QED
    BY <1>0, <1>1, <1>4, <1>5, <2>1, <2>2 DEF TypeOK
<1>10. IdsAreUnique'
  <2>1. ASSUME NEW g \in Handles, handle'[g] # Empty
        PROVE  handle'[g].id < id_counter_'
    BY <1>1, <1>2, <1>4, <1>6, <1>7, <2>1
  <2>2. ASSUME NEW g \in Handles, NEW f \in Handles, handle'[g] # Empty,
               handle'[f] # Empty, handle'[f].id = handle'[g].id
        PROVE  f = g
    <3>1. \A k \in Handles : handle[k] # Empty => handle[k].id # id_counter_
      BY <1>1, <1>6, <1>7
    <3> QED
      BY <1>2, <1>4, <1>6, <2>2, <3>1
  <2> QED
    BY <2>1, <2>2 DEF IdsAreUnique
<1>11. SlotsMatchHandles'
  <2>1. ASSUME NEW g \in Handles, handle'[g] # Empty, handle'[g].signal \in alive
        PROVE  handle'[g].id \in slots_'[handle'[g].signal]
    <3>1. CASE g = h
      BY <1>1, <1>2, <1>4, <1>5, <1>8, <3>1
    <3>2. CASE g # h
      <4>1. handle'[g] = handle[g] /\ handle[g] # Empty
        BY <1>4, <2>1, <3>2
      <4>2. handle[g].id \in slots_[handle[g].signal]
        BY <2>1, <4>1 DEF IInv, SlotsMatchHandles
      <4>3. ~ Refers(h, handle[g].signal, handle[g].id)
        BY <1>6, <3>2, <4>1 DEF Refers
      <4> QED
        BY <1>5, <1>7, <4>1, <4>2, <4>3
    <3> QED
      BY <3>1, <3>2
  <2>2. ASSUME NEW t \in Signals, NEW id \in slots_'[t]
        PROVE  t \in alive /\ \E g \in Handles : handle'[g] = [id |-> id, signal |-> t]
    <3>1. id \in Id
      BY <1>5
    <3>2. CASE t = s /\ id = id_counter_
      BY <1>1, <1>4, <3>2 DEF new
    <3>3. CASE ~ (t = s /\ id = id_counter_)
      <4>1. id \in slots_[t] /\ ~ (t \in alive /\ Refers(h, t, id))
        BY <1>5, <3>1, <3>3
      <4>2. t \in alive /\ \E g \in Handles : handle[g] = [id |-> id, signal |-> t]
        BY <4>1 DEF IInv, SlotsMatchHandles
      <4>3. PICK g \in Handles : handle[g] = [id |-> id, signal |-> t]
        BY <4>2
      <4>4. handle[g] # Empty /\ handle[g].signal = t /\ handle[g].id = id
        BY <3>1, <4>3, Ids
      <4>5. g # h
        BY <4>1, <4>2, <4>4 DEF Refers
      <4> QED
        BY <1>4, <4>2, <4>3, <4>5
    <3> QED
      BY <3>2, <3>3
  <2> QED
    BY <1>1, <2>1, <2>2 DEF SlotsMatchHandles
<1>12. EmissionsAreSound'
  <2>1. \A t \in alive : t \in Signals
    BY <1>0 DEF TypeOK
  <2>2. ASSUME NEW t \in alive, NEW id \in Id
        PROVE  /\ id \in slots_[t] /\ ~ Refers(h, t, id) => id \in slots_'[t]
               /\ id \in slots_'[t] =>
                    id = id_counter_ \/ (id \in slots_[t] /\ ~ Refers(h, t, id))
    BY <1>5, <2>1, <2>2
  <2> QED
    BY <1>0, <1>1, <2>2, LeaveKeepsSound DEF IInv
<1> QED
  BY <1>9, <1>10, <1>11, <1>12 DEF IInv

\* Unsubscribe and Move: handle h leaves, and what g refers to, if it is not h
\* itself, goes from g to h.
LEMMA LeaveStep ==
  ASSUME IInv, NEW h \in Handles, NEW g \in Handles,
         Leave(h), slots_' = Without(h, slots_),
         handle' \in [Handles -> Subscription \cup {Empty}],
         g # h => handle'[h] = handle[g],
         handle'[g] = Empty,
         \A f \in Handles \ {h, g} : handle'[f] = handle[f],
         UNCHANGED <<alive, id_counter_, emissions>>
  PROVE  IInv'
<1>0. TypeOK
  BY DEF IInv
<1>1. /\ slots_ \in [Signals -> SUBSET Id]
      /\ handle \in [Handles -> Subscription \cup {Empty}]
      /\ id_counter_ \in Nat
  BY <1>0, Ids DEF TypeOK
<1>2. /\ slots_' \in [Signals -> SUBSET Id]
      /\ \A t \in Signals : \A id \in Id :
           id \in slots_'[t] <=>
             id \in slots_[t] /\ ~ (t \in alive /\ Refers(h, t, id))
  BY <1>0, <1>1, WithoutSlots
\* From which handle, before the step, each handle has what it refers to.
<1> DEFINE From(f) == IF f = h THEN g ELSE f
<1>3. ASSUME NEW f \in Handles, handle'[f] # Empty
      PROVE  /\ From(f) \in Handles /\ From(f) # h
             /\ handle'[f] = handle[From(f)]
  BY <1>3
<1>4. \A f, k \in Handles :
        handle'[f] # Empty /\ handle'[k] # Empty /\ From(f) = From(k) => f = k
  BY <1>3
<1>5. \A f \in Handles : f # h => \E k \in Handles : handle'[k] = handle[f]
  OBVIOUS
<1> HIDE DEF From
<1>6. \A f, k \in Handles :
        handle[f] # Empty /\ handle[k] # Empty /\ handle[f].id = handle[k].id => f = k
  BY DEF IInv, IdsAreUnique
<1>7. TypeOK'
  <2>1. stack' \in Seq(Emission)
    BY <1>0, LeaveStack
  <2> QED
    BY <1>0, <1>2, <2>1 DEF TypeOK
<1>8. IdsAreUnique'
  BY <1>3, <1>4, <1>6 DEF IInv, IdsAreUnique
<1>9. SlotsMatchHandles'
  <2>1. ASSUME NEW f \in Handles, handle'[f] # Empty, handle'[f].signal \in alive
        PROVE  handle'[f].id \in slots_'[handle'[f].signal]
    <3>1. PICK k \in Handles : k # h /\ handle'[f] = handle[k] /\ handle[k] # Empty
      BY <1>3, <2>1
    <3>2. handle[k].id \in slots_[handle[k].signal]
      BY <2>1, <3>1 DEF IInv, SlotsMatchHandles
    <3>3. ~ Refers(h, handle[k].signal, handle[k].id)
      BY <1>6, <3>1 DEF Refers
    <3>4. handle[k].id \in Id /\ handle[k].signal \in Signals
      BY <1>1, <3>1, Ids
    <3> QED
      BY <1>2, <3>1, <3>2, <3>3, <3>4
  <2>2. ASSUME NEW t \in Signals, NEW id \in slots_'[t]
        PROVE  t \in alive /\ \E f \in Handles : handle'[f] = [id |-> id, signal |-> t]
    <3>1. id \in Id
      BY <1>2
    <3>2. id \in slots_[t] /\ ~ (t \in alive /\ Refers(h, t, id))
      BY <1>2, <3>1
    <3>3. t \in alive /\ \E f \in Handles : handle[f] = [id |-> id, signal |-> t]
      BY <3>2 DEF IInv, SlotsMatchHandles
    <3>4. PICK f \in Handles : handle[f] = [id |-> id, signal |-> t]
      BY <3>3
    <3>5. handle[f] # Empty /\ handle[f].signal = t /\ handle[f].id = id
      BY <3>1, <3>4, Ids
    <3>6. f # h
      BY <3>2, <3>3, <3>5 DEF Refers
    <3> QED
      BY <1>5, <3>3, <3>4, <3>6
  <2> QED
    BY <2>1, <2>2 DEF SlotsMatchHandles
<1>10. EmissionsAreSound'
  <2>1. \A t \in alive : t \in Signals
    BY <1>0 DEF TypeOK
  <2>2. ASSUME NEW t \in alive, NEW id \in Id
        PROVE  /\ id \in slots_[t] /\ ~ Refers(h, t, id) => id \in slots_'[t]
               /\ id \in slots_'[t] =>
                    id = id_counter_ \/ (id \in slots_[t] /\ ~ Refers(h, t, id))
    BY <1>2, <2>1
  <2> QED
    BY <1>0, <1>1, <2>2, LeaveKeepsSound DEF IInv
<1> QED
  BY <1>7, <1>8, <1>9, <1>10 DEF IInv

LEMMA UnsubscribeStep ==
  ASSUME IInv, NEW h \in Handles, Unsubscribe(h)
  PROVE  IInv'
<1>1. handle \in [Handles -> Subscription \cup {Empty}]
  BY DEF IInv, TypeOK
<1>2. /\ handle' \in [Handles -> Subscription \cup {Empty}]
      /\ handle'[h] = Empty
      /\ \A f \in Handles \ {h} : handle'[f] = handle[f]
  BY <1>1 DEF Unsubscribe
<1>3. /\ Leave(h) /\ slots_' = Without(h, slots_)
      /\ UNCHANGED <<alive, id_counter_, emissions>>
  BY DEF Unsubscribe
<1> QED
  BY <1>2, <1>3, LeaveStep

LEMMA MoveStep ==
  ASSUME IInv, NEW h \in Handles, NEW g \in Handles, Move(h, g)
  PROVE  IInv'
<1>1. handle \in [Handles -> Subscription \cup {Empty}]
  BY DEF IInv, TypeOK
<1>2. h # g /\ handle' = [handle EXCEPT ![h] = handle[g], ![g] = Empty]
  BY DEF Move
<1>3. /\ handle' \in [Handles -> Subscription \cup {Empty}]
      /\ handle'[h] = handle[g]
      /\ handle'[g] = Empty
      /\ \A f \in Handles \ {h, g} : handle'[f] = handle[f]
  BY <1>1, <1>2
<1>4. /\ Leave(h) /\ slots_' = Without(h, slots_)
      /\ UNCHANGED <<alive, id_counter_, emissions>>
  BY DEF Move
<1> QED
  BY <1>3, <1>4, LeaveStep

\* A signal that does not emit takes no emission with it.
LEMMA DestroyStep ==
  ASSUME IInv, NEW s \in Signals, Destroy(s)
  PROVE  IInv'
<1>1. /\ alive' = alive \ {s}
      /\ slots_' = [slots_ EXCEPT ![s] = {}]
      /\ \A i \in DOMAIN stack : stack[i].signal # s
      /\ UNCHANGED <<id_counter_, handle, stack, emissions>>
  BY DEF Destroy
<1>2. TypeOK
  BY DEF IInv
<1>3. /\ slots_' \in [Signals -> SUBSET Id] /\ slots_'[s] = {}
      /\ \A t \in Signals : t # s => slots_'[t] = slots_[t]
  BY <1>1, <1>2 DEF TypeOK
<1>4. TypeOK'
  BY <1>1, <1>2, <1>3 DEF TypeOK
<1>5. IdsAreUnique'
  BY <1>1 DEF IInv, IdsAreUnique
<1>6. SlotsMatchHandles'
  <2>1. ASSUME NEW g \in Handles, handle[g] # Empty, handle[g].signal \in alive'
        PROVE  handle[g].id \in slots_'[handle[g].signal]
    <3>1. handle[g].signal \in alive /\ handle[g].signal # s
      BY <1>1, <2>1
    <3>2. handle[g].signal \in Signals
      BY <1>2, <3>1 DEF TypeOK
    <3> QED
      BY <1>3, <2>1, <3>1, <3>2 DEF IInv, SlotsMatchHandles
  <2>2. ASSUME NEW t \in Signals, NEW id \in slots_'[t]
        PROVE  t \in alive' /\ \E g \in Handles : handle[g] = [id |-> id, signal |-> t]
    BY <1>1, <1>3 DEF IInv, SlotsMatchHandles
  <2> QED
    BY <1>1, <2>1, <2>2 DEF SlotsMatchHandles
<1>7. EmissionsAreSound'
  <2> SUFFICES ASSUME NEW i \in DOMAIN stack PROVE Sound(stack[i])'
    BY <1>1 DEF EmissionsAreSound
  <2>1. Sound(stack[i])
    BY DEF IInv, EmissionsAreSound
  <2>2. stack[i].signal \in alive /\ stack[i].signal # s /\ stack[i].signal \in Signals
    BY <1>1, <1>2, <2>1 DEF Sound, TypeOK
  <2>3. slots_'[stack[i].signal] = slots_[stack[i].signal]
    BY <1>3, <2>2
  <2> QED
    BY <1>1, <2>1, <2>2, <2>3 DEF Sound
<1> QED
  BY <1>4, <1>5, <1>6, <1>7 DEF IInv
-----------------------------------------------------------------------------
(* The steps of Emit. *)

\* Steps on the stack alone need only keep the emissions as they should be.
LEMMA StackStep ==
  ASSUME IInv, UNCHANGED <<alive, slots_, id_counter_, handle>>,
         emissions' \in Nat, stack' \in Seq(Emission),
         \A i \in DOMAIN stack' : Sound(stack'[i])
  PROVE  IInv'
<1>1. TypeOK' /\ IdsAreUnique' /\ SlotsMatchHandles'
  BY DEF IInv, TypeOK, IdsAreUnique, SlotsMatchHandles
<1>2. EmissionsAreSound'
  BY DEF EmissionsAreSound, Sound
<1> QED
  BY <1>1, <1>2 DEF IInv

\* The copy that Emit takes is of the slots as they are.
LEMMA EmitStep ==
  ASSUME IInv, NEW s \in Signals, Emit(s)
  PROVE  IInv'
<1>1. TypeOK
  BY DEF IInv
<1>2. slots_[s] \subseteq Id /\ None \in Id \cup {None} /\ s \in alive
  BY <1>1 DEF TypeOK, Emit
<1>3. PICK e \in Emission :
        e = [signal |-> s, buffer |-> slots_[s], running |-> None,
             stayed |-> slots_[s], called |-> {}]
  BY <1>2 DEF Emission
<1>4. /\ stack' = Append(stack, e) /\ emissions' = emissions + 1
      /\ UNCHANGED <<alive, slots_, id_counter_, handle>>
  BY <1>3 DEF Emit
<1>5. ASSUME NEW id \in slots_[s] PROVE id < id_counter_
  <2>1. PICK h \in Handles : handle[h] = [id |-> id, signal |-> s]
    BY DEF IInv, SlotsMatchHandles
  <2>2. handle[h] # Empty /\ handle[h].id = id
    BY <1>2, <2>1, Ids
  <2> QED
    BY <2>2 DEF IInv, IdsAreUnique
<1>6. Sound(e)
  BY <1>2, <1>3, <1>5 DEF Sound
<1>7. stack \in Seq(Emission) /\ emissions' \in Nat
  BY <1>1, <1>4 DEF TypeOK
<1>8. /\ stack' \in Seq(Emission)
      /\ DOMAIN stack = 1..Len(stack) /\ DOMAIN stack' = 1..(Len(stack) + 1)
      /\ Len(stack) \in Nat
      /\ \A i \in 1..Len(stack) : stack'[i] = stack[i]
      /\ stack'[Len(stack) + 1] = e
  BY <1>3, <1>4, <1>7, AppendProperties, LenProperties
<1>9. \A i \in DOMAIN stack' : Sound(stack'[i])
  <2>1. \A i \in 1..(Len(stack) + 1) : i \in 1..Len(stack) \/ i = Len(stack) + 1
    BY <1>8
  <2> QED
    BY <1>6, <1>8, <2>1 DEF IInv, EmissionsAreSound
<1> QED
  BY <1>4, <1>7, <1>8, <1>9, StackStep

\* What the stack is once e is on top of it, in place of what was.
LEMMA NewTop ==
  ASSUME stack \in Seq(Emission), stack # <<>>, NEW e \in Emission,
         stack' = Append(Pop, e)
  PROVE  /\ stack' \in Seq(Emission)
         /\ DOMAIN stack' = DOMAIN stack
         /\ stack'[Len(stack)] = e
         /\ \A i \in DOMAIN stack : i # Len(stack) => stack'[i] = stack[i]
<1>1. /\ WithTop(stack, e) \in Seq(Emission)
      /\ DOMAIN WithTop(stack, e) = DOMAIN stack
      /\ WithTop(stack, e)[Len(stack)] = e
      /\ \A i \in DOMAIN stack : i # Len(stack) => WithTop(stack, e)[i] = stack[i]
  BY ReplaceLast
<1>2. stack' = WithTop(stack, e)
  BY DEF Pop, WithTop
<1> QED
  BY <1>1, <1>2

\* The emission on top goes on as e.
LEMMA TopStep ==
  ASSUME IInv, stack # <<>>, NEW e \in Emission, Sound(e), stack' = Append(Pop, e),
         UNCHANGED <<alive, slots_, id_counter_, handle, emissions>>
  PROVE  IInv'
<1>1. stack \in Seq(Emission) /\ emissions' \in Nat
  BY DEF IInv, TypeOK
<1>2. /\ stack' \in Seq(Emission)
      /\ DOMAIN stack' = DOMAIN stack
      /\ stack'[Len(stack)] = e
      /\ \A i \in DOMAIN stack : i # Len(stack) => stack'[i] = stack[i]
  BY <1>1, NewTop
<1>3. \A i \in DOMAIN stack' : Sound(stack'[i])
  BY <1>2 DEF IInv, EmissionsAreSound
<1> QED
  BY <1>1, <1>2, <1>3, StackStep

LEMMA TopIsSound ==
  ASSUME IInv, stack # <<>>
  PROVE  Top \in Emission /\ Sound(Top)
<1>1. stack \in Seq(Emission)
  BY DEF IInv, TypeOK
<1>2. Top \in Emission /\ Len(stack) \in DOMAIN stack
  BY <1>1, AllButLast, LenProperties DEF Top
<1> QED
  BY <1>2 DEF IInv, EmissionsAreSound, Top

\* The id that is taken from the copy is called, or has not stayed.
LEMMA CallSlotStep ==
  ASSUME IInv, CallSlot
  PROVE  IInv'
<1>1. stack # <<>>
  BY DEF CallSlot, Emitting
<1>2. PICK top \in Emission : top = Top /\ Sound(top)
  BY <1>1, TopIsSound
<1>3. PICK id \in top.buffer :
        stack' = Append(Pop, IF id \in slots_[top.signal]
                               THEN [[top EXCEPT !.buffer = @ \ {id}]
                                       EXCEPT !.running = id, !.called = @ \cup {id}]
                               ELSE [top EXCEPT !.buffer = @ \ {id}])
  BY <1>2 DEF CallSlot
<1>4. UNCHANGED <<alive, slots_, id_counter_, handle, emissions>>
  BY DEF CallSlot
<1>5. id \in Id /\ top.buffer \subseteq Id /\ top.called \subseteq Id
  BY DEF Emission
<1>6. CASE id \in slots_[top.signal]
  <2>1. PICK e : e = [[top EXCEPT !.buffer = @ \ {id}]
                        EXCEPT !.running = id, !.called = @ \cup {id}]
    OBVIOUS
  <2>2. /\ e \in Emission
        /\ e.signal = top.signal /\ e.stayed = top.stayed
        /\ e.buffer = top.buffer \ {id} /\ e.called = top.called \cup {id}
    BY <1>5, <2>1 DEF Emission
  <2>3. Sound(e)
    BY <1>2, <2>2 DEF Sound
  <2> QED
    BY <1>1, <1>3, <1>4, <1>6, <2>1, <2>2, <2>3, TopStep
<1>7. CASE id \notin slots_[top.signal]
  <2>1. PICK e : e = [top EXCEPT !.buffer = @ \ {id}]
    OBVIOUS
  <2>2. /\ e \in Emission
        /\ e.signal = top.signal /\ e.stayed = top.stayed
        /\ e.buffer = top.buffer \ {id} /\ e.called = top.called
    BY <1>5, <2>1 DEF Emission
  <2>3. id \notin top.stayed
    BY <1>2, <1>7 DEF Sound
  <2>4. Sound(e)
    BY <1>2, <2>2, <2>3 DEF Sound
  <2> QED
    BY <1>1, <1>3, <1>4, <1>7, <2>1, <2>2, <2>4, TopStep
<1> QED
  BY <1>6, <1>7

LEMMA ReturnStep ==
  ASSUME IInv, Return
  PROVE  IInv'
<1>1. stack # <<>> /\ UNCHANGED <<alive, slots_, id_counter_, handle, emissions>>
  BY DEF Return
<1>2. PICK top \in Emission : top = Top /\ Sound(top)
  BY <1>1, TopIsSound
<1>3. PICK e : e = [top EXCEPT !.running = None]
  OBVIOUS
<1>4. stack' = Append(Pop, e)
  BY <1>2, <1>3 DEF Return
<1>5. /\ e \in Emission
      /\ e.signal = top.signal /\ e.stayed = top.stayed
      /\ e.buffer = top.buffer /\ e.called = top.called
  BY <1>3 DEF Emission
<1>6. Sound(e)
  BY <1>2, <1>5 DEF Sound
<1> QED
  BY <1>1, <1>4, <1>5, <1>6, TopStep

LEMMA EndEmitStep ==
  ASSUME IInv, EndEmit
  PROVE  IInv'
<1>1. stack # <<>> /\ stack \in Seq(Emission) /\ stack' = Pop
  BY DEF EndEmit, Emitting, IInv, TypeOK
<1>2. UNCHANGED <<alive, slots_, id_counter_, handle>> /\ emissions' \in Nat
  BY DEF EndEmit, IInv, TypeOK
<1>3. /\ stack' \in Seq(Emission) /\ Len(stack') = Len(stack) - 1
      /\ Len(stack) \in Nat \ {0}
      /\ \A i \in 1..(Len(stack) - 1) : stack'[i] = stack[i]
  BY <1>1, AllButLast DEF Pop
<1>4. /\ DOMAIN stack' = 1..(Len(stack) - 1) /\ DOMAIN stack = 1..Len(stack)
      /\ 1..(Len(stack) - 1) \subseteq 1..Len(stack)
  BY <1>1, <1>3, LenProperties
<1>5. \A i \in DOMAIN stack' : Sound(stack'[i])
  BY <1>3, <1>4 DEF IInv, EmissionsAreSound
<1> QED
  BY <1>2, <1>3, <1>5, StackStep
-----------------------------------------------------------------------------
(* The theorems. *)

LEMMA InitInv == Init => IInv
<1> SUFFICES ASSUME Init PROVE IInv
  OBVIOUS
<1>1. TypeOK
  <2>1. stack \in Seq(Emission)
    BY DEF Init
  <2>2. id_counter_ \in Id \cup {MaxSubscriptions}
    BY BoundsAssumption DEF Init, Id
  <2> QED
    BY <2>1, <2>2 DEF Init, TypeOK
<1>2. IdsAreUnique /\ SlotsMatchHandles
  BY DEF Init, IdsAreUnique, SlotsMatchHandles
<1>3. EmissionsAreSound
  <2>1. DOMAIN stack = {}
    BY DEF Init
  <2> QED
    BY <2>1 DEF EmissionsAreSound
<1> QED
  BY <1>1, <1>2, <1>3 DEF IInv

LEMMA InvStep == IInv /\ [Next]_vars => IInv'
<1> SUFFICES ASSUME IInv, [Next]_vars PROVE IInv'
  OBVIOUS
<1>1. CASE UNCHANGED vars
  BY <1>1 DEF vars, IInv, TypeOK, IdsAreUnique, SlotsMatchHandles, EmissionsAreSound, Sound
<1> QED
  BY <1>1, SubscribeStep, UnsubscribeStep, MoveStep, DestroyStep, EmitStep, CallSlotStep,
     ReturnStep, EndEmitStep
     DEF Next, HandleMessage

\* The inductive invariant of signals, handles and emissions.
THEOREM Invariance == Spec => []IInv
BY InitInv, InvStep, PTL DEF Spec

\* Whatever Subscribe, Unsubscribe, the move of a handle and the end of a signal
\* do, a slot of a signal that is alive has one handle that refers to it, and a
\* handle's id that is no slot of its signal has none.
THEOREM SlotsHaveOneOwner == Spec => []EachSlotHasOneOwner
<1>1. ASSUME IInv, NEW s \in alive, NEW id \in Id
      PROVE  Cardinality({h \in Handles : handle[h] = [id |-> id, signal |-> s]}) =
               IF id \in slots_[s] THEN 1 ELSE 0
  <2> DEFINE Owners == {h \in Handles : handle[h] = [id |-> id, signal |-> s]}
  <2>1. s \in Signals
    BY <1>1 DEF IInv, TypeOK
  <2>2. ASSUME NEW h \in Owners
        PROVE  handle[h] # Empty /\ handle[h].id = id /\ handle[h].signal = s
    BY <2>1, Ids
  <2>3. CASE id \in slots_[s]
    <3>1. PICK h \in Handles : h \in Owners
      BY <1>1, <2>1, <2>3 DEF IInv, SlotsMatchHandles
    <3>2. \A g \in Owners : g = h
      BY <1>1, <2>2, <3>1 DEF IInv, IdsAreUnique
    <3>3. Owners = {h}
      BY <3>1, <3>2
    <3>4. Cardinality(Owners) = 1
      BY <3>3, FS_Singleton
    <3> QED
      BY <2>3, <3>4
  <2>4. CASE id \notin slots_[s]
    <3>1. Owners = {}
      BY <1>1, <2>2, <2>4 DEF IInv, SlotsMatchHandles
    <3>2. Cardinality(Owners) = 0
      BY <3>1, FS_EmptySet
    <3> QED
      BY <2>4, <3>2
  <2> QED
    BY <2>3, <2>4
<1>2. IInv => EachSlotHasOneOwner
  BY <1>1 DEF EachSlotHasOneOwner
<1> QED
  BY <1>2, Invariance, PTL

\* Emit calls every slot that was subscribed when it began and still is when its
\* turn has come, whatever the slots called before it have done.
THEOREM EmissionsReachWhoStayed == Spec => []EmissionReachesWhoStayed
<1>1. IInv => EmissionReachesWhoStayed
  BY DEF IInv, EmissionsAreSound, Sound, EmissionReachesWhoStayed
<1> QED
  BY <1>1, Invariance, PTL

\* Emit calls no slot that has unsubscribed or that came in later: its id is in
\* slots_ only if it has stayed since the copy was taken.
THEOREM NoOneElseIsCalled == Spec => OnlyWhoStayedIsCalled
<1>1. ASSUME IInv, CallSlot, stack'[Len(stack)].running # None
      PROVE  stack'[Len(stack)].running \in Top.stayed
  <2>1. stack # <<>> /\ Top.running = None
    BY <1>1 DEF CallSlot, Emitting
  <2>2. PICK top \in Emission : top = Top /\ Sound(top)
    BY <1>1, <2>1, TopIsSound
  <2>3. PICK id \in top.buffer :
          stack' = Append(Pop, IF id \in slots_[top.signal]
                                 THEN [[top EXCEPT !.buffer = @ \ {id}]
                                         EXCEPT !.running = id, !.called = @ \cup {id}]
                                 ELSE [top EXCEPT !.buffer = @ \ {id}])
    BY <1>1, <2>2 DEF CallSlot
  <2> PICK e :
        e = IF id \in slots_[top.signal]
              THEN [[top EXCEPT !.buffer = @ \ {id}]
                      EXCEPT !.running = id, !.called = @ \cup {id}]
              ELSE [top EXCEPT !.buffer = @ \ {id}]
    OBVIOUS
  <2>4. /\ id \in Id
        /\ e \in Emission
        /\ e.running = IF id \in slots_[top.signal] THEN id ELSE top.running
    BY DEF Emission
  <2>5. stack'[Len(stack)] = e
    <3>1. stack \in Seq(Emission) /\ stack # <<>> /\ e \in Emission
      BY <1>1, <2>1, <2>4 DEF IInv, TypeOK
    <3>2. stack' = Append(Pop, e)
      BY <2>3
    <3> QED
      BY <3>1, <3>2, NewTop
  <2>6. id \in slots_[top.signal] /\ e.running = id
    BY <1>1, <2>1, <2>2, <2>4, <2>5
  <2> QED
    BY <2>2, <2>5, <2>6 DEF Sound
<1>2. IInv /\ [Next]_vars =>
        [CallSlot /\ stack'[Len(stack)].running # None =>
           stack'[Len(stack)].running \in Top.stayed]_vars
  BY <1>1
<1> QED
  BY <1>2, Invariance, PTL DEF Spec, OnlyWhoStayedIsCalled
=============================================================================
