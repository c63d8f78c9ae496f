------------------------------- MODULE Signal -------------------------------
(***************************************************************************)
(* Signals and their subscriptions (utility/signal.hpp,                    *)
(* utility/src/signal_subscription.cpp), with the ObservableMessageHandler *)
(* (network-modules/message_handler/observable_message_handler.hpp), that  *)
(* keeps one signal for each type of message.                              *)
(*                                                                         *)
(* One thread uses them: nothing in the code protects slots_ from others.  *)
(* A slot may do all that its thread may: subscribe, unsubscribe itself or *)
(* another, move a handle, emit again.  Signals here have one signature,   *)
(* and so share id_counter_.  A handle is a SignalSubscription variable of *)
(* the program: none is more than an id and a weak pointer to a signal.    *)
(***************************************************************************)
EXTENDS Naturals, Sequences, FiniteSets

CONSTANTS
  Signals,
  Handles,
  MaxSubscriptions,  \* bound: the subscriptions ever made
  MaxDepth,          \* bound: the emissions within one another
  MaxEmissions       \* bound: the emissions ever begun

ASSUME BoundsAssumption ==
  MaxSubscriptions \in Nat /\ MaxDepth \in Nat /\ MaxEmissions \in Nat

Id == 0..(MaxSubscriptions - 1)

VARIABLES
  alive,        \* the signals that are not destroyed
  slots_,       \* the ids in slots_ of each signal
  id_counter_,
  handle,       \* what each subscription handle refers to
  stack,        \* the emissions under way, the innermost last
  emissions     \* history: how many were begun

vars == <<alive, slots_, id_counter_, handle, stack, emissions>>

\* A default-constructed handle, or one moved from or unsubscribed.
Empty == [id |-> MaxSubscriptions]
None == MaxSubscriptions

Init ==
  /\ alive = Signals
  /\ slots_ = [s \in Signals |-> {}]
  /\ id_counter_ = 0
  /\ handle = [h \in Handles |-> Empty]
  /\ stack = <<>>
  /\ emissions = 0
-----------------------------------------------------------------------------
Top == stack[Len(stack)]
Pop == SubSeq(stack, 1, Len(stack) - 1)

\* The loop of the innermost Emit runs, or else the program does: a slot, or
\* the code outside of all signals.
Emitting == stack # <<>> /\ Top.running = None
Running == ~Emitting

\* The slots after handle h has unsubscribed; of a signal that is gone, the
\* weak pointer has expired.
Without(h, slots) ==
  IF handle[h] = Empty \/ handle[h].signal \notin alive THEN slots
  ELSE [slots EXCEPT ![handle[h].signal] = @ \ {handle[h].id}]

\* History: an emission forgets, of those it began with, who unsubscribes.
Forget(s, ids) ==
  [i \in DOMAIN stack |->
     IF stack[i].signal = s THEN [stack[i] EXCEPT !.stayed = @ \ ids] ELSE stack[i]]

Leave(h) ==
  stack' = IF handle[h] = Empty THEN stack ELSE Forget(handle[h].signal, {handle[h].id})

\* Variant: a new slot takes the first id that is free.
SubscribeReusingId(h, s) ==
  /\ Running /\ s \in alive
  /\ \E id \in Id :
       /\ \A g \in Handles : handle[g].id # id
       /\ \A lower \in 0..(id - 1) : \E g \in Handles : handle[g].id = lower
       /\ slots_' = Without(h, [slots_ EXCEPT ![s] = @ \cup {id}])
       /\ handle' = [handle EXCEPT ![h] = [id |-> id, signal |-> s]]
  /\ Leave(h)
  /\ UNCHANGED <<alive, emissions, id_counter_>>

\* handle h = signal.Subscribe(slot): the new slot is in before the assignment
\* unsubscribes what h had.
Subscribe(h, s) ==
  /\ Running /\ s \in alive /\ id_counter_ \in Id
  /\ id_counter_' = id_counter_ + 1
  /\ slots_' = Without(h, [slots_ EXCEPT ![s] = @ \cup {id_counter_}])
  /\ handle' = [handle EXCEPT ![h] = [id |-> id_counter_, signal |-> s]]
  /\ Leave(h)
  /\ UNCHANGED <<alive, emissions>>

\* SignalSubscription::Unsubscribe, or the end of the handle.
Unsubscribe(h) ==
  /\ Running /\ handle[h] # Empty
  /\ slots_' = Without(h, slots_)
  /\ handle' = [handle EXCEPT ![h] = Empty]
  /\ Leave(h)
  /\ UNCHANGED <<alive, id_counter_, emissions>>

\* Variant: the assignment forgets what h had.
MoveOver(h, g) ==
  /\ Running /\ h # g
  /\ handle' = [handle EXCEPT ![h] = handle[g], ![g] = Empty]
  /\ Leave(h)
  /\ UNCHANGED <<alive, id_counter_, emissions, slots_>>

\* handle h = std::move(g), or h is constructed from g.
Move(h, g) ==
  /\ Running /\ h # g
  /\ slots_' = Without(h, slots_)
  /\ handle' = [handle EXCEPT ![h] = handle[g], ![g] = Empty]
  /\ Leave(h)
  /\ UNCHANGED <<alive, id_counter_, emissions>>

\* The signal is destroyed, with its slots, while it does not emit.
Destroy(s) ==
  /\ Running /\ s \in alive
  /\ \A i \in DOMAIN stack : stack[i].signal # s
  /\ alive' = alive \ {s}
  /\ slots_' = [slots_ EXCEPT ![s] = {}]
  /\ UNCHANGED <<id_counter_, handle, stack, emissions>>
-----------------------------------------------------------------------------
\* Emit copies the ids; it goes through the copy in the order of the map.
Emit(s) ==
  /\ Running /\ s \in alive
  /\ Len(stack) < MaxDepth /\ emissions < MaxEmissions
  /\ emissions' = emissions + 1
  /\ stack' = Append(stack, [signal |-> s, buffer |-> slots_[s], running |-> None,
                             stayed |-> slots_[s], called |-> {}])
  /\ UNCHANGED <<alive, slots_, id_counter_, handle>>

\* A message of a type is handled: the signal of its type emits it.
HandleMessage(type) == Emit(type)

\* Variant: a slot that is gone ends the loop.
CallSlotOrBreak ==
  /\ Emitting
  /\ \E id \in Top.buffer :
       LET rest == [Top EXCEPT !.buffer = @ \ {id}]
       IN  stack' = Append(Pop, IF id \in slots_[Top.signal]
                                  THEN [rest EXCEPT !.running = id, !.called = @ \cup {id}]
                                  ELSE [rest EXCEPT !.buffer = {}])
  /\ UNCHANGED <<alive, slots_, id_counter_, handle, emissions>>

\* The next id: its slot runs if it is still there.
CallSlot ==
  /\ Emitting
  /\ \E id \in Top.buffer :
       LET rest == [Top EXCEPT !.buffer = @ \ {id}]
       IN  stack' = Append(Pop, IF id \in slots_[Top.signal]
                                  THEN [rest EXCEPT !.running = id, !.called = @ \cup {id}]
                                  ELSE rest)
  /\ UNCHANGED <<alive, slots_, id_counter_, handle, emissions>>

Return ==
  /\ stack # <<>> /\ Top.running # None
  /\ stack' = Append(Pop, [Top EXCEPT !.running = None])
  /\ UNCHANGED <<alive, slots_, id_counter_, handle, emissions>>

EndEmit ==
  /\ Emitting /\ Top.buffer = {}
  /\ stack' = Pop
  /\ UNCHANGED <<alive, slots_, id_counter_, handle, emissions>>

Next ==
  \/ \E h \in Handles :
       \/ \E s \in Signals : Subscribe(h, s)
       \/ Unsubscribe(h)
       \/ \E g \in Handles : Move(h, g)
  \/ \E s \in Signals : HandleMessage(s) \/ Destroy(s)
  \/ CallSlot \/ Return \/ EndEmit

Spec == Init /\ [][Next]_vars
-----------------------------------------------------------------------------
(* Properties. *)

\* A slot is in a signal exactly as long as one handle refers to it: moving a
\* handle neither loses a subscription, nor leaves its slot behind, nor gives
\* it a second owner that would remove it too early.
EachSlotHasOneOwner ==
  LET Owners(id, s) == {h \in Handles : handle[h] = [id |-> id, signal |-> s]}
  IN  \A s \in alive : \A id \in Id :
        Cardinality(Owners(id, s)) = IF id \in slots_[s] THEN 1 ELSE 0

\* An emission reaches every slot that was subscribed when it began and still
\* is, whatever slots do to one another and in whatever order they are called:
\* one that is not to be called any more has been.
EmissionReachesWhoStayed ==
  \A i \in DOMAIN stack : stack[i].stayed \subseteq stack[i].called \cup stack[i].buffer

\* A slot is called only by an emission that began after it subscribed, and
\* never once it has unsubscribed, even if a new slot came in its place.
OnlyWhoStayedIsCalled ==
  [][CallSlot /\ stack'[Len(stack)].running # None =>
       stack'[Len(stack)].running \in Top.stayed]_vars
=============================================================================
