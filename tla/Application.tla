---------------------------- MODULE Application ----------------------------
(***************************************************************************)
(* The life of an application (core/src/application.cpp): PrepareContext   *)
(* registers systems, the system context (core/src/system_context.cpp)     *)
(* initializes them in the order of registration, the application waits    *)
(* for Quit, blocking or updating a simulation pipeline, and the context   *)
(* deinitializes them in reverse.                                          *)
(*                                                                         *)
(* One system is the PersistenceSystem (persistence_system.hpp), with its  *)
(* store and its adapters; of the others only what they require is known.  *)
(* All of this is the main thread's; Quit may come from any other.         *)
(***************************************************************************)
EXTENDS Integers, Sequences, SequencesExt

CONSTANTS
  Systems,
  Requires,          \* the systems that each system's constructor requires
  persistence,       \* the persistence system
  Adapters,
  Phases,            \* the number of phases of the simulation pipeline
  MaxRegistrations   \* bound: the calls of SystemContext::Register

ASSUME SystemsAssumption ==
  persistence \in Systems /\ Requires \in [Systems -> SUBSET Systems]
ASSUME BoundsAssumption == Phases \in Nat \ {0} /\ MaxRegistrations \in Nat

VARIABLES
  blocking,          \* RunBlocking, or else RunSimulation
  main,              \* where the main thread is in it
  running_,
  systems_,          \* the keys of systems_
  ordered_systems_,
  index,             \* the progress of the loop that the main thread is in
  up,                \* the systems initialized and not deinitialized
  store,             \* how often the store was initialized, less deinitialized
  inside,            \* the persistence system is between its store and its end
  unvisited,         \* the adapters that its loop has not come to yet
  adapters_,         \* the adapters registered
  ready,             \* how often each was initialized, less deinitialized
  missed,            \* history: the store's initializations before each was registered
  quitHeard          \* history: Quit has been called since running_ was set

context  == <<systems_, ordered_systems_>>
progress == <<store, inside, unvisited, ready>>
adapting == <<progress, adapters_, missed>>
vars == <<blocking, main, running_, context, index, up, adapting, quitHeard>>

Init ==
  /\ blocking \in BOOLEAN
  /\ main = "new"
  /\ running_ = FALSE
  /\ systems_ = {} /\ ordered_systems_ = <<>>
  /\ index = 0
  /\ up = {}
  /\ store = 0 /\ inside = FALSE /\ unvisited = {}
  /\ adapters_ = {}
  /\ ready = [a \in Adapters |-> 0] /\ missed = [a \in Adapters |-> 0]
  /\ quitHeard = FALSE
-----------------------------------------------------------------------------
\* The main thread is in one of the application's own functions.
Hooks == {"PrepareContext", "OnContextInitialized", "OnContextDeinitialized"}

GoOn(from, to) == main = from /\ main' = to /\ index' = 0

\* Another thread, or a hook.  Before running_ is set it has no lasting effect.
Quit ==
  /\ main # "done"
  /\ running_' = FALSE
  /\ quitHeard' = (main # "new")
  /\ UNCHANGED <<blocking, main, context, index, up, adapting>>

Run ==
  /\ GoOn("new", "PrepareContext")
  /\ running_' = TRUE
  /\ UNCHANGED <<blocking, context, up, adapting, quitHeard>>

\* A system that is registered again stays the one it was, and is entered once
\* more.  One that requires what is not registered aborts the process.
Register(s) ==
  /\ main = "PrepareContext"
  /\ Len(ordered_systems_) < MaxRegistrations
  /\ IF Requires[s] \subseteq systems_
       THEN /\ systems_' = systems_ \cup {s}
            /\ ordered_systems_' = Append(ordered_systems_, s)
            /\ UNCHANGED main
       ELSE main' = "aborted" /\ UNCHANGED context
  /\ UNCHANGED <<blocking, running_, index, up, adapting, quitHeard>>

\* PersistenceSystem::Register, in a hook or in the Initialize of another
\* system: an adapter that is registered keeps its place.
RegisterAdapter(a) ==
  /\ \/ main \in Hooks
     \/ /\ main = "Initialize" /\ index < Len(ordered_systems_)
        /\ ordered_systems_[index + 1] # persistence
  /\ persistence \in systems_
  /\ adapters_' = adapters_ \cup {a}
  /\ missed' = IF a \in adapters_ THEN missed ELSE [missed EXCEPT ![a] = store]
  /\ UNCHANGED <<blocking, main, running_, context, index, up, progress, quitHeard>>

\* It is the turn of s in the initialization, or the deinitialization.
Turn(from, order, s) ==
  main = from /\ index < Len(ordered_systems_) /\ order[index + 1] = s

\* PersistenceSystem::Initialize: the store, ...
OpenStore ==
  /\ Turn("Initialize", ordered_systems_, persistence) /\ ~inside
  /\ store' = store + 1
  /\ inside' = TRUE /\ unvisited' = adapters_
  /\ UNCHANGED <<blocking, main, running_, context, index, up, adapters_, ready, missed, quitHeard>>

\* ... then each adapter, in the order of an unordered map.
InitializeAdapter(a) ==
  /\ main = "Initialize" /\ a \in unvisited
  /\ ready' = [ready EXCEPT ![a] = @ + 1]
  /\ unvisited' = unvisited \ {a}
  /\ UNCHANGED <<blocking, main, running_, context, index, up,
                 store, inside, adapters_, missed, quitHeard>>

\* SystemContext::Initialize has initialized a system, and goes on to the next.
InitializeSystem(s) ==
  /\ Turn("Initialize", ordered_systems_, s)
  /\ s = persistence => inside /\ unvisited = {}
  /\ index' = index + 1
  /\ up' = up \cup {s}
  /\ inside' = FALSE
  /\ UNCHANGED <<blocking, main, running_, context, store, unvisited, ready,
                 adapters_, missed, quitHeard>>

\* A system, a store or an adapter throws: the process is taken past all that
\* follows and, if nobody catches the exception, by way of Terminate.
Throw ==
  /\ main \in {"Initialize", "Deinitialize"} /\ index < Len(ordered_systems_)
  /\ main' \in {"terminate", "aborted"}
  /\ UNCHANGED <<blocking, running_, context, index, up, adapting, quitHeard>>

\* HandleTerminate has returned.
Terminate ==
  /\ GoOn("terminate", "aborted")
  /\ UNCHANGED <<blocking, running_, context, up, adapting, quitHeard>>

BeginInitialize ==
  /\ GoOn("PrepareContext", "Initialize")
  /\ UNCHANGED <<blocking, running_, context, up, adapting, quitHeard>>

\* Variant: running_ is set once all systems are initialized.
EndInitializeRunning ==
  /\ index = Len(ordered_systems_)
  /\ GoOn("Initialize", "OnContextInitialized")
  /\ running_' = TRUE
  /\ UNCHANGED <<blocking, context, up, adapting, quitHeard>>

EndInitialize ==
  /\ index = Len(ordered_systems_)
  /\ GoOn("Initialize", "OnContextInitialized")
  /\ UNCHANGED <<blocking, running_, context, up, adapting, quitHeard>>

BeginWait ==
  /\ GoOn("OnContextInitialized", "wait")
  /\ UNCHANGED <<blocking, running_, context, up, adapting, quitHeard>>

\* SimulationPipeline::Update runs every phase; running_ is looked at between
\* two updates.
UpdatePhase ==
  /\ main = "wait" /\ ~blocking
  /\ index > 0 \/ running_
  /\ index' = (index + 1) % Phases
  /\ UNCHANGED <<blocking, main, running_, context, up, adapting, quitHeard>>

\* running_.wait returns, or the loop ends.
EndWait ==
  /\ ~running_ /\ index = 0
  /\ GoOn("wait", "OnContextDeinitialized")
  /\ UNCHANGED <<blocking, running_, context, up, adapting, quitHeard>>

BeginDeinitialize ==
  /\ GoOn("OnContextDeinitialized", "Deinitialize")
  /\ UNCHANGED <<blocking, running_, context, up, adapting, quitHeard>>

\* Variant: in the order of registration.
ForwardOrder == ordered_systems_

\* SystemContext::Deinitialize: the systems in reverse.
DeinitializeOrder == Reverse(ordered_systems_)

\* Variant: the store is closed, and the adapters left as they are.
CloseStoreOnly ==
  /\ Turn("Deinitialize", DeinitializeOrder, persistence) /\ ~inside
  /\ store' = store - 1
  /\ inside' = TRUE
  /\ UNCHANGED <<blocking, main, running_, context, index, up, unvisited,
                 adapters_, ready, missed, quitHeard>>

\* PersistenceSystem::Deinitialize: the store first here too, ...
CloseStore ==
  /\ Turn("Deinitialize", DeinitializeOrder, persistence) /\ ~inside
  /\ store' = store - 1
  /\ inside' = TRUE /\ unvisited' = adapters_
  /\ UNCHANGED <<blocking, main, running_, context, index, up, adapters_, ready, missed, quitHeard>>

\* ... then each adapter, whether or not it was initialized.
DeinitializeAdapter(a) ==
  /\ main = "Deinitialize" /\ a \in unvisited
  /\ ready' = [ready EXCEPT ![a] = @ - 1]
  /\ unvisited' = unvisited \ {a}
  /\ UNCHANGED <<blocking, main, running_, context, index, up,
                 store, inside, adapters_, missed, quitHeard>>

DeinitializeSystem(s) ==
  /\ Turn("Deinitialize", DeinitializeOrder, s)
  /\ s = persistence => inside /\ unvisited = {}
  /\ index' = index + 1
  /\ up' = up \ {s}
  /\ inside' = FALSE
  /\ UNCHANGED <<blocking, main, running_, context, store, unvisited, ready,
                 adapters_, missed, quitHeard>>

EndDeinitialize ==
  /\ index = Len(ordered_systems_)
  /\ GoOn("Deinitialize", "done")
  /\ UNCHANGED <<blocking, running_, context, up, adapting, quitHeard>>
=============================================================================
