------------------------------ MODULE Process ------------------------------
(***************************************************************************)
(* A process: an application, whose main thread logs, and sets and shuts   *)
(* down the global logger, in the functions that an application defines    *)
(* for itself, and other threads that log and quit.  What the functions of *)
(* applications do is not in the repository: here they may do all that it  *)
(* offers them.                                                            *)
(***************************************************************************)
EXTENDS Application, FiniteSets

CONSTANTS
  mainThread,
  Others,      \* the other threads
  Loggers,
  NullLogger,
  MaxMade      \* bound: the systems registered and the loggers made, together

ASSUME NullLoggerAssumption == NullLogger \notin Loggers

VARIABLES GlobalLogger, at, made, pool, poolOf, closed, overtaken, last, lost

logging ==
  <<GlobalLogger, at, made, pool, poolOf, closed, overtaken, last, lost>>
allVars == <<vars, logging>>

Logging == INSTANCE Log WITH Threads <- Others \cup {mainThread}

ProcessInit == Init /\ Logging!Init
-----------------------------------------------------------------------------
\* What the functions of the application, and of its systems, may do: they end.
Hook ==
  \/ \E s \in Systems : Register(s)
  \/ \E a \in Adapters : RegisterAdapter(a)

\* What an application's HandleTerminate may do, before the process ends: print
\* the exception and where it came from.
PrintExceptionStacktrace ==
  /\ main = "terminate"
  /\ Logging!GetLogger(mainThread, "use")
  /\ UNCHANGED vars

MainStep ==
  \/ Run \/ BeginInitialize \/ OpenStore \/ EndInitialize
  \/ CloseStore
  \/ \E a \in Adapters : InitializeAdapter(a) \/ DeinitializeAdapter(a)
  \/ \E s \in Systems : InitializeSystem(s) \/ DeinitializeSystem(s)
  \/ BeginWait \/ UpdatePhase \/ EndWait
  \/ BeginDeinitialize \/ EndDeinitialize
  \/ Throw \/ Terminate

\* The main thread is in one thing at a time; it logs in the hooks.
MainThread ==
  \/ /\ at[mainThread] = Logging!Idle
     /\ Hook \/ MainStep
     /\ UNCHANGED logging
  \/ /\ Logging!Return(mainThread)
     /\ UNCHANGED vars

MainCallsLog ==
  /\ main \in Hooks
  /\ Logging!Call(mainThread)
  /\ UNCHANGED vars

OtherThread(t) ==
  /\ Logging!Call(t) \/ Logging!Return(t)
  /\ UNCHANGED vars

SomeoneQuits == Quit /\ UNCHANGED logging

WithinBounds == Len(ordered_systems_') + Cardinality(made') <= MaxMade

ProcessNext ==
  /\ \/ MainThread \/ MainCallsLog \/ PrintExceptionStacktrace
     \/ SomeoneQuits
     \/ \E t \in Others : OtherThread(t)
  /\ WithinBounds

Spec == ProcessInit /\ [][ProcessNext]_allVars

\* The main thread goes on; what it does in a hook, logging included, ends.
Fairness ==
  /\ SF_allVars(at[mainThread] = Logging!Idle /\ MainStep /\ UNCHANGED logging)
  /\ WF_allVars(Logging!Return(mainThread) /\ UNCHANGED vars)

FairSpec == Spec /\ Fairness
-----------------------------------------------------------------------------
(* Properties. *)

IsUnique(seq) == \A i, j \in DOMAIN seq : seq[i] = seq[j] => i = j

\* While a system is up, all that it requires is up: through initialization,
\* deinitialization and failure, if each system is registered once.
DependenciesUp ==
  IsUnique(ordered_systems_) => \A s \in up : Requires[s] \subseteq up

\* How often the persistence system is initialized, if none throws.
Registrations == Cardinality({i \in DOMAIN ordered_systems_ : ordered_systems_[i] = persistence})

\* However often the persistence system is registered: an adapter is in use with
\* the store closed, or more often than it, only while Deinitialize, which closes
\* the store first, has yet to come to that adapter, or for good if it threw
\* before; while the application runs, an adapter is in use as often as the
\* system was initialized since it was registered; and in the end what was
\* initialized is deinitialized, and a late adapter once too often.
AdaptersFollowStore ==
  /\ \A a \in Adapters :
       ready[a] > store => main # "Initialize" /\ inside /\ a \in unvisited
  /\ main = "wait" =>
       /\ store = Registrations
       /\ \A a \in adapters_ : ready[a] = store - missed[a]
  /\ main = "done" =>
       up = {} /\ store = 0 /\ \A a \in adapters_ : ready[a] = - missed[a]

\* A Quit that comes once Run has begun is not lost, even if it comes before
\* the systems are up: the application ends, with its systems down.
QuitEnds == quitHeard ~> main \in {"done", "aborted"}

\* Log::Shutdown drops no logger that is in use but one set meanwhile.
DroppedOnlyInOverlap == Logging!DroppedOnlyInOverlap

\* A logger that was shut down does not stay global.
ClosedIsOnItsWayOut == Logging!ClosedIsOnItsWayOut

\* The logger made last prints, until another is made or one is shut down.
QuietLoggerPrints == Logging!QuietLoggerPrints
=============================================================================
