-------------------------------- MODULE Log --------------------------------
(***************************************************************************)
(* The global logger (logging/src/log.cpp) and the log streams that print  *)
(* on it.  A call takes a reference to the logger under the mutex and uses *)
(* it after the mutex is released, so the logger may be replaced, or shut  *)
(* down, in between; a stream keeps its reference until it is destroyed.   *)
(* Verbose, Debug, ..., Critical are Print at a fixed level.               *)
(*                                                                         *)
(* The loggers are SpdlogLoggers (logging-modules/src/spdlog).  Their      *)
(* constructor and their Shutdown go to spdlog's registry, and so to all   *)
(* of them: there is one thread pool, a logger prints by way of the pool   *)
(* that it found when it was made, and prints nothing once it is gone.     *)
(***************************************************************************)
CONSTANTS
  Threads,
  Loggers,     \* the loggers of the program
  NullLogger   \* prints nothing: what is there at first and after Shutdown

VARIABLES
  GlobalLogger,
  at,         \* what each thread is about to do, and with which logger
  made,       \* the loggers whose constructor has begun
  pool,       \* the logger that started spdlog's pool; NullLogger if it is gone
  poolOf,     \* the pool that each logger has
  closed,     \* history: the loggers shut down and not set since
  overtaken,  \* history: the threads in Shutdown since whose reading a logger was set
  last,       \* history: the logger made last; NullLogger once one was shut down
  lost        \* history: the loggers that lost a message

spdlog  == <<pool, poolOf>>
history == <<closed, overtaken, last, lost>>
vars == <<GlobalLogger, at, made, spdlog, history>>

Idle == [does |-> "nothing", logger |-> NullLogger]

Init ==
  /\ GlobalLogger = NullLogger
  /\ at = [t \in Threads |-> Idle]
  /\ made = {}
  /\ pool = NullLogger
  /\ poolOf = [l \in Loggers |-> NullLogger]
  /\ closed = {} /\ overtaken = {} /\ last = NullLogger /\ lost = {}
-----------------------------------------------------------------------------
BeingMade == {at[t].logger : t \in {u \in Threads : at[u].does = "make"}}
ShuttingDown == {t \in Threads : at[t].does \in {"shutDown", "replace"}}

\* Variant: only the first logger starts a pool.
MakeLoggerOnFirstPool(t, logger) ==
  /\ at[t] = Idle
  /\ logger \notin made
  /\ made' = made \cup {logger}
  /\ pool' = IF made = {} THEN logger ELSE pool
  /\ last' = logger
  /\ at' = [at EXCEPT ![t] = [does |-> "make", logger |-> logger]]
  /\ UNCHANGED <<GlobalLogger, poolOf, closed, overtaken, lost>>

\* The constructor of a SpdlogLogger starts a pool, which ends the one that was
\* there, ...
MakeLogger(t, logger) ==
  /\ at[t] = Idle
  /\ logger \notin made
  /\ made' = made \cup {logger}
  /\ pool' = logger
  /\ last' = logger
  /\ at' = [at EXCEPT ![t] = [does |-> "make", logger |-> logger]]
  /\ UNCHANGED <<GlobalLogger, poolOf, closed, overtaken, lost>>

\* ... and takes the pool that there is by now.
TakePool(t) ==
  /\ at[t].does = "make"
  /\ at' = [at EXCEPT ![t] = Idle]
  /\ poolOf' = [poolOf EXCEPT ![at[t].logger] = pool]
  /\ UNCHANGED <<GlobalLogger, made, pool, history>>

\* Any logger that there is may be set: by the thread that made it or another,
\* once, again, or after it was shut down.
SetLogger(t, logger) ==
  /\ at[t] = Idle
  /\ logger \in made \ BeingMade
  /\ GlobalLogger' = logger
  /\ closed' = closed \ {logger}
  /\ overtaken' = ShuttingDown
  /\ UNCHANGED <<at, made, spdlog, last, lost>>

\* SetLogger with no logger.
SetNoLogger(t) ==
  /\ at[t] = Idle
  /\ GlobalLogger' = NullLogger
  /\ UNCHANGED <<at, made, spdlog, history>>

\* Under the mutex: Print and SetLogLevel, which will use the logger at once,
\* Print of a LogStream, which will when it is destroyed, and Shutdown.
GetLogger(t, does) ==
  /\ at[t] = Idle
  /\ at' = [at EXCEPT ![t] = [does |-> does, logger |-> GlobalLogger]]
  /\ UNCHANGED <<GlobalLogger, made, spdlog, history>>

Works(logger) == poolOf[logger] = pool /\ pool # NullLogger

\* The logger takes its level, or prints: a message for which there is no pool
\* is lost.  A stream that is empty prints nothing.
UseLogger(t) ==
  /\ at[t].does = "use"
  /\ at' = [at EXCEPT ![t] = Idle]
  /\ \/ UNCHANGED lost
     \/ at[t].logger # NullLogger /\ ~Works(at[t].logger) /\ lost' = lost \cup {at[t].logger}
  /\ UNCHANGED <<GlobalLogger, made, spdlog, closed, overtaken, last>>

\* Variant: the logger is replaced without being shut down.
ForgetLogger(t) ==
  /\ at[t].does = "shutDown"
  /\ at' = [at EXCEPT ![t].does = "replace"]
  /\ UNCHANGED <<GlobalLogger, made, spdlog, history>>

\* The Shutdown of a SpdlogLogger is that of all spdlog.
ShutDownLogger(t) ==
  /\ at[t].does = "shutDown"
  /\ at' = [at EXCEPT ![t].does = "replace"]
  /\ IF at[t].logger = NullLogger
       THEN UNCHANGED <<closed, pool, last>>
       ELSE closed' = closed \cup {at[t].logger} /\ pool' = NullLogger /\ last' = NullLogger
  /\ UNCHANGED <<GlobalLogger, made, poolOf, overtaken, lost>>

\* Variant: the logger that was shut down is left in place.
LeaveLogger(t) ==
  /\ at[t].does = "replace"
  /\ at' = [at EXCEPT ![t] = Idle]
  /\ overtaken' = overtaken \ {t}
  /\ UNCHANGED <<GlobalLogger, made, spdlog, closed, last, lost>>

\* SetLogger<NullLogger>, whatever the logger is by now.
ReplaceLogger(t) ==
  /\ at[t].does = "replace"
  /\ GlobalLogger' = NullLogger
  /\ at' = [at EXCEPT ![t] = Idle]
  /\ overtaken' = overtaken \ {t}
  /\ UNCHANGED <<made, spdlog, closed, last, lost>>

Call(t) ==
  \/ \E logger \in Loggers : MakeLogger(t, logger) \/ SetLogger(t, logger)
  \/ SetNoLogger(t)
  \/ \E does \in {"use", "shutDown"} : GetLogger(t, does)

Return(t) == TakePool(t) \/ UseLogger(t) \/ ShutDownLogger(t) \/ ReplaceLogger(t)
-----------------------------------------------------------------------------
(* Properties. *)

\* Log::Shutdown does not drop a logger that is in use: what it is about to
\* replace is a logger that it, or another Log::Shutdown, has shut down, unless
\* one was set since it read the logger.  (SetLogger itself shuts none down.)
DroppedOnlyInOverlap ==
  \A t \in Threads \ overtaken :
    at[t].does = "replace" => GlobalLogger \in closed \cup {NullLogger}

\* A logger that was shut down, and not set again since, is global only while
\* a Log::Shutdown is about to replace it: calls that begin once those that are
\* under way have returned do not get it, whatever threads set meanwhile.
ClosedIsOnItsWayOut ==
  GlobalLogger \in closed => \E t \in Threads : at[t].does = "replace"

\* Though loggers end one another's pool, the one that was made last loses no
\* message, until another is made or one is shut down: however constructors
\* overlap, and whoever sets which logger.
QuietLoggerPrints ==
  last \in made \ BeingMade => Works(last) /\ last \notin lost
=============================================================================
