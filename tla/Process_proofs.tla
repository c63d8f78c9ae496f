--------------------------- MODULE Process_proofs ---------------------------
(***************************************************************************)
(* Proofs of the safety properties of Process: of the application, for any *)
(* systems, requirements, adapters and phases; and of the global logger,   *)
(* for any threads and loggers.  What the one does the other leaves alone. *)
(***************************************************************************)
EXTENDS Process, SequenceLemmas, FiniteSetTheorems

(* The inductive invariant of the application. *)

FirstOnes(k) == {ordered_systems_[i] : i \in 1..k}
LastOnes(k) ==
  {ordered_systems_[i] : i \in (Len(ordered_systems_) - k + 1)..Len(ordered_systems_)}

AppTypeOK ==
  /\ main \in Hooks \cup {"new", "Initialize", "wait", "Deinitialize", "done", "terminate",
                          "aborted"}
  /\ main \in {"Initialize", "Deinitialize"} => index \in 0..Len(ordered_systems_)
  /\ ordered_systems_ \in Seq(Systems)
  /\ systems_ = Range(ordered_systems_)

\* A system is entered after all that it requires.
RequiredComesFirst ==
  \A i \in DOMAIN ordered_systems_ : \A s \in Requires[ordered_systems_[i]] :
    \E j \in DOMAIN ordered_systems_ : j < i /\ ordered_systems_[j] = s

\* The systems that are up are the first that were entered, as far as the loops
\* of Initialize and Deinitialize have got, or had when something was thrown.
UpFollowsLoops ==
  /\ main \in {"new", "PrepareContext", "done"} => up = {}
  /\ main = "Initialize" => up = FirstOnes(index)
  /\ main \in {"OnContextInitialized", "wait", "OnContextDeinitialized"} =>
       up = FirstOnes(Len(ordered_systems_))
  /\ main = "Deinitialize" => up = FirstOnes(Len(ordered_systems_)) \ LastOnes(index)
  /\ main \in {"terminate", "aborted"} =>
       \E k \in 0..Len(ordered_systems_) :
         up = FirstOnes(k) \/ up = FirstOnes(Len(ordered_systems_)) \ LastOnes(k)

\* How often the persistence system is among the first k that were entered.
Opened(k) == Cardinality({i \in 1..k : ordered_systems_[i] = persistence})

StoreTypeOK ==
  /\ store \in Nat /\ inside \in BOOLEAN
  /\ adapters_ \subseteq Adapters /\ unvisited \subseteq adapters_
  /\ ready \in [Adapters -> Int] /\ missed \in [Adapters -> Nat]

\* The store was opened as often as the loops have come to its system, and once
\* more, or less, if they are inside it.
StoreFollowsLoops ==
  /\ inside => main \notin {"new", "wait", "done"} \cup Hooks
  /\ inside /\ main = "Initialize" =>
       index < Len(ordered_systems_) /\ ordered_systems_[index + 1] = persistence
  /\ inside /\ main = "Deinitialize" =>
       /\ index < Len(ordered_systems_)
       /\ ordered_systems_[Len(ordered_systems_) - index] = persistence
  /\ main \in {"new", "PrepareContext", "done"} => store = 0
  /\ main = "Initialize" => store = Opened(index) + (IF inside THEN 1 ELSE 0)
  /\ main \in {"OnContextInitialized", "wait", "OnContextDeinitialized"} =>
       store = Opened(Len(ordered_systems_))
  /\ main = "Deinitialize" =>
       store = Opened(Len(ordered_systems_) - index) - (IF inside THEN 1 ELSE 0)

\* Each adapter follows the store, less what it missed, once its loop has come to it.
AdaptersFollowLoops ==
  /\ ~inside => unvisited = {}
  /\ \A a \in Adapters \ adapters_ : ready[a] = 0
  /\ main \notin {"Deinitialize", "terminate", "aborted"} =>
       \A a \in adapters_ : ready[a] = store - missed[a] - (IF a \in unvisited THEN 1 ELSE 0)
  /\ main = "Deinitialize" =>
       \A a \in adapters_ : ready[a] = store - missed[a] + (IF a \in unvisited THEN 1 ELSE 0)
  /\ \A a \in Adapters : ready[a] > store => inside /\ a \in unvisited

StoreInv == StoreTypeOK /\ StoreFollowsLoops /\ AdaptersFollowLoops

AppInv == AppTypeOK /\ RequiredComesFirst /\ UpFollowsLoops /\ StoreInv
-----------------------------------------------------------------------------
(* The inductive invariant of the global logger. *)

Threads == Others \cup {mainThread}
AnyLogger == Loggers \cup {NullLogger}

AtState ==
  {Logging!Idle}
    \cup [does : {"make"}, logger : Loggers]
    \cup [does : {"use", "shutDown", "replace"}, logger : AnyLogger]

LogTypeOK ==
  /\ GlobalLogger \in AnyLogger /\ pool \in AnyLogger /\ last \in AnyLogger
  /\ at \in [Threads -> AtState]
  /\ made \subseteq Loggers /\ closed \subseteq Loggers /\ lost \subseteq Loggers
  /\ poolOf \in [Loggers -> AnyLogger]

Makes(t, logger) == at[t].does = "make" /\ at[t].logger = logger
Holds(t, logger) == at[t].does \in {"use", "shutDown", "replace"} /\ at[t].logger = logger

\* A logger is made once, by one thread, before anyone has it.
MadeBeforeUsed ==
  /\ \A logger \in Loggers :
       logger \in {GlobalLogger, last} \cup lost
         \/ (\E t \in Threads : Makes(t, logger) \/ Holds(t, logger)) => logger \in made
  /\ \A t \in Threads : \A logger \in Loggers : Makes(t, logger) =>
       /\ logger # GlobalLogger
       /\ \A u \in Threads : ~ Holds(u, logger)
       /\ \A u \in Threads : Makes(u, logger) => u = t

\* Until a logger is set, a Log::Shutdown finds the one that it has read, or what
\* another Shutdown has made of it.
ShutdownKnowsGlobal ==
  \A t \in Threads \ overtaken :
    at[t].does = "shutDown" => GlobalLogger \in closed \cup {NullLogger, at[t].logger}

\* DroppedOnlyInOverlap and ClosedIsOnItsWayOut, for these threads.
ReplacedIsShutDown ==
  \A t \in Threads \ overtaken :
    at[t].does = "replace" => GlobalLogger \in closed \cup {NullLogger}
ClosedIsReplaced ==
  GlobalLogger \in closed => \E t \in Threads : at[t].does = "replace"

\* The pool is that of the logger that was made last.
LastHasPool ==
  last # NullLogger =>
    /\ pool = last /\ last \notin lost
    /\ (\A t \in Threads : ~ Makes(t, last)) => poolOf[last] = last

LogInv ==
  /\ LogTypeOK /\ MadeBeforeUsed
  /\ ShutdownKnowsGlobal /\ ReplacedIsShutDown /\ ClosedIsReplaced
  /\ LastHasPool

IInv == AppInv /\ LogInv
-----------------------------------------------------------------------------
(* The application. *)

\* A system more is up, or down.
LEMMA LoopSets ==
  ASSUME AppTypeOK
  PROVE  /\ Len(ordered_systems_) \in Nat
         /\ DOMAIN ordered_systems_ = 1..Len(ordered_systems_)
         /\ FirstOnes(0) = {} /\ LastOnes(0) = {}
         /\ FirstOnes(Len(ordered_systems_)) = systems_
         /\ LastOnes(Len(ordered_systems_)) = systems_
         /\ \A k \in Nat : k < Len(ordered_systems_) =>
              /\ k + 1 \in DOMAIN ordered_systems_
              /\ FirstOnes(k + 1) = FirstOnes(k) \cup {ordered_systems_[k + 1]}
              /\ DeinitializeOrder[k + 1] = ordered_systems_[Len(ordered_systems_) - k]
              /\ LastOnes(k + 1) =
                   LastOnes(k) \cup {ordered_systems_[Len(ordered_systems_) - k]}
<1>1. /\ Len(ordered_systems_) \in Nat
      /\ DOMAIN ordered_systems_ = 1..Len(ordered_systems_)
  BY LenProperties DEF AppTypeOK
<1>2. FirstOnes(0) = {} /\ LastOnes(0) = {}
  BY <1>1 DEF FirstOnes, LastOnes
<1>3. FirstOnes(Len(ordered_systems_)) = systems_ /\ LastOnes(Len(ordered_systems_)) = systems_
  <2>1. Len(ordered_systems_) - Len(ordered_systems_) + 1 = 1
    BY <1>1
  <2> QED
    BY <1>1, <2>1 DEF FirstOnes, LastOnes, AppTypeOK, Range
<1>4. ASSUME NEW k \in Nat, k < Len(ordered_systems_)
      PROVE  /\ k + 1 \in DOMAIN ordered_systems_
             /\ FirstOnes(k + 1) = FirstOnes(k) \cup {ordered_systems_[k + 1]}
             /\ DeinitializeOrder[k + 1] = ordered_systems_[Len(ordered_systems_) - k]
             /\ LastOnes(k + 1) = LastOnes(k) \cup {ordered_systems_[Len(ordered_systems_) - k]}
  <2>1. k + 1 \in 1..Len(ordered_systems_)
    BY <1>1, <1>4
  <2>2. \A i : i \in 1..(k + 1) <=> i \in 1..k \/ i = k + 1
    BY <1>4
  <2>3. FirstOnes(k + 1) = FirstOnes(k) \cup {ordered_systems_[k + 1]}
    BY <2>2 DEF FirstOnes
  <2>4. DeinitializeOrder[k + 1] = ordered_systems_[Len(ordered_systems_) - k]
    <3>1. (Len(ordered_systems_) - (k + 1)) + 1 = Len(ordered_systems_) - k
      BY <1>1
    <3> QED
      BY <2>1, <3>1 DEF DeinitializeOrder, Reverse
  <2>5. \A i : i \in (Len(ordered_systems_) - (k + 1) + 1)..Len(ordered_systems_) <=>
               \/ i \in (Len(ordered_systems_) - k + 1)..Len(ordered_systems_)
               \/ i = Len(ordered_systems_) - k
    BY <1>1, <1>4
  <2>6. LastOnes(k + 1) = LastOnes(k) \cup {ordered_systems_[Len(ordered_systems_) - k]}
    BY <2>5 DEF LastOnes
  <2> QED
    BY <1>1, <2>1, <2>3, <2>4, <2>6
<1> QED
  BY <1>1, <1>2, <1>3, <1>4

\* What the main thread and a caller of Quit do, action by action.
LEMMA AppSteps ==
  ASSUME Hook \/ MainStep \/ Quit
  PROVE  \/ \E s \in Systems : Register(s)
         \/ \E a \in Adapters : RegisterAdapter(a)
         \/ OpenStore \/ CloseStore
         \/ \E a \in Adapters : InitializeAdapter(a) \/ DeinitializeAdapter(a)
         \/ \E s \in Systems : InitializeSystem(s) \/ DeinitializeSystem(s)
         \/ Throw
         \/ UpdatePhase \/ Quit
         \/ Run \/ BeginInitialize \/ EndInitialize \/ BeginWait \/ EndWait
         \/ BeginDeinitialize \/ EndDeinitialize \/ Terminate
BY DEF Hook, MainStep

\* A system that is registered again, or for the first time, comes last.
LEMMA Registered ==
  ASSUME AppTypeOK, NEW s \in Systems, ordered_systems_' = Append(ordered_systems_, s)
  PROVE  /\ ordered_systems_' \in Seq(Systems)
         /\ Range(ordered_systems_') = systems_ \cup {s}
         /\ Len(ordered_systems_) \in Nat
         /\ DOMAIN ordered_systems_ = 1..Len(ordered_systems_)
         /\ DOMAIN ordered_systems_' = 1..(Len(ordered_systems_) + 1)
         /\ \A i \in 1..Len(ordered_systems_) : ordered_systems_'[i] = ordered_systems_[i]
         /\ ordered_systems_'[Len(ordered_systems_) + 1] = s
BY AppendProperties, LenProperties, RangeOfAppend DEF AppTypeOK

LEMMA AppTypeStep ==
  AppTypeOK /\ RequiredComesFirst /\ (Hook \/ MainStep \/ Quit)
  => AppTypeOK' /\ RequiredComesFirst'
<1> SUFFICES ASSUME AppTypeOK, RequiredComesFirst, Hook \/ MainStep \/ Quit
             PROVE  AppTypeOK' /\ RequiredComesFirst'
  OBVIOUS
<1> USE DEF context, progress, adapting, Hooks
<1>0. Len(ordered_systems_) \in Nat
  BY LoopSets
<1>1. ASSUME UNCHANGED context,
             main' \in Hooks \cup {"new", "Initialize", "wait", "Deinitialize", "done",
                                   "terminate", "aborted"},
             main' \in {"Initialize", "Deinitialize"} => index' \in 0..Len(ordered_systems_)
      PROVE  AppTypeOK' /\ RequiredComesFirst'
  BY <1>1 DEF AppTypeOK, RequiredComesFirst
<1>2. ASSUME NEW s \in Systems, Register(s)
      PROVE  AppTypeOK' /\ RequiredComesFirst'
  <2>1. CASE Requires[s] \subseteq systems_
    <3>1. /\ main' = "PrepareContext"
          /\ systems_' = systems_ \cup {s} /\ ordered_systems_' = Append(ordered_systems_, s)
      BY <1>2, <2>1 DEF Register
    <3>2. AppTypeOK'
      BY <3>1, Registered DEF AppTypeOK
    <3>3. ASSUME NEW i \in DOMAIN ordered_systems_', NEW r \in Requires[ordered_systems_'[i]]
          PROVE  \E j \in DOMAIN ordered_systems_' : j < i /\ ordered_systems_'[j] = r
      <4>1. \A j \in DOMAIN ordered_systems_ :
              j \in DOMAIN ordered_systems_' /\ ordered_systems_'[j] = ordered_systems_[j]
        BY <1>0, <3>1, Registered
      <4>2. CASE i \in DOMAIN ordered_systems_
        <5>1. \E j \in DOMAIN ordered_systems_ : j < i /\ ordered_systems_[j] = r
          BY <3>3, <4>1, <4>2 DEF RequiredComesFirst
        <5> QED
          BY <4>1, <5>1
      <4>3. CASE i = Len(ordered_systems_) + 1
        <5>1. r \in Range(ordered_systems_)
          BY <2>1, <3>1, <3>3, <4>3, Registered DEF AppTypeOK
        <5>2. PICK j \in DOMAIN ordered_systems_ : ordered_systems_[j] = r
          BY <5>1 DEF Range
        <5>3. j < i
          BY <1>0, <3>1, <4>3, Registered
        <5> QED
          BY <4>1, <5>2, <5>3
      <4>4. i \in DOMAIN ordered_systems_ \/ i = Len(ordered_systems_) + 1
        BY <1>0, <3>1, Registered
      <4> QED
        BY <4>2, <4>3, <4>4
    <3> QED
      BY <3>2, <3>3 DEF RequiredComesFirst
  <2>2. CASE ~ (Requires[s] \subseteq systems_)
    BY <1>1, <1>2, <2>2 DEF Register
  <2> QED
    BY <2>1, <2>2
<1>3. ASSUME NEW a \in Adapters, RegisterAdapter(a)
      PROVE  AppTypeOK' /\ RequiredComesFirst'
  BY <1>1, <1>3 DEF RegisterAdapter, AppTypeOK
<1>4. ASSUME NEW s \in Systems, InitializeSystem(s) \/ DeinitializeSystem(s)
      PROVE  AppTypeOK' /\ RequiredComesFirst'
  BY <1>0, <1>1, <1>4, LoopSets DEF InitializeSystem, DeinitializeSystem, Turn, AppTypeOK
<1>5. ASSUME \/ OpenStore \/ CloseStore
             \/ \E a \in Adapters : InitializeAdapter(a) \/ DeinitializeAdapter(a)
      PROVE  AppTypeOK' /\ RequiredComesFirst'
  BY <1>1, <1>5
     DEF OpenStore, CloseStore, InitializeAdapter, DeinitializeAdapter, AppTypeOK
<1>6. CASE UpdatePhase \/ Quit \/ Throw
  BY <1>1, <1>6 DEF UpdatePhase, Quit, Throw, AppTypeOK
<1>7. CASE Run \/ BeginInitialize \/ EndInitialize \/ BeginWait \/ EndWait
           \/ BeginDeinitialize \/ EndDeinitialize \/ Terminate
  BY <1>0, <1>1, <1>7 DEF Run, BeginInitialize, EndInitialize, BeginWait, EndWait,
                          BeginDeinitialize, EndDeinitialize, Terminate, GoOn
<1> QED
  BY <1>2, <1>3, <1>4, <1>5, <1>6, <1>7, AppSteps

\* The loops put systems up and down one at a time.
LEMMA UpStep ==
  AppTypeOK /\ UpFollowsLoops /\ (Hook \/ MainStep \/ Quit) => UpFollowsLoops'
<1> SUFFICES ASSUME AppTypeOK, UpFollowsLoops, Hook \/ MainStep \/ Quit
             PROVE  UpFollowsLoops'
  OBVIOUS
<1> USE DEF context, progress, adapting, Hooks
<1>0. /\ Len(ordered_systems_) \in Nat
      /\ FirstOnes(0) = {} /\ LastOnes(0) = {}
      /\ FirstOnes(Len(ordered_systems_)) = LastOnes(Len(ordered_systems_))
  BY LoopSets
<1>1. ASSUME UNCHANGED ordered_systems_
      PROVE  \A k : FirstOnes(k)' = FirstOnes(k) /\ LastOnes(k)' = LastOnes(k)
  BY <1>1 DEF FirstOnes, LastOnes
<1>2. ASSUME UNCHANGED <<main, index, up, ordered_systems_>> PROVE UpFollowsLoops'
  BY <1>1, <1>2 DEF UpFollowsLoops
<1>3. ASSUME NEW s \in Systems, Register(s)
      PROVE  UpFollowsLoops'
  <2>1. /\ up' = {} /\ main' \in {"PrepareContext", "aborted"}
        /\ main' = "aborted" => UNCHANGED ordered_systems_
    BY <1>3 DEF Register, UpFollowsLoops
  <2>2. main' = "aborted" => \E k \in 0..Len(ordered_systems_)' : up' = FirstOnes(k)'
    BY <1>0, <1>1, <2>1
  <2> QED
    BY <2>1, <2>2 DEF UpFollowsLoops
<1>4. ASSUME NEW a \in Adapters, RegisterAdapter(a) PROVE UpFollowsLoops'
  BY <1>2, <1>4 DEF RegisterAdapter
<1>5. ASSUME NEW s \in Systems, InitializeSystem(s) PROVE UpFollowsLoops'
  <2>1. /\ main = "Initialize" /\ index \in Nat /\ index < Len(ordered_systems_)
        /\ up = FirstOnes(index) /\ up' = up \cup {ordered_systems_[index + 1]}
        /\ index' = index + 1 /\ UNCHANGED <<main, ordered_systems_>>
    BY <1>0, <1>5 DEF InitializeSystem, Turn, UpFollowsLoops, AppTypeOK
  <2>2. up' = FirstOnes(index + 1)
    BY <2>1, LoopSets
  <2> QED
    BY <1>1, <2>1, <2>2 DEF UpFollowsLoops
<1>6. ASSUME NEW s \in Systems, DeinitializeSystem(s) PROVE UpFollowsLoops'
  <2>1. /\ main = "Deinitialize" /\ UNCHANGED <<main, ordered_systems_>>
        /\ index \in Nat /\ index < Len(ordered_systems_) /\ index' = index + 1
        /\ up' = up \ {DeinitializeOrder[index + 1]}
        /\ up = FirstOnes(Len(ordered_systems_)) \ LastOnes(index)
    BY <1>0, <1>6, LoopSets DEF DeinitializeSystem, Turn, UpFollowsLoops, AppTypeOK
  <2>2. up' = FirstOnes(Len(ordered_systems_)) \ LastOnes(index + 1)
    BY <2>1, LoopSets
  <2> QED
    BY <1>1, <2>1, <2>2 DEF UpFollowsLoops
<1>6a. ASSUME \/ OpenStore \/ CloseStore
              \/ \E a \in Adapters : InitializeAdapter(a) \/ DeinitializeAdapter(a)
       PROVE  UpFollowsLoops'
  BY <1>2, <1>6a DEF OpenStore, CloseStore, InitializeAdapter, DeinitializeAdapter
<1>6b. CASE Throw
  <2>1. /\ main' \in {"terminate", "aborted"} /\ UNCHANGED <<up, ordered_systems_>>
        /\ index \in 0..Len(ordered_systems_)
        /\ up = FirstOnes(index) \/ up = FirstOnes(Len(ordered_systems_)) \ LastOnes(index)
    BY <1>6b DEF Throw, UpFollowsLoops, AppTypeOK
  <2> QED
    BY <1>1, <2>1 DEF UpFollowsLoops
<1>7. CASE UpdatePhase \/ Quit
  BY <1>1, <1>7 DEF UpdatePhase, Quit, UpFollowsLoops
<1>8. CASE Run \/ BeginWait \/ EndWait
  BY <1>1, <1>8 DEF Run, BeginWait, EndWait, GoOn, UpFollowsLoops
<1>9. CASE BeginInitialize \/ EndInitialize
  BY <1>0, <1>1, <1>9 DEF BeginInitialize, EndInitialize, GoOn, UpFollowsLoops
<1>10. CASE BeginDeinitialize \/ EndDeinitialize
  BY <1>0, <1>1, <1>10 DEF BeginDeinitialize, EndDeinitialize, GoOn, UpFollowsLoops
<1>11. CASE Terminate
  BY <1>1, <1>11 DEF Terminate, GoOn, UpFollowsLoops
<1> QED
  BY <1>3, <1>4, <1>5, <1>6, <1>6a, <1>6b, <1>7, <1>8, <1>9, <1>10, <1>11, AppSteps

\* One more system is counted if it is the persistence system.
LEMMA CountOpened ==
  ASSUME AppTypeOK
  PROVE  /\ Opened(0) = 0
         /\ \A k \in Nat : k <= Len(ordered_systems_) => Opened(k) \in Nat
         /\ \A k \in Nat : k < Len(ordered_systems_) =>
              Opened(k + 1) =
                Opened(k) + (IF ordered_systems_[k + 1] = persistence THEN 1 ELSE 0)
<1> DEFINE Places(k) == {i \in 1..k : ordered_systems_[i] = persistence}
<1>1. Opened(0) = 0
  <2>1. Places(0) = {}
    OBVIOUS
  <2> QED
    BY <2>1, FS_EmptySet DEF Opened
<1>2. ASSUME NEW k \in Nat PROVE IsFiniteSet(Places(k)) /\ Cardinality(Places(k)) \in Nat
  <2>1. IsFiniteSet(1..k) /\ Places(k) \subseteq 1..k
    BY FS_Interval
  <2> QED
    BY <2>1, FS_Subset, FS_CardinalityType
<1>3. ASSUME NEW k \in Nat
      PROVE  Opened(k + 1) =
               Opened(k) + (IF ordered_systems_[k + 1] = persistence THEN 1 ELSE 0)
  <2>1. CASE ordered_systems_[k + 1] = persistence
    <3>1. Places(k + 1) = Places(k) \cup {k + 1} /\ k + 1 \notin Places(k)
      BY <2>1
    <3>2. Cardinality(Places(k) \cup {k + 1}) = Cardinality(Places(k)) + 1
      BY <1>2, <3>1, FS_AddElement
    <3> QED
      BY <2>1, <3>1, <3>2 DEF Opened
  <2>2. CASE ordered_systems_[k + 1] # persistence
    <3>1. Places(k + 1) = Places(k)
      BY <2>2
    <3>2. Opened(k) \in Nat
      BY <1>2 DEF Opened
    <3>3. Opened(k + 1) = Opened(k)
      BY <3>1 DEF Opened
    <3> QED
      BY <2>2, <3>2, <3>3
  <2> QED
    BY <2>1, <2>2
<1> QED
  BY <1>1, <1>2, <1>3 DEF Opened

\* A step that neither counts nor registers keeps what is said of the adapters.
LEMMA AdaptersStep ==
  ASSUME StoreInv, StoreTypeOK',
         UNCHANGED <<store, inside, unvisited, ready, adapters_, missed>>,
         \/ main' = main
         \/ main' \in {"terminate", "aborted"}
         \/ ~inside /\ main \notin {"terminate", "aborted"}
  PROVE  AdaptersFollowLoops'
BY DEF StoreInv, StoreTypeOK, AdaptersFollowLoops

\* The store and the adapters follow the loops.
LEMMA StoreStep == AppTypeOK /\ StoreInv /\ (Hook \/ MainStep \/ Quit) => StoreInv'
<1> SUFFICES ASSUME AppTypeOK, StoreInv, Hook \/ MainStep \/ Quit PROVE StoreInv'
  OBVIOUS
<1> DEFINE N == Len(ordered_systems_)
<1>0. N \in Nat /\ Opened(0) = 0 /\ \A k \in Nat : k <= N => Opened(k) \in Nat
  BY LoopSets, CountOpened
<1>1. ASSUME UNCHANGED ordered_systems_
      PROVE  N' = N /\ \A k : Opened(k)' = Opened(k)
  BY <1>1 DEF Opened
<1> USE DEF StoreInv, StoreTypeOK, context, progress, adapting
<1>2. ASSUME NEW s \in Systems, Register(s) PROVE StoreInv'
  <2>1. /\ main = "PrepareContext" /\ ~inside /\ store = 0
        /\ main' \in {"PrepareContext", "aborted"}
        /\ UNCHANGED <<store, inside, unvisited, ready, adapters_, missed>>
    BY <1>2 DEF Register, StoreFollowsLoops, Hooks
  <2>2. AdaptersFollowLoops'
    BY <2>1, AdaptersStep
  <2> QED
    BY <2>1, <2>2 DEF StoreFollowsLoops, Hooks
<1>3. ASSUME NEW a \in Adapters, RegisterAdapter(a) PROVE StoreInv'
  <2>1. /\ UNCHANGED <<main, index, ordered_systems_, store, inside, unvisited, ready>>
        /\ adapters_' = adapters_ \cup {a}
        /\ missed' = IF a \in adapters_ THEN missed ELSE [missed EXCEPT ![a] = store]
    BY <1>3 DEF RegisterAdapter
  <2>2. ~inside /\ unvisited = {} /\ main \in Hooks \cup {"Initialize"}
    BY <1>3 DEF RegisterAdapter, StoreFollowsLoops, AdaptersFollowLoops
  <2>3. StoreTypeOK'
    BY <2>1
  <2>4. StoreFollowsLoops'
    BY <1>1, <2>1 DEF StoreFollowsLoops
  <2>5. AdaptersFollowLoops'
    BY <2>1, <2>2 DEF AdaptersFollowLoops, Hooks
  <2> QED
    BY <2>3, <2>4, <2>5
<1>4. CASE OpenStore
  <2>1. /\ main = "Initialize" /\ ~inside /\ index < N
        /\ ordered_systems_[index + 1] = persistence
        /\ store = Opened(index) /\ unvisited = {}
        /\ store' = store + 1 /\ inside' = TRUE /\ unvisited' = adapters_
        /\ UNCHANGED <<main, index, ordered_systems_, ready, adapters_, missed>>
    <3>1. main = "Initialize" /\ ~inside /\ index \in Nat /\ index < N
      BY <1>0, <1>4 DEF OpenStore, Turn, AppTypeOK
    <3>2. Opened(index) \in Nat
      BY <1>0, <3>1
    <3>3. store = Opened(index) /\ unvisited = {}
      BY <3>1, <3>2 DEF StoreFollowsLoops, AdaptersFollowLoops
    <3> QED
      BY <1>4, <3>1, <3>3 DEF OpenStore, Turn
  <2>2. StoreTypeOK'
    BY <2>1
  <2>3. StoreFollowsLoops'
    BY <1>1, <2>1 DEF StoreFollowsLoops, Hooks
  <2>4. AdaptersFollowLoops'
    BY <2>1 DEF AdaptersFollowLoops
  <2> QED
    BY <2>2, <2>3, <2>4
<1>5. CASE CloseStore
  <2>1. /\ main = "Deinitialize" /\ ~inside /\ index \in Nat /\ index < N
        /\ ordered_systems_[N - index] = persistence
        /\ store = Opened(N - index) /\ unvisited = {}
        /\ store' = store - 1 /\ inside' = TRUE /\ unvisited' = adapters_
        /\ UNCHANGED <<main, index, ordered_systems_, ready, adapters_, missed>>
    <3>1. main = "Deinitialize" /\ ~inside /\ index \in Nat /\ index < N
      BY <1>0, <1>5 DEF CloseStore, Turn, AppTypeOK
    <3>2. store = Opened(N - index) /\ unvisited = {}
      <4>1. N - index \in Nat /\ N - index <= N
        BY <1>0, <3>1
      <4>2. Opened(N - index) \in Nat
        BY <1>0, <4>1
      <4> QED
        BY <3>1, <4>2 DEF StoreFollowsLoops, AdaptersFollowLoops
    <3> QED
      BY <1>5, <3>1, <3>2, LoopSets DEF CloseStore, Turn
  <2>2. store - 1 \in Nat
    <3>1. PICK k \in Nat : k + 1 = N - index /\ k < N
      <4>1. N - index - 1 \in Nat /\ N - index - 1 < N /\ (N - index - 1) + 1 = N - index
        BY <1>0, <2>1
      <4> QED
        BY <4>1
    <3>2. Opened(N - index) = Opened(k) + 1 /\ Opened(k) \in Nat
      BY <2>1, <3>1, CountOpened
    <3> QED
      BY <2>1, <3>2
  <2>3. StoreTypeOK'
    BY <2>1, <2>2
  <2>4. StoreFollowsLoops'
    <3>1. Opened(N - index)' = Opened(N - index) /\ N' = N
      BY <1>1, <2>1 DEF Opened
    <3> QED
      BY <2>1, <3>1 DEF StoreFollowsLoops, Hooks
  <2>5. AdaptersFollowLoops'
    BY <2>1, <2>2 DEF AdaptersFollowLoops
  <2> QED
    BY <2>3, <2>4, <2>5
<1>6. ASSUME NEW a \in Adapters, InitializeAdapter(a) \/ DeinitializeAdapter(a)
      PROVE  StoreInv'
  <2>1. /\ inside /\ a \in unvisited /\ unvisited' = unvisited \ {a} /\ ready[a] \in Int
        /\ \/ main = "Initialize" /\ ready' = [ready EXCEPT ![a] = ready[a] + 1]
           \/ main = "Deinitialize" /\ ready' = [ready EXCEPT ![a] = ready[a] - 1]
        /\ UNCHANGED <<main, index, ordered_systems_, store, inside, adapters_, missed>>
    BY <1>6 DEF InitializeAdapter, DeinitializeAdapter, AdaptersFollowLoops
  <2>2. StoreTypeOK'
    BY <2>1
  <2>3. StoreFollowsLoops'
    BY <1>1, <2>1 DEF StoreFollowsLoops
  <2>4. AdaptersFollowLoops'
    BY <2>1 DEF AdaptersFollowLoops
  <2> QED
    BY <2>2, <2>3, <2>4
<1>7. ASSUME NEW s \in Systems, InitializeSystem(s) PROVE StoreInv'
  <2>1. /\ main = "Initialize" /\ index \in Nat /\ index < N /\ unvisited = {}
        /\ inside <=> ordered_systems_[index + 1] = persistence
        /\ index' = index + 1 /\ inside' = FALSE
        /\ UNCHANGED <<main, ordered_systems_, store, unvisited, ready, adapters_, missed>>
    BY <1>0, <1>7 DEF InitializeSystem, Turn, AppTypeOK, StoreFollowsLoops, AdaptersFollowLoops
  <2>2. store = Opened(index + 1)
    BY <2>1, CountOpened DEF StoreFollowsLoops
  <2>3. StoreTypeOK'
    BY <2>1
  <2>4. StoreFollowsLoops'
    BY <1>1, <2>1, <2>2 DEF StoreFollowsLoops
  <2>5. AdaptersFollowLoops'
    BY <2>1 DEF AdaptersFollowLoops
  <2> QED
    BY <2>3, <2>4, <2>5
<1>8. ASSUME NEW s \in Systems, DeinitializeSystem(s) PROVE StoreInv'
  <2>1. /\ main = "Deinitialize" /\ index \in Nat /\ index < N /\ unvisited = {}
        /\ inside <=> ordered_systems_[N - index] = persistence
        /\ index' = index + 1 /\ inside' = FALSE
        /\ UNCHANGED <<main, ordered_systems_, store, unvisited, ready, adapters_, missed>>
    BY <1>0, <1>8, LoopSets
       DEF DeinitializeSystem, Turn, AppTypeOK, StoreFollowsLoops, AdaptersFollowLoops
  <2>2. store = Opened(N - (index + 1))
    <3>1. PICK k \in Nat : k + 1 = N - index /\ k < N /\ k = N - (index + 1)
      <4>1. /\ N - (index + 1) \in Nat /\ N - (index + 1) < N
            /\ (N - (index + 1)) + 1 = N - index
        BY <1>0, <2>1
      <4> QED
        BY <4>1
    <3>2. Opened(N - index) = Opened(k) + (IF inside THEN 1 ELSE 0) /\ Opened(k) \in Nat
      BY <2>1, <3>1, CountOpened
    <3>3. store = Opened(N - index) - (IF inside THEN 1 ELSE 0)
      BY <2>1 DEF StoreFollowsLoops
    <3> QED
      BY <3>1, <3>2, <3>3
  <2>3. StoreTypeOK'
    BY <2>1
  <2>4. StoreFollowsLoops'
    <3>1. Opened(N - index)' = Opened(N - (index + 1))
      BY <1>1, <2>1 DEF Opened
    <3>2. N - (index + 1) \in Nat /\ N - (index + 1) <= N
      BY <1>0, <2>1
    <3>3. Opened(N - (index + 1)) \in Nat
      BY <1>0, <3>2
    <3> QED
      BY <2>1, <2>2, <3>1, <3>3 DEF StoreFollowsLoops, Hooks
  <2>5. AdaptersFollowLoops'
    BY <2>1 DEF AdaptersFollowLoops
  <2> QED
    BY <2>3, <2>4, <2>5
<1>9. CASE Throw
  BY <1>9, AdaptersStep DEF Throw, StoreFollowsLoops, Hooks
<1>10. CASE UpdatePhase \/ Quit
  <2>1. /\ UNCHANGED <<main, ordered_systems_, store, inside, unvisited, ready, adapters_, missed>>
        /\ main = "wait" \/ UNCHANGED index
    BY <1>10 DEF UpdatePhase, Quit
  <2>2. AdaptersFollowLoops'
    BY <2>1, AdaptersStep
  <2>3. main # "wait" => Opened(N - index)' = Opened(N - index)
    BY <1>1, <2>1
  <2> QED
    BY <1>1, <2>1, <2>2, <2>3 DEF StoreFollowsLoops
<1>11. ASSUME /\ UNCHANGED <<ordered_systems_, store, inside, unvisited, ready, adapters_, missed>>
              /\ main' # main /\ ~inside /\ main \notin {"terminate", "aborted"}
              /\ main' = "Initialize" => store = Opened(index')
              /\ main' \in {"OnContextInitialized", "wait", "OnContextDeinitialized"} =>
                   store = Opened(N)
              /\ main' = "Deinitialize" => store = Opened(N - index')
              /\ main' \in {"new", "PrepareContext", "done"} => store = 0
       PROVE  StoreInv'
  <2>1. AdaptersFollowLoops'
    BY <1>11, AdaptersStep
  <2>2. Opened(N - index)' = Opened(N - index') /\ Opened(index)' = Opened(index')
        /\ Opened(N)' = Opened(N)
    BY <1>1, <1>11 DEF Opened
  <2> QED
    BY <1>11, <2>1, <2>2 DEF StoreFollowsLoops
<1>12. CASE Run \/ BeginInitialize \/ BeginWait \/ EndWait
  <2>1. ~inside
    BY <1>12 DEF Run, BeginInitialize, BeginWait, EndWait, GoOn, StoreFollowsLoops, Hooks
  <2> QED
    BY <1>0, <1>11, <1>12, <2>1
       DEF Run, BeginInitialize, BeginWait, EndWait, GoOn, StoreFollowsLoops
<1>13. CASE BeginDeinitialize
  <2>1. ~inside /\ index' = 0 /\ N - 0 = N /\ store = Opened(N)
    BY <1>0, <1>13 DEF BeginDeinitialize, GoOn, StoreFollowsLoops, Hooks
  <2> QED
    BY <1>11, <1>13, <2>1 DEF BeginDeinitialize, GoOn
<1>14. CASE EndInitialize
  <2>1. index = N /\ main = "Initialize" /\ ~ (index < N)
    BY <1>0, <1>14 DEF EndInitialize, GoOn
  <2>2. ~inside /\ Opened(N) \in Nat
    BY <1>0, <2>1 DEF StoreFollowsLoops
  <2>3. store = Opened(N)
    BY <2>1, <2>2 DEF StoreFollowsLoops
  <2> QED
    BY <1>11, <1>14, <2>2, <2>3 DEF EndInitialize, GoOn
<1>15. CASE EndDeinitialize
  <2>1. index = N /\ N - N = 0 /\ main = "Deinitialize" /\ ~ (index < N)
    BY <1>0, <1>15 DEF EndDeinitialize, GoOn
  <2>2. ~inside /\ store = 0
    BY <1>0, <2>1 DEF StoreFollowsLoops
  <2> QED
    BY <1>11, <1>15, <2>2 DEF EndDeinitialize, GoOn
<1>16. CASE Terminate
  BY <1>16, AdaptersStep DEF Terminate, GoOn, StoreFollowsLoops, Hooks
<1> QED
  BY <1>2, <1>3, <1>4, <1>5, <1>6, <1>7, <1>8, <1>9, <1>10, <1>12, <1>13, <1>14, <1>15,
     <1>16, AppSteps
-----------------------------------------------------------------------------
(* The global logger. *)

\* The states of a thread, by what it does.
LEMMA AtStates ==
  ASSUME LogTypeOK, NEW t \in Threads
  PROVE  /\ at[t].does \in {"nothing", "make", "use", "shutDown", "replace"}
         /\ at[t].does = "nothing" <=> at[t] = Logging!Idle
         /\ at[t].does = "make" => at[t].logger \in Loggers
         /\ at[t].does \in {"use", "shutDown", "replace"} => at[t].logger \in AnyLogger
         /\ at[t].does = "shutDown" =>
              [at[t] EXCEPT !.does = "replace"] = [does |-> "replace", logger |-> at[t].logger]
<1>1. PICK state \in AtState : state = at[t]
  BY DEF LogTypeOK
<1>2. CASE state = Logging!Idle
  BY <1>1, <1>2 DEF Logging!Idle
<1>3. CASE state \in [does : {"make"}, logger : Loggers]
  <2>1. PICK logger \in Loggers : at[t] = [does |-> "make", logger |-> logger]
    BY <1>1, <1>3
  <2> QED
    BY <2>1 DEF Logging!Idle
<1>4. CASE state \in [does : {"use", "shutDown", "replace"}, logger : AnyLogger]
  <2>1. PICK does \in {"use", "shutDown", "replace"}, logger \in AnyLogger :
          at[t] = [does |-> does, logger |-> logger]
    BY <1>1, <1>4
  <2> QED
    BY <2>1 DEF Logging!Idle
<1> QED
  BY <1>2, <1>3, <1>4 DEF AtState

\* The states that steps lead to.
LEMMA NewStates ==
  /\ Logging!Idle \in AtState /\ Logging!Idle.does = "nothing"
  /\ \A logger \in Loggers : [does |-> "make", logger |-> logger] \in AtState
  /\ \A logger \in AnyLogger : \A does \in {"use", "shutDown", "replace"} :
       [does |-> does, logger |-> logger] \in AtState
BY DEF AtState, Logging!Idle

\* A step of a thread in Log changes what that thread does, and no other.
LEMMA NewState ==
  ASSUME LogTypeOK, NEW t \in Threads, NEW new \in AtState, at' = [at EXCEPT ![t] = new]
  PROVE  /\ at' \in [Threads -> AtState]
         /\ at'[t] = new
         /\ \A u \in Threads : u # t => at'[u] = at[u]
BY DEF LogTypeOK

\* Who makes a logger, and who shuts one down, by thread.
LEMMA WhoMakes ==
  ASSUME LogTypeOK
  PROVE  /\ \A logger : logger \in Logging!BeingMade <=> \E t \in Threads : Makes(t, logger)
         /\ Logging!ShuttingDown = {t \in Threads : at[t].does \in {"shutDown", "replace"}}
<1>1. /\ Logging!BeingMade = {at[t].logger : t \in {u \in Threads : at[u].does = "make"}}
      /\ Logging!ShuttingDown = {t \in Threads : at[t].does \in {"shutDown", "replace"}}
  BY DEF Logging!BeingMade, Logging!ShuttingDown, Threads
<1> QED
  BY <1>1 DEF Makes

LEMMA MakeLoggerStep ==
  ASSUME LogInv, NEW t \in Threads, NEW fresh \in Loggers, Logging!MakeLogger(t, fresh)
  PROVE  LogInv'
<1> USE NullLoggerAssumption
    DEF LogInv, LogTypeOK, MadeBeforeUsed, ShutdownKnowsGlobal, ReplacedIsShutDown,
        ClosedIsReplaced, LastHasPool, Makes, Holds, AnyLogger
<1>1. /\ at[t].does = "nothing" /\ fresh \notin made
      /\ at' = [at EXCEPT ![t] = [does |-> "make", logger |-> fresh]]
      /\ made' = made \cup {fresh} /\ pool' = fresh /\ last' = fresh
      /\ UNCHANGED <<GlobalLogger, poolOf, closed, overtaken, lost>>
  BY AtStates DEF Logging!MakeLogger
<1>2. PICK new \in AtState : new = [does |-> "make", logger |-> fresh]
  BY NewStates
<1>3. /\ at' \in [Threads -> AtState] /\ at'[t] = new
      /\ \A u \in Threads : u # t => at'[u] = at[u]
      /\ new.does = "make" /\ new.logger = fresh
  BY <1>1, <1>2, NewState
<1> QED
  BY <1>1, <1>3

LEMMA TakePoolStep ==
  ASSUME LogInv, NEW t \in Threads, Logging!TakePool(t)
  PROVE  LogInv'
<1> USE NullLoggerAssumption
    DEF LogInv, LogTypeOK, MadeBeforeUsed, ShutdownKnowsGlobal, ReplacedIsShutDown,
        ClosedIsReplaced, LastHasPool, Makes, Holds, AnyLogger
<1>1. /\ at[t].does = "make" /\ at[t].logger \in Loggers
      /\ at' = [at EXCEPT ![t] = Logging!Idle]
      /\ poolOf' = [poolOf EXCEPT ![at[t].logger] = pool]
      /\ UNCHANGED <<GlobalLogger, made, pool, closed, overtaken, last, lost>>
  BY AtStates DEF Logging!TakePool, Logging!history
<1>2. PICK new \in AtState : new = Logging!Idle /\ new.does = "nothing"
  BY NewStates
<1>3. /\ at' \in [Threads -> AtState] /\ at'[t] = new
      /\ \A u \in Threads : u # t => at'[u] = at[u]
  BY <1>1, <1>2, NewState
<1> QED
  BY <1>1, <1>2, <1>3

LEMMA SetLoggerStep ==
  ASSUME LogInv, NEW t \in Threads, NEW set \in Loggers, Logging!SetLogger(t, set)
  PROVE  LogInv'
<1> USE NullLoggerAssumption
    DEF LogInv, LogTypeOK, MadeBeforeUsed, ShutdownKnowsGlobal, ReplacedIsShutDown,
        ClosedIsReplaced, LastHasPool, Makes, Holds, AnyLogger
<1>1. /\ set \in made /\ \A u \in Threads : ~ Makes(u, set)
      /\ GlobalLogger' = set /\ closed' = closed \ {set}
      /\ overtaken' = {u \in Threads : at[u].does \in {"shutDown", "replace"}}
      /\ UNCHANGED <<at, made, pool, poolOf, last, lost>>
  BY WhoMakes DEF Logging!SetLogger, Logging!spdlog
<1> QED
  BY <1>1

LEMMA SetNoLoggerStep ==
  ASSUME LogInv, NEW t \in Threads, Logging!SetNoLogger(t)
  PROVE  LogInv'
<1> USE NullLoggerAssumption
    DEF LogInv, LogTypeOK, MadeBeforeUsed, ShutdownKnowsGlobal, ReplacedIsShutDown,
        ClosedIsReplaced, LastHasPool, Makes, Holds, AnyLogger
<1>1. /\ GlobalLogger' = NullLogger
      /\ UNCHANGED <<at, made, pool, poolOf, closed, overtaken, last, lost>>
  BY DEF Logging!SetNoLogger, Logging!history, Logging!spdlog
<1> QED
  BY <1>1

LEMMA GetLoggerStep ==
  ASSUME LogInv, NEW t \in Threads, NEW does \in {"use", "shutDown"},
         Logging!GetLogger(t, does)
  PROVE  LogInv'
<1> USE NullLoggerAssumption
    DEF LogInv, LogTypeOK, MadeBeforeUsed, ShutdownKnowsGlobal, ReplacedIsShutDown,
        ClosedIsReplaced, LastHasPool, Makes, Holds, AnyLogger
<1>1. /\ at[t].does = "nothing"
      /\ at' = [at EXCEPT ![t] = [does |-> does, logger |-> GlobalLogger]]
      /\ UNCHANGED <<GlobalLogger, made, pool, poolOf, closed, overtaken, last, lost>>
  BY AtStates DEF Logging!GetLogger, Logging!spdlog, Logging!history
<1>2. PICK new \in AtState : new = [does |-> does, logger |-> GlobalLogger]
  BY NewStates
<1>3. /\ at' \in [Threads -> AtState] /\ at'[t] = new
      /\ \A u \in Threads : u # t => at'[u] = at[u]
      /\ new.does = does /\ new.logger = GlobalLogger
  BY <1>1, <1>2, NewState
<1> QED
  BY <1>1, <1>3

LEMMA UseLoggerStep ==
  ASSUME LogInv, NEW t \in Threads, Logging!UseLogger(t)
  PROVE  LogInv'
<1> USE NullLoggerAssumption
    DEF LogInv, LogTypeOK, MadeBeforeUsed, ShutdownKnowsGlobal, ReplacedIsShutDown,
        ClosedIsReplaced, LastHasPool, Makes, Holds, AnyLogger
<1>1. /\ at[t].does = "use"
      /\ at' = [at EXCEPT ![t] = Logging!Idle]
      /\ UNCHANGED <<GlobalLogger, made, pool, poolOf, closed, overtaken, last>>
      /\ \/ UNCHANGED lost
         \/ /\ at[t].logger \in Loggers
            /\ ~ (poolOf[at[t].logger] = pool /\ pool # NullLogger)
            /\ lost' = lost \cup {at[t].logger}
  BY AtStates DEF Logging!UseLogger, Logging!spdlog, Logging!Works
<1>2. PICK new \in AtState : new = Logging!Idle /\ new.does = "nothing"
  BY NewStates
<1>3. /\ at' \in [Threads -> AtState] /\ at'[t] = new
      /\ \A u \in Threads : u # t => at'[u] = at[u]
  BY <1>1, <1>2, NewState
<1> QED
  BY <1>1, <1>2, <1>3

LEMMA ShutDownLoggerStep ==
  ASSUME LogInv, NEW t \in Threads, Logging!ShutDownLogger(t)
  PROVE  LogInv'
<1> USE NullLoggerAssumption
    DEF LogInv, LogTypeOK, MadeBeforeUsed, ShutdownKnowsGlobal, ReplacedIsShutDown,
        ClosedIsReplaced, LastHasPool, Makes, Holds, AnyLogger
<1>1. /\ at[t].does = "shutDown" /\ at[t].logger \in AnyLogger
      /\ at' = [at EXCEPT ![t] = [at[t] EXCEPT !.does = "replace"]]
      /\ closed' = closed \cup ({at[t].logger} \ {NullLogger})
      /\ pool' \in AnyLogger
      /\ last' = NullLogger \/ (last' = last /\ pool' = pool)
      /\ UNCHANGED <<GlobalLogger, made, poolOf, overtaken, lost>>
  BY AtStates DEF Logging!ShutDownLogger
<1>2. PICK new \in AtState : new = [does |-> "replace", logger |-> at[t].logger]
  BY <1>1, NewStates
<1>3. /\ at' \in [Threads -> AtState] /\ at'[t] = new
      /\ \A u \in Threads : u # t => at'[u] = at[u]
      /\ new.does = "replace" /\ new.logger = at[t].logger
  <2>1. at' = [at EXCEPT ![t] = new]
    BY <1>1, <1>2, AtStates
  <2> QED
    BY <1>2, <2>1, NewState
<1> QED
  BY <1>1, <1>3

LEMMA ReplaceLoggerStep ==
  ASSUME LogInv, NEW t \in Threads, Logging!ReplaceLogger(t)
  PROVE  LogInv'
<1> USE NullLoggerAssumption
    DEF LogInv, LogTypeOK, MadeBeforeUsed, ShutdownKnowsGlobal, ReplacedIsShutDown,
        ClosedIsReplaced, LastHasPool, Makes, Holds, AnyLogger
<1>1. /\ at[t].does = "replace" /\ at[t].logger \in AnyLogger
      /\ at' = [at EXCEPT ![t] = Logging!Idle]
      /\ GlobalLogger' = NullLogger
      /\ overtaken' = overtaken \ {t}
      /\ UNCHANGED <<made, pool, poolOf, closed, last, lost>>
  BY AtStates DEF Logging!ReplaceLogger, Logging!spdlog
<1>2. PICK new \in AtState : new = Logging!Idle /\ new.does = "nothing"
  BY NewStates
<1>3. /\ at' \in [Threads -> AtState] /\ at'[t] = new
      /\ \A u \in Threads : u # t => at'[u] = at[u]
  BY <1>1, <1>2, NewState
<1> QED
  BY <1>1, <1>2, <1>3

LEMMA LogStep ==
  ASSUME LogInv, NEW t \in Threads, Logging!Call(t) \/ Logging!Return(t)
  PROVE  LogInv'
BY MakeLoggerStep, TakePoolStep, SetLoggerStep, SetNoLoggerStep, GetLoggerStep, UseLoggerStep,
   ShutDownLoggerStep, ReplaceLoggerStep DEF Logging!Call, Logging!Return
-----------------------------------------------------------------------------
(* The theorems. *)

\* A step is one of the application or one of Log, and leaves the other alone.
LEMMA Steps ==
  ASSUME [ProcessNext]_allVars
  PROVE  \/ (Hook \/ MainStep \/ Quit) /\ UNCHANGED logging
         \/ (\E t \in Threads : Logging!Call(t) \/ Logging!Return(t)) /\ UNCHANGED vars
         \/ UNCHANGED allVars
<1>1. CASE MainThread \/ SomeoneQuits
  BY <1>1 DEF MainThread, SomeoneQuits, Threads
<1>2. CASE MainCallsLog
  BY <1>2 DEF MainCallsLog, Threads
<1>3. CASE PrintExceptionStacktrace
  BY <1>3 DEF PrintExceptionStacktrace, Logging!Call, Threads
<1>4. ASSUME NEW t \in Others, OtherThread(t)
      PROVE  (\E u \in Threads : Logging!Call(u) \/ Logging!Return(u)) /\ UNCHANGED vars
  BY <1>4 DEF OtherThread, Threads
<1> QED
  BY <1>1, <1>2, <1>3, <1>4 DEF ProcessNext

LEMMA InitInv == ProcessInit => IInv
<1> SUFFICES ASSUME ProcessInit PROVE IInv
  OBVIOUS
<1>1. AppInv
  <2> USE DEF ProcessInit, Init, Hooks
  <2>1. AppTypeOK
    BY EmptySeq, EmptyQueue DEF AppTypeOK
  <2>2. RequiredComesFirst
    BY EmptyQueue DEF RequiredComesFirst
  <2>3. UpFollowsLoops /\ StoreFollowsLoops
    BY DEF UpFollowsLoops, StoreFollowsLoops
  <2>4. StoreTypeOK
    <3>1. 0 \in Nat /\ 0 \in Int
      OBVIOUS
    <3>2. ready \in [Adapters -> Int] /\ missed \in [Adapters -> Nat]
      BY <3>1, Zenon
    <3>3. store \in Nat /\ inside \in BOOLEAN /\ adapters_ = {} /\ unvisited = {}
      BY <3>1, Zenon
    <3> QED
      BY <3>2, <3>3, Zenon DEF StoreTypeOK
  <2>5. AdaptersFollowLoops
    <3>1. adapters_ = {} /\ unvisited = {} /\ store = 0 /\ \A a \in Adapters : ready[a] = 0
      OBVIOUS
    <3> QED
      BY <3>1 DEF AdaptersFollowLoops
  <2> QED
    BY <2>1, <2>2, <2>3, <2>4, <2>5 DEF AppInv, StoreInv
<1>2. LogInv
  <2>1. /\ GlobalLogger = NullLogger /\ at = [t \in Threads |-> Logging!Idle]
        /\ made = {} /\ closed = {} /\ pool = NullLogger
        /\ poolOf = [l \in Loggers |-> NullLogger]
        /\ overtaken = {} /\ last = NullLogger /\ lost = {}
    BY DEF ProcessInit, Logging!Init, Threads
  <2>2. \A t \in Threads : at[t] = Logging!Idle /\ at[t].does = "nothing"
    BY <2>1, NewStates
  <2>3. LogTypeOK
    BY <2>1, NewStates DEF LogTypeOK, AnyLogger
  <2> QED
    BY <2>1, <2>2, <2>3, NullLoggerAssumption
       DEF LogInv, MadeBeforeUsed, ShutdownKnowsGlobal, ReplacedIsShutDown, ClosedIsReplaced,
           LastHasPool, Makes, Holds
<1> QED
  BY <1>1, <1>2 DEF IInv

\* The inductive invariant holds.
THEOREM Invariance == Spec => []IInv
<1>1. IInv /\ [ProcessNext]_allVars => IInv'
  <2> SUFFICES ASSUME AppInv, LogInv, [ProcessNext]_allVars PROVE AppInv' /\ LogInv'
    BY DEF IInv
  <2>1. ASSUME UNCHANGED vars PROVE AppInv'
    <3> USE <2>1 DEF vars, context, progress, adapting
    <3>1. AppTypeOK' /\ RequiredComesFirst' /\ UpFollowsLoops'
      BY DEF AppInv, AppTypeOK, RequiredComesFirst, UpFollowsLoops, FirstOnes, LastOnes
    <3>2. StoreTypeOK' /\ AdaptersFollowLoops'
      BY DEF AppInv, StoreInv, StoreTypeOK, AdaptersFollowLoops
    <3>3. StoreFollowsLoops'
      BY DEF AppInv, StoreInv, StoreFollowsLoops, Opened
    <3> QED
      BY <3>1, <3>2, <3>3 DEF AppInv, StoreInv
  <2>2. ASSUME UNCHANGED logging PROVE LogInv'
    BY <2>2 DEF logging, LogInv, LogTypeOK, MadeBeforeUsed, ShutdownKnowsGlobal,
                ReplacedIsShutDown, ClosedIsReplaced, LastHasPool, Makes, Holds
  <2>3. CASE (Hook \/ MainStep \/ Quit) /\ UNCHANGED logging
    BY <2>2, <2>3, AppTypeStep, UpStep, StoreStep DEF AppInv
  <2>4. CASE (\E t \in Threads : Logging!Call(t) \/ Logging!Return(t)) /\ UNCHANGED vars
    BY <2>1, <2>4, LogStep
  <2>5. CASE UNCHANGED allVars
    BY <2>1, <2>2, <2>5 DEF allVars
  <2> QED
    BY <2>3, <2>4, <2>5, Steps
<1> QED
  BY InitInv, <1>1, PTL DEF Spec

\* Through initialization, deinitialization and failure, what a system requires is
\* up while the system is, if each system was registered once.
THEOREM DependenciesStayUp == Spec => []DependenciesUp
<1>1. IInv => DependenciesUp
  <2> SUFFICES ASSUME AppInv, IsUnique(ordered_systems_),
                      NEW s \in up, NEW r \in Requires[s]
               PROVE  r \in up
    BY DEF IInv, DependenciesUp
  <2>1. /\ Len(ordered_systems_) \in Nat
        /\ DOMAIN ordered_systems_ = 1..Len(ordered_systems_)
    BY LoopSets DEF AppInv
  \* The systems that are up are the first, in Deinitialize too.
  <2>2. PICK k \in 0..Len(ordered_systems_) : up = FirstOnes(k)
    <3>1. ASSUME NEW m \in 0..Len(ordered_systems_),
                 up = FirstOnes(Len(ordered_systems_)) \ LastOnes(m)
          PROVE  \E k \in 0..Len(ordered_systems_) : up = FirstOnes(k)
      <4>1. Len(ordered_systems_) - m \in 0..Len(ordered_systems_)
        BY <2>1, <3>1
      <4>2. ASSUME NEW x PROVE x \in up <=> x \in FirstOnes(Len(ordered_systems_) - m)
        <5>1. ASSUME NEW i \in 1..Len(ordered_systems_), x = ordered_systems_[i]
              PROVE  x \in LastOnes(m) <=> i > Len(ordered_systems_) - m
          <6>1. x \in LastOnes(m) =>
                  i \in (Len(ordered_systems_) - m + 1)..Len(ordered_systems_)
            <7>1. \A j \in (Len(ordered_systems_) - m + 1)..Len(ordered_systems_) :
                    j \in 1..Len(ordered_systems_)
              BY <2>1, <3>1
            <7> QED
              BY <2>1, <5>1, <7>1 DEF LastOnes, IsUnique
          <6>2. i > Len(ordered_systems_) - m => x \in LastOnes(m)
            BY <2>1, <3>1, <5>1 DEF LastOnes
          <6> QED
            BY <2>1, <3>1, <6>1, <6>2
        <5>2. x \in up => x \in FirstOnes(Len(ordered_systems_) - m)
          BY <2>1, <3>1, <5>1 DEF FirstOnes
        <5>3. x \in FirstOnes(Len(ordered_systems_) - m) => x \in up
          <6>1. \A i \in 1..(Len(ordered_systems_) - m) :
                  i \in 1..Len(ordered_systems_) /\ ~ (i > Len(ordered_systems_) - m)
            BY <2>1, <3>1
          <6> QED
            BY <3>1, <5>1, <6>1 DEF FirstOnes
        <5> QED
          BY <5>2, <5>3
      <4>3. up = FirstOnes(Len(ordered_systems_) - m)
        BY <4>2
      <4> QED
        BY <4>1, <4>3
    <3>2. /\ 0 \in 0..Len(ordered_systems_) /\ Len(ordered_systems_) \in 0..Len(ordered_systems_)
          /\ FirstOnes(0) = {}
      BY <2>1, LoopSets DEF AppInv
    <3>3. CASE main \in {"Initialize", "Deinitialize"}
      BY <3>1, <3>3 DEF AppInv, AppTypeOK, UpFollowsLoops
    <3>4. CASE main \in {"terminate", "aborted"}
      BY <3>1, <3>4 DEF AppInv, UpFollowsLoops
    <3>5. CASE main \notin {"Initialize", "Deinitialize", "terminate", "aborted"}
      <4>1. up = {} \/ up = FirstOnes(Len(ordered_systems_))
        BY <3>5 DEF AppInv, AppTypeOK, UpFollowsLoops, Hooks
      <4> QED
        BY <3>2, <4>1
    <3> QED
      BY <3>3, <3>4, <3>5
  <2>3. PICK i \in 1..k : s = ordered_systems_[i]
    BY <2>2 DEF FirstOnes
  <2>4. i \in DOMAIN ordered_systems_
    BY <2>1, <2>2, <2>3
  <2>5. PICK j \in DOMAIN ordered_systems_ : j < i /\ ordered_systems_[j] = r
    BY <2>3, <2>4 DEF AppInv, RequiredComesFirst
  <2>6. j \in 1..k
    BY <2>1, <2>2, <2>3, <2>5
  <2> QED
    BY <2>2, <2>5, <2>6 DEF FirstOnes
<1> QED
  BY Invariance, <1>1, PTL

\* However often the persistence system is registered, and whoever throws, an
\* adapter was initialized more often than the store only where Deinitialize has
\* closed the store and has yet to come to it; while the application runs it was
\* initialized as often as the store since it was registered; and in the end a
\* late one was deinitialized once too often (persistence_system.hpp, Initialize
\* and Deinitialize).
THEOREM AdaptersStayWithStore == Spec => []AdaptersFollowStore
<1>1. IInv => AdaptersFollowStore
  <2> SUFFICES ASSUME AppInv PROVE AdaptersFollowStore
    BY DEF IInv
  <2> USE DEF AppInv, StoreInv, StoreTypeOK, StoreFollowsLoops, AdaptersFollowLoops
  <2>1. ASSUME NEW a \in Adapters, ready[a] > store
        PROVE  main # "Initialize" /\ inside /\ a \in unvisited
    <3>1. a \in unvisited /\ inside /\ a \in adapters_
      BY <2>1
    <3>2. ASSUME main = "Initialize" PROVE FALSE
      <4>1. ready[a] = store - missed[a] - 1
        BY <3>1, <3>2
      <4> QED
        BY <2>1, <4>1
    <3> QED
      BY <3>1, <3>2
  <2>2. ASSUME main \in {"wait", "done"} PROVE ~inside /\ unvisited = {}
    BY <2>2
  <2>3. ASSUME main \in {"wait", "done"}, NEW a \in adapters_
        PROVE  ready[a] = store - missed[a] /\ missed[a] \in Nat
    BY <2>2, <2>3
  <2>4. main = "wait" => store = Registrations
    <3>1. DOMAIN ordered_systems_ = 1..Len(ordered_systems_)
      BY LoopSets
    <3> QED
      BY <3>1 DEF Registrations, Opened
  <2>5. main = "done" => up = {} /\ store = 0
    BY DEF UpFollowsLoops
  <2> QED
    BY <2>1, <2>3, <2>4, <2>5 DEF AdaptersFollowStore
<1> QED
  BY Invariance, <1>1, PTL

\* What Log::Shutdown is about to replace was shut down, by it or by another
\* Shutdown, unless a logger was set since it read the one it shuts down
\* (log.cpp, Shutdown).
THEOREM OnlyOverlappingIsDropped == Spec => []DroppedOnlyInOverlap
<1>1. IInv => DroppedOnlyInOverlap
  BY DEF IInv, LogInv, ReplacedIsShutDown, DroppedOnlyInOverlap, Logging!DroppedOnlyInOverlap,
         Threads
<1> QED
  BY Invariance, <1>1, PTL

\* A logger that was shut down and not set again is global only while a Shutdown
\* is about to replace it (log.cpp, SetLogger and Shutdown).
THEOREM ClosedLoggersGo == Spec => []ClosedIsOnItsWayOut
<1>1. IInv => ClosedIsOnItsWayOut
  BY DEF IInv, LogInv, ClosedIsReplaced, ClosedIsOnItsWayOut, Logging!ClosedIsOnItsWayOut,
         Threads
<1> QED
  BY Invariance, <1>1, PTL

\* The logger made last has the pool there is and loses no message, until another
\* is made or one is shut down (spdlog-logger.cpp, SpdlogLogger and Shutdown).
THEOREM QuietLoggersPrint == Spec => []QuietLoggerPrints
<1>1. IInv => QuietLoggerPrints
  <2> SUFFICES ASSUME LogInv, last \in made, last \notin Logging!BeingMade
               PROVE  Logging!Works(last) /\ last \notin lost
    BY DEF IInv, QuietLoggerPrints, Logging!QuietLoggerPrints
  <2>1. last # NullLogger /\ \A t \in Threads : ~ Makes(t, last)
    BY WhoMakes, NullLoggerAssumption DEF LogInv, LogTypeOK
  <2> QED
    BY <2>1 DEF LogInv, LastHasPool, Logging!Works
<1> QED
  BY Invariance, <1>1, PTL
=============================================================================
