--------------------------- MODULE QueuedExecutor ---------------------------
(***************************************************************************)
(* The queued executor (core/src/synchronization/queued_executor.cpp):     *)
(* any thread posts tasks, worker threads call ProcessBlocking in a loop,  *)
(* which waits for tasks, takes all of them, and runs them without the     *)
(* mutex; Stop ends it.                                                    *)
(*                                                                         *)
(* No thread keeps the mutex over several steps, so each critical section  *)
(* is one action.  A task that calls the executor back is a poster that    *)
(* acts while the worker is at "run".  Tasks are numbered in the order     *)
(* they were pushed.                                                       *)
(***************************************************************************)
EXTENDS Naturals, Sequences, FiniteSets, Functions

CONSTANTS
  Posters,  \* threads that post
  Workers,  \* threads that call ProcessBlocking
  MaxPosts  \* bound: the number of tasks ever pushed

ASSUME MaxPostsAssumption == MaxPosts \in Nat

Task == 1..MaxPosts

VARIABLES
  running_,
  tasks_,
  waiting,       \* the workers blocked on cv_
  woken,         \* those of them that a notification has reached
  poster,        \* where each poster is in Post
  stopper,       \* where the owner is in Stop
  worker,        \* where each worker is in ProcessBlocking
  batch,         \* the local queue of each worker
  seen_running,  \* running_ when the worker last held the mutex
  pushed,        \* history: the number of tasks pushed
  empty,         \* history: the tasks that hold no function
  skipped,       \* history: the empty tasks popped
  ran,           \* history: the tasks run, in the order they were begun
  dropped,       \* history: the tasks destroyed unrun
  entered        \* history: the workers that have called ProcessBlocking

queue   == <<running_, tasks_>>
condvar == <<waiting, woken>>
callers == <<poster, stopper>>
loop    == <<worker, batch, seen_running>>
history == <<pushed, empty, skipped, ran, dropped, entered>>
vars == <<queue, condvar, callers, loop, history>>

WorkerState == {"out", "waiting", "test", "run"}

TypeOK ==
  /\ running_ \in BOOLEAN
  /\ tasks_ \in Seq(Task)
  /\ waiting \subseteq Workers
  /\ woken \subseteq waiting
  /\ poster \in [Posters -> {"idle", "notify"}]
  /\ stopper \in {"idle", "notify", "done"}
  /\ worker \in [Workers -> WorkerState]
  /\ \A w \in Workers : w \in waiting <=> worker[w] = "waiting"
  /\ batch \in [Workers -> Seq(Task)]
  /\ seen_running \in [Workers -> BOOLEAN]
  /\ pushed \in 0..MaxPosts
  /\ empty \subseteq Task
  /\ skipped \subseteq Task
  /\ ran \in Seq(Task)
  /\ dropped \subseteq Task
  /\ entered \subseteq Workers

Init ==
  /\ running_ = TRUE
  /\ tasks_ = <<>>
  /\ waiting = {}
  /\ woken = {}
  /\ poster = [p \in Posters |-> "idle"]
  /\ stopper = "idle"
  /\ worker = [w \in Workers |-> "out"]
  /\ batch = [w \in Workers |-> <<>>]
  /\ seen_running = [w \in Workers |-> TRUE]
  /\ pushed = 0
  /\ empty = {}
  /\ skipped = {}
  /\ ran = <<>>
  /\ dropped = {}
  /\ entered = {}
-----------------------------------------------------------------------------
\* cv_.notify_one(): one of the blocked workers, if there is one.
NotifyOne ==
  IF waiting \ woken = {}
    THEN UNCHANGED woken
    ELSE \E w \in waiting \ woken : woken' = woken \cup {w}

(* Post.  Once the executor is stopped it returns without effect. *)

\* Variant: the newest task first.
PushFront(s, t) == <<t>> \o s

Push(s, t) == Append(s, t)

\* Variant: the poster does not notify.
PostSilently(p, isEmpty) ==
  /\ poster[p] = "idle"
  /\ running_
  /\ pushed < MaxPosts
  /\ tasks_' = Push(tasks_, pushed + 1)
  /\ pushed' = pushed + 1
  /\ empty' = IF isEmpty THEN empty \cup {pushed + 1} ELSE empty
  /\ UNCHANGED <<running_, condvar, callers, loop, skipped, ran, dropped, entered>>

Post(p, isEmpty) ==
  /\ poster[p] = "idle"
  /\ running_
  /\ pushed < MaxPosts
  /\ tasks_' = Push(tasks_, pushed + 1)
  /\ pushed' = pushed + 1
  /\ empty' = IF isEmpty THEN empty \cup {pushed + 1} ELSE empty
  /\ poster' = [poster EXCEPT ![p] = "notify"]
  /\ UNCHANGED <<running_, condvar, stopper, loop, skipped, ran, dropped, entered>>

PostNotify(p) ==
  /\ poster[p] = "notify"
  /\ NotifyOne
  /\ poster' = [poster EXCEPT ![p] = "idle"]
  /\ UNCHANGED <<queue, waiting, stopper, loop, history>>

(* Stop. *)

\* Variant: Stop does not notify.
StopSilently ==
  /\ stopper = "idle"
  /\ running_' = FALSE
  /\ stopper' = "done"
  /\ UNCHANGED <<tasks_, condvar, poster, loop, history>>

Stop ==
  /\ stopper = "idle"
  /\ running_' = FALSE
  /\ stopper' = "notify"
  /\ UNCHANGED <<tasks_, condvar, poster, loop, history>>

StopNotify ==
  /\ stopper = "notify"
  /\ NotifyOne
  /\ stopper' = "done"
  /\ UNCHANGED <<queue, waiting, poster, loop, history>>
-----------------------------------------------------------------------------
(* ProcessBlocking. *)

\* Variant: the wait does not look at the tasks.
ReadyIfStopped == ~running_

Ready == ~running_ \/ tasks_ # <<>>

\* Variant: the tasks are copied, not swapped.
CopyTasks(w) ==
  /\ batch' = [batch EXCEPT ![w] = tasks_]
  /\ seen_running' = [seen_running EXCEPT ![w] = running_]
  /\ worker' = [worker EXCEPT ![w] = "test"]
  /\ UNCHANGED tasks_

\* The worker takes every task, and releases the mutex.
TakeTasks(w) ==
  /\ batch' = [batch EXCEPT ![w] = tasks_]
  /\ tasks_' = <<>>
  /\ seen_running' = [seen_running EXCEPT ![w] = running_]
  /\ worker' = [worker EXCEPT ![w] = "test"]

\* Variant: a worker that goes on leaves its notification behind.
GoOnWoken(w) ==
  /\ Ready
  /\ TakeTasks(w)
  /\ waiting' = waiting \ {w}
  /\ UNCHANGED woken

\* The wait with its predicate, from the call or from a return of the
\* condition variable: the worker goes on if the predicate holds and blocks
\* (again) if it does not.
GoOn(w) ==
  /\ Ready
  /\ TakeTasks(w)
  /\ waiting' = waiting \ {w}
  /\ woken' = woken \ {w}

Block(w) ==
  /\ ~Ready
  /\ worker' = [worker EXCEPT ![w] = "waiting"]
  /\ waiting' = waiting \cup {w}
  /\ woken' = woken \ {w}
  /\ UNCHANGED <<tasks_, batch, seen_running>>

Enter(w) ==
  /\ worker[w] = "out"
  /\ entered' = entered \cup {w}
  /\ GoOn(w) \/ Block(w)
  /\ UNCHANGED <<running_, callers, pushed, empty, skipped, ran, dropped>>

Return(w) ==
  /\ w \in waiting
  /\ GoOn(w) \/ Block(w)
  /\ UNCHANGED <<running_, callers, history>>

Wake(w) == w \in woken /\ Return(w)

\* A condition variable may return without a notification.
SpuriousWake(w) == Return(w)

\* running_ is read without the mutex, so a Stop since the worker last held it
\* may be seen or not.
MaySeeRunning(w) == running_ \/ seen_running[w]
MaySeeStopped(w) == ~running_

BatchDone(w) ==
  /\ worker[w] = "test"
  /\ batch[w] = <<>>
  /\ worker' = [worker EXCEPT ![w] = "out"]
  /\ UNCHANGED <<queue, condvar, callers, batch, seen_running, history>>

TestRunning(w) ==
  /\ worker[w] = "test"
  /\ batch[w] # <<>>
  /\ MaySeeRunning(w)
  /\ worker' = [worker EXCEPT ![w] = "run"]
  /\ UNCHANGED <<queue, condvar, callers, batch, seen_running, history>>

\* The loop is left, and the rest of the local queue destroyed with it.
BreakOff(w) ==
  /\ worker[w] = "test"
  /\ batch[w] # <<>>
  /\ MaySeeStopped(w)
  /\ worker' = [worker EXCEPT ![w] = "out"]
  /\ dropped' = dropped \cup Range(batch[w])
  /\ batch' = [batch EXCEPT ![w] = <<>>]
  /\ UNCHANGED <<queue, condvar, callers, seen_running, pushed, empty, skipped,
                 ran, entered>>

RunTask(w) ==
  /\ worker[w] = "run"
  /\ batch' = [batch EXCEPT ![w] = Tail(@)]
  /\ IF Head(batch[w]) \in empty
       THEN skipped' = skipped \cup {Head(batch[w])} /\ UNCHANGED ran
       ELSE ran' = Append(ran, Head(batch[w])) /\ UNCHANGED skipped
  /\ worker' = [worker EXCEPT ![w] = "test"]
  /\ UNCHANGED <<queue, condvar, callers, seen_running, pushed, empty, dropped,
                 entered>>

WorkerStep(w) ==
  \/ Wake(w) \/ BatchDone(w) \/ TestRunning(w) \/ BreakOff(w) \/ RunTask(w)

Next ==
  \/ \E p \in Posters :
       (\E isEmpty \in BOOLEAN : Post(p, isEmpty)) \/ PostNotify(p)
  \/ Stop \/ StopNotify
  \/ \E w \in Workers : Enter(w) \/ WorkerStep(w) \/ SpuriousWake(w)

Spec == Init /\ [][Next]_vars

\* Every thread that can run does, a call that has begun ends, and a thread
\* that has called ProcessBlocking calls it again: its caller is a loop.
Fairness ==
  /\ \A p \in Posters : WF_vars(PostNotify(p))
  /\ WF_vars(StopNotify)
  /\ \A w \in Workers :
       WF_vars(WorkerStep(w)) /\ WF_vars(w \in entered /\ Enter(w))

FairSpec == Spec /\ Fairness
-----------------------------------------------------------------------------
(* Properties. *)

\* The executor keeps what every executor promises, with any number of
\* workers: nothing is run twice, lost, or dropped before Stop.
Contract == INSTANCE Executor WITH
  Tasks <- Task,
  open <- running_,
  pending <- Range(tasks_) \cup UNION {Range(batch[w]) : w \in Workers},
  settled <- Range(ran) \cup skipped,
  given_up <- dropped
ImplementsExecutor == Contract!Spec

\* No worker sleeps on work: while tasks are queued and a worker is blocked, a
\* notification is on its way, or has woken a worker.
NoLostWakeup ==
  tasks_ # <<>> /\ waiting # {} =>
    woken # {} \/ \E p \in Posters : poster[p] = "notify"

\* With one worker, tasks run in the order they were posted.  (With several,
\* two of them hold consecutive batches at once, and the order is lost.)
OneWorkerIsFifo ==
  Cardinality(entered) <= 1 =>
    \A i, j \in DOMAIN ran : i < j => ran[i] < ran[j]

\* An accepted task does run, unless the executor is stopped, once a worker
\* serves it.
AcceptedTaskRuns ==
  \A t \in Task :
    (t <= pushed /\ entered # {} /\ running_)
      ~> (t \in Range(ran) \cup skipped \/ ~running_)

\* Stop releases the worker that is blocked in ProcessBlocking, if it is alone.
\* (Stop notifies once: of several blocked workers it releases one.)
StopReleasesWorker ==
  \A w \in Workers :
    (~running_ /\ w \in waiting /\ entered = {w})
      ~> (w \notin waiting \/ entered # {w})
=============================================================================
