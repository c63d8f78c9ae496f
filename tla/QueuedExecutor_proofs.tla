------------------------ MODULE QueuedExecutor_proofs ------------------------
(***************************************************************************)
(* Proofs of the safety properties of QueuedExecutor, and that it keeps    *)
(* the promise of Executor, for any posters, any workers and any number of *)
(* tasks.                                                                  *)
(***************************************************************************)
EXTENDS QueuedExecutor, SequenceLemmas, FiniteSetTheorems

-----------------------------------------------------------------------------
(* Type correctness. *)

\* A task is run by a worker that has one left.
BatchesMatchWorkers ==
  \A w \in Workers :
    /\ worker[w] \in {"out", "waiting"} => batch[w] = <<>>
    /\ worker[w] = "run" => batch[w] # <<>>

LEMMA TypeStep == TypeOK /\ BatchesMatchWorkers /\ [Next]_vars => TypeOK'
<1> SUFFICES ASSUME TypeOK, BatchesMatchWorkers, [Next]_vars PROVE TypeOK'
  OBVIOUS
<1> USE MaxPostsAssumption DEF TypeOK, queue, condvar, callers, loop, history,
        WorkerState
<1>1. ASSUME NEW p \in Posters, NEW isEmpty \in BOOLEAN, Post(p, isEmpty)
      PROVE  TypeOK'
  <2>1. pushed + 1 \in Task /\ pushed + 1 \in 0..MaxPosts
    BY <1>1 DEF Post, Task
  <2>2. tasks_' \in Seq(Task)
    BY <1>1, <2>1, AppendProperties DEF Post, Push
  <2>3. empty' \subseteq Task
    BY <1>1, <2>1 DEF Post
  <2> QED
    BY <1>1, <2>1, <2>2, <2>3 DEF Post
<1>2. ASSUME NEW p \in Posters, PostNotify(p) PROVE TypeOK'
  BY <1>2 DEF PostNotify, NotifyOne
<1>3. CASE Stop
  BY <1>3 DEF Stop
<1>4. CASE StopNotify
  BY <1>4 DEF StopNotify, NotifyOne
<1>5. ASSUME NEW w \in Workers, GoOn(w) \/ Block(w),
             UNCHANGED <<running_, callers, pushed, empty, skipped, ran, dropped>>,
             entered' \subseteq Workers
      PROVE  TypeOK'
  <2>1. <<>> \in Seq(Task)
    OBVIOUS
  <2>2. CASE GoOn(w)
    BY <1>5, <2>1, <2>2 DEF GoOn, TakeTasks
  <2>3. CASE Block(w)
    BY <1>5, <2>3 DEF Block
  <2> QED
    BY <1>5, <2>2, <2>3
<1>6. ASSUME NEW w \in Workers, Enter(w) PROVE TypeOK'
  BY <1>5, <1>6 DEF Enter
<1>7. ASSUME NEW w \in Workers, Return(w) PROVE TypeOK'
  BY <1>5, <1>7 DEF Return
<1>8. ASSUME NEW w \in Workers, BatchDone(w) PROVE TypeOK'
  BY <1>8 DEF BatchDone
<1>9. ASSUME NEW w \in Workers, TestRunning(w) PROVE TypeOK'
  BY <1>9 DEF TestRunning
<1>10. ASSUME NEW w \in Workers, BreakOff(w) PROVE TypeOK'
  <2>1. Range(batch[w]) \subseteq Task
    BY RangeOfSeq
  <2> QED
    BY <1>10, <2>1 DEF BreakOff
<1>11. ASSUME NEW w \in Workers, RunTask(w) PROVE TypeOK'
  <2>1. /\ Head(batch[w]) \in Task
        /\ Tail(batch[w]) \in Seq(Task)
    BY <1>11, RangeOfTail DEF RunTask, BatchesMatchWorkers
  <2>2. ran' \in Seq(Task) /\ skipped' \subseteq Task
    <3>1. Append(ran, Head(batch[w])) \in Seq(Task)
      BY <2>1, AppendProperties
    <3> QED
      BY <1>11, <2>1, <3>1 DEF RunTask
  <2>3. batch' \in [Workers -> Seq(Task)] /\ worker' \in [Workers -> WorkerState]
    BY <1>11, <2>1 DEF RunTask
  <2>4. \A v \in Workers : v \in waiting' <=> worker'[v] = "waiting"
    BY <1>11 DEF RunTask
  <2> QED
    BY <1>11, <2>2, <2>3, <2>4 DEF RunTask
<1>12. CASE UNCHANGED vars
  BY <1>12 DEF vars
<1> QED
  BY <1>1, <1>2, <1>3, <1>4, <1>6, <1>7, <1>8, <1>9, <1>10, <1>11, <1>12
     DEF Next, WorkerStep, Wake, SpuriousWake
-----------------------------------------------------------------------------
(* The wakeups. *)

\* NoLostWakeup needs no more than the types: a notification that is still to
\* come, or that has woken a worker, covers every task in the queue, and who
\* takes the notification back empties the queue or has found it empty.
LEMMA WakeupStep == TypeOK /\ NoLostWakeup /\ [Next]_vars => NoLostWakeup'
<1> SUFFICES ASSUME TypeOK, NoLostWakeup, [Next]_vars PROVE NoLostWakeup'
  OBVIOUS
<1> USE DEF NoLostWakeup, queue, condvar, callers, loop, history
<1>1. ASSUME NEW p \in Posters, NEW isEmpty \in BOOLEAN, Post(p, isEmpty)
      PROVE  NoLostWakeup'
  BY <1>1 DEF Post, TypeOK
<1>2. ASSUME NotifyOne, UNCHANGED waiting PROVE NoLostWakeup'
  BY <1>2 DEF NotifyOne, TypeOK
<1>3. ASSUME NEW p \in Posters, PostNotify(p) PROVE NoLostWakeup'
  BY <1>2, <1>3 DEF PostNotify
<1>4. CASE Stop
  BY <1>4 DEF Stop
<1>5. CASE StopNotify
  BY <1>2, <1>5 DEF StopNotify
<1>6. ASSUME NEW w \in Workers, GoOn(w) PROVE NoLostWakeup'
  BY <1>6 DEF GoOn, TakeTasks
<1>7. ASSUME NEW w \in Workers, Block(w) PROVE NoLostWakeup'
  BY <1>7 DEF Block, Ready
<1>8. ASSUME NEW w \in Workers, Enter(w) \/ Return(w) PROVE NoLostWakeup'
  BY <1>6, <1>7, <1>8 DEF Enter, Return
<1>9. ASSUME NEW w \in Workers,
             BatchDone(w) \/ TestRunning(w) \/ BreakOff(w) \/ RunTask(w)
      PROVE  NoLostWakeup'
  BY <1>9 DEF BatchDone, TestRunning, BreakOff, RunTask
<1>10. CASE UNCHANGED vars
  BY <1>10 DEF vars
<1> QED
  BY <1>1, <1>3, <1>4, <1>5, <1>8, <1>9, <1>10 DEF Next, WorkerStep, Wake, SpuriousWake
-----------------------------------------------------------------------------
(* The order of the tasks. *)

Before(S, T) == \A s \in S, t \in T : s < t

\* A worker past its call has entered, and the workers are counted.
WorkersHaveEntered ==
  /\ IsFiniteSet(entered)
  /\ \A w \in Workers : worker[w] # "out" => w \in entered

\* What has been pushed is what there is.
OnlyPushedTasks ==
  /\ Range(tasks_) \subseteq 1..pushed
  /\ \A w \in Workers : Range(batch[w]) \subseteq 1..pushed
  /\ Range(ran) \subseteq 1..pushed
  /\ skipped \subseteq 1..pushed
  /\ dropped \subseteq 1..pushed

\* Each queue is in the order of the posts, a batch is older than what was
\* posted since it was taken, and no task is in two batches.
QueuesInOrder ==
  /\ Increasing(tasks_)
  /\ \A w \in Workers :
       /\ Increasing(batch[w])
       /\ Before(Range(batch[w]), Range(tasks_))
       /\ \A v \in Workers : v # w => Range(batch[v]) \cap Range(batch[w]) = {}

\* While one worker has entered, what it has run is older than what it has.
RanInOrder ==
  (\A v, w \in entered : v = w) =>
    /\ Increasing(ran)
    /\ Before(Range(ran), Range(tasks_))
    /\ \A w \in Workers : Before(Range(ran), Range(batch[w]))

OrderInv ==
  /\ TypeOK
  /\ BatchesMatchWorkers
  /\ WorkersHaveEntered
  /\ OnlyPushedTasks
  /\ QueuesInOrder
  /\ RanInOrder

IInv == OrderInv /\ NoLostWakeup

LEMMA TasksAreNumbers == \A s \in Seq(Task) : s \in Seq(Nat)
<1>1. Task \subseteq Nat
  BY DEF Task
<1> QED
  BY <1>1, SeqMonotonic

\* An action that touches no task keeps the order.
LEMMA OrderUntouched ==
  ASSUME OrderInv, TypeOK', BatchesMatchWorkers',
         UNCHANGED <<tasks_, batch, ran, skipped, dropped, pushed, entered>>,
         \A w \in Workers : worker'[w] # "out" => worker[w] # "out" \/ w \in entered
  PROVE  OrderInv'
BY DEF OrderInv, WorkersHaveEntered, OnlyPushedTasks, QueuesInOrder, RanInOrder

\* The next task is larger than all that were pushed, and goes to the back.
LEMMA OrderPost ==
  ASSUME OrderInv, TypeOK', NEW p \in Posters, NEW isEmpty \in BOOLEAN,
         Post(p, isEmpty)
  PROVE  OrderInv'
<1> USE DEF OrderInv, loop
<1> DEFINE t == pushed + 1
<1>1. /\ t \in Task /\ t \in Nat /\ pushed \in Nat
      /\ tasks_' = Append(tasks_, t) /\ pushed' = t
      /\ UNCHANGED <<worker, batch, ran, skipped, dropped, entered>>
  BY MaxPostsAssumption DEF TypeOK, Post, Push, Task
<1>2. Range(tasks_') = Range(tasks_) \cup {t}
  BY <1>1, RangeOfAppend DEF TypeOK
<1>3. 1..pushed \subseteq 1..t /\ t \in 1..t /\ \A u \in 1..pushed : u < t
  BY <1>1
<1>4. OnlyPushedTasks'
  BY <1>1, <1>2, <1>3 DEF OnlyPushedTasks
<1>5. QueuesInOrder'
  <2>1. Increasing(tasks_')
    <3>1. tasks_ \in Seq(Nat)
      BY TasksAreNumbers DEF TypeOK
    <3>2. Increasing(tasks_) /\ \A u \in Range(tasks_) : u < t
      BY <1>3 DEF QueuesInOrder, OnlyPushedTasks
    <3> QED
      BY <1>1, <3>1, <3>2, IncreasingAppend
  <2>2. \A w \in Workers : Before(Range(batch[w]), Range(tasks_'))
    BY <1>2, <1>3 DEF QueuesInOrder, OnlyPushedTasks, Before
  <2> QED
    BY <1>1, <2>1, <2>2 DEF QueuesInOrder
<1>6. RanInOrder'
  BY <1>1, <1>2, <1>3 DEF RanInOrder, OnlyPushedTasks, Before
<1>7. BatchesMatchWorkers' /\ WorkersHaveEntered'
  BY <1>1 DEF BatchesMatchWorkers, WorkersHaveEntered
<1> QED
  BY <1>4, <1>5, <1>6, <1>7

\* A worker on its way into ProcessBlocking, or out of the wait, has no batch.
\* The one that goes on takes the queue as it is.
LEMMA OrderWait ==
  ASSUME OrderInv, TypeOK', BatchesMatchWorkers',
         NEW w \in Workers, worker[w] \in {"out", "waiting"},
         GoOn(w) \/ Block(w), entered' = entered \cup {w},
         UNCHANGED <<ran, skipped, dropped, pushed>>
  PROVE  OrderInv'
<1> USE DEF OrderInv
<1>1. batch[w] = <<>>
  BY DEF BatchesMatchWorkers
<1>2. \A v \in Workers : v # w => worker'[v] = worker[v]
  BY DEF GoOn, TakeTasks, Block, TypeOK
<1>3. WorkersHaveEntered'
  BY <1>2, FS_AddElement DEF WorkersHaveEntered
<1>4. CASE GoOn(w)
  <2>1. /\ tasks_' = <<>> /\ Range(tasks_') = {} /\ Increasing(tasks_')
        /\ batch'[w] = tasks_
        /\ \A v \in Workers : v # w => batch'[v] = batch[v]
    BY <1>4, EmptyQueue DEF GoOn, TakeTasks, TypeOK
  <2>2. OnlyPushedTasks'
    BY <2>1 DEF OnlyPushedTasks
  <2>3. \A v \in Workers : Range(batch[v]) \cap Range(tasks_) = {}
    <3>1. \A u \in 1..pushed : ~ (u < u)
      OBVIOUS
    <3> QED
      BY <3>1 DEF QueuesInOrder, OnlyPushedTasks, Before
  <2>4. QueuesInOrder'
    <3> SUFFICES ASSUME NEW u \in Workers
                 PROVE  /\ Increasing(batch'[u])
                        /\ Before(Range(batch'[u]), Range(tasks_'))
                        /\ \A v \in Workers :
                             v # u => Range(batch'[v]) \cap Range(batch'[u]) = {}
      BY <2>1 DEF QueuesInOrder
    <3>1. Before(Range(batch'[u]), Range(tasks_'))
      BY <2>1 DEF Before
    <3>2. CASE u = w
      BY <2>1, <2>3, <3>1, <3>2 DEF QueuesInOrder
    <3>3. CASE u # w
      BY <2>1, <2>3, <3>1, <3>3 DEF QueuesInOrder
    <3> QED
      BY <3>2, <3>3
  <2>5. RanInOrder'
    BY <2>1 DEF RanInOrder, Before
  <2> QED
    BY <1>3, <2>2, <2>4, <2>5
<1>5. CASE Block(w)
  <2>1. UNCHANGED <<tasks_, batch>>
    BY <1>5 DEF Block
  <2>2. OnlyPushedTasks' /\ QueuesInOrder' /\ RanInOrder'
    BY <2>1 DEF OnlyPushedTasks, QueuesInOrder, RanInOrder
  <2> QED
    BY <1>3, <2>2
<1> QED
  BY <1>4, <1>5

\* The head of a batch is older than all that is left anywhere.
LEMMA OrderRun ==
  ASSUME OrderInv, TypeOK', BatchesMatchWorkers', NEW w \in Workers, RunTask(w)
  PROVE  OrderInv'
<1> USE DEF OrderInv
<1> DEFINE t == Head(batch[w])
<1> DEFINE rest == Tail(batch[w])
<1>1. /\ batch[w] \in Seq(Nat) /\ batch[w] \in Seq(Task) /\ batch[w] # <<>>
      /\ ran \in Seq(Task) /\ ran \in Seq(Nat)
  BY TasksAreNumbers DEF RunTask, TypeOK, BatchesMatchWorkers
<1>2. /\ t \in Nat /\ t \in Task
      /\ Range(batch[w]) = {t} \cup Range(rest)
      /\ Increasing(rest)
      /\ \A u \in Range(rest) : t < u
  BY <1>1, RangeOfTail, IncreasingTail DEF QueuesInOrder
<1>3. /\ batch'[w] = rest
      /\ \A v \in Workers : v # w => batch'[v] = batch[v]
      /\ UNCHANGED <<tasks_, pushed, dropped, entered>>
  BY DEF RunTask, TypeOK, queue
<1> HIDE DEF t, rest
<1>4. /\ skipped' \in {skipped, skipped \cup {t}}
      /\ ran' \in {ran, Append(ran, t)}
  BY DEF RunTask, t
<1>5. Range(Append(ran, t)) = Range(ran) \cup {t}
  BY <1>1, <1>2, RangeOfAppend
<1>6. OnlyPushedTasks'
  BY <1>2, <1>3, <1>4, <1>5 DEF OnlyPushedTasks
<1>7. QueuesInOrder'
  BY <1>2, <1>3 DEF QueuesInOrder, Before
<1>8. RanInOrder'
  <2> SUFFICES ASSUME \A u, v \in entered : u = v
               PROVE  /\ Increasing(ran')
                      /\ Before(Range(ran'), Range(tasks_))
                      /\ \A v \in Workers : Before(Range(ran'), Range(batch'[v]))
    BY <1>3 DEF RanInOrder
  <2>1. /\ Increasing(ran)
        /\ Before(Range(ran), Range(tasks_))
        /\ \A v \in Workers : Before(Range(ran), Range(batch[v]))
    BY DEF RanInOrder
  <2>2. \A u \in Range(ran) : u < t
    BY <1>2, <2>1 DEF Before
  <2>3. Increasing(ran')
    BY <1>1, <1>2, <1>4, <2>1, <2>2, IncreasingAppend
  <2>4. Before(Range(ran'), Range(tasks_))
    BY <1>2, <1>4, <1>5, <2>1 DEF QueuesInOrder, Before
  <2>5. ASSUME NEW v \in Workers PROVE Before(Range(ran'), Range(batch'[v]))
    <3>1. CASE v = w
      BY <1>2, <1>3, <1>4, <1>5, <2>1, <3>1 DEF Before
    <3>2. CASE v # w
      <4>1. worker[v] = "out"
        BY <3>2 DEF WorkersHaveEntered, RunTask
      <4>2. batch'[v] = <<>>
        BY <1>3, <3>2, <4>1 DEF BatchesMatchWorkers
      <4> QED
        BY <4>2, EmptyQueue DEF Before
    <3> QED
      BY <3>1, <3>2
  <2> QED
    BY <2>3, <2>4, <2>5
<1>9. WorkersHaveEntered'
  <2>1. \A v \in Workers : worker'[v] # "out" => worker[v] # "out"
    BY DEF RunTask, TypeOK
  <2> QED
    BY <1>3, <2>1 DEF WorkersHaveEntered
<1> QED
  BY <1>6, <1>7, <1>8, <1>9

\* A batch that is broken off is given up as a whole.
LEMMA OrderBreakOff ==
  ASSUME OrderInv, TypeOK', BatchesMatchWorkers', NEW w \in Workers, BreakOff(w)
  PROVE  OrderInv'
<1> USE DEF OrderInv
<1>1. /\ batch'[w] = <<>> /\ Range(batch'[w]) = {} /\ Increasing(batch'[w])
      /\ \A v \in Workers : v # w => batch'[v] = batch[v]
      /\ dropped' = dropped \cup Range(batch[w])
      /\ UNCHANGED <<tasks_, pushed, ran, skipped, entered>>
  BY EmptyQueue DEF BreakOff, TypeOK, queue
<1>2. OnlyPushedTasks'
  BY <1>1 DEF OnlyPushedTasks
<1>3. QueuesInOrder'
  BY <1>1 DEF QueuesInOrder, Before
<1>4. RanInOrder'
  BY <1>1 DEF RanInOrder, Before
<1>5. WorkersHaveEntered'
  <2>1. \A v \in Workers : worker'[v] # "out" => worker[v] # "out"
    BY DEF BreakOff, TypeOK
  <2> QED
    BY <1>1, <2>1 DEF WorkersHaveEntered
<1> QED
  BY <1>2, <1>3, <1>4, <1>5

\* Where a worker is and what it has left agree after every step.
LEMMA BatchesStep ==
  TypeOK /\ BatchesMatchWorkers /\ [Next]_vars => BatchesMatchWorkers'
<1> SUFFICES ASSUME TypeOK, BatchesMatchWorkers, [Next]_vars
             PROVE  BatchesMatchWorkers'
  OBVIOUS
<1> USE DEF BatchesMatchWorkers, TypeOK
<1>1. ASSUME UNCHANGED loop PROVE BatchesMatchWorkers'
  BY <1>1 DEF loop
<1>2. ASSUME NEW p \in Posters,
             (\E isEmpty \in BOOLEAN : Post(p, isEmpty)) \/ PostNotify(p)
      PROVE  BatchesMatchWorkers'
  BY <1>1, <1>2 DEF Post, PostNotify
<1>3. CASE Stop \/ StopNotify \/ UNCHANGED vars
  BY <1>1, <1>3 DEF Stop, StopNotify, vars
<1>4. ASSUME NEW w \in Workers, Enter(w) \/ Return(w) PROVE BatchesMatchWorkers'
  BY <1>4 DEF Enter, Return, GoOn, TakeTasks, Block
<1>5. ASSUME NEW w \in Workers, BatchDone(w) \/ TestRunning(w)
      PROVE  BatchesMatchWorkers'
  BY <1>5 DEF BatchDone, TestRunning
<1>6. ASSUME NEW w \in Workers, BreakOff(w) \/ RunTask(w)
      PROVE  BatchesMatchWorkers'
  BY <1>6 DEF BreakOff, RunTask
<1> QED
  BY <1>2, <1>3, <1>4, <1>5, <1>6 DEF Next, WorkerStep, Wake, SpuriousWake
-----------------------------------------------------------------------------
LEMMA InitInv == Init => IInv
<1> SUFFICES ASSUME Init PROVE IInv
  OBVIOUS
<1> USE DEF Init
<1>1. TypeOK /\ BatchesMatchWorkers
  BY MaxPostsAssumption DEF TypeOK, BatchesMatchWorkers, WorkerState
<1>2. WorkersHaveEntered
  BY FS_EmptySet DEF WorkersHaveEntered
<1>3. OnlyPushedTasks
  BY EmptyQueue DEF OnlyPushedTasks
<1>4. QueuesInOrder /\ RanInOrder
  BY EmptyQueue DEF QueuesInOrder, RanInOrder, Before
<1>5. NoLostWakeup
  BY DEF NoLostWakeup
<1> QED
  BY <1>1, <1>2, <1>3, <1>4, <1>5 DEF IInv, OrderInv

LEMMA InvStep == IInv /\ [Next]_vars => IInv'
<1> SUFFICES ASSUME IInv, [Next]_vars PROVE OrderInv'
  BY WakeupStep DEF IInv, OrderInv
<1>1. OrderInv /\ TypeOK /\ BatchesMatchWorkers
  BY DEF IInv, OrderInv
<1>2. TypeOK' /\ BatchesMatchWorkers'
  BY <1>1, TypeStep, BatchesStep
<1>3. ASSUME NEW p \in Posters, NEW isEmpty \in BOOLEAN, Post(p, isEmpty)
      PROVE  OrderInv'
  BY <1>1, <1>2, <1>3, OrderPost
<1>4. ASSUME NEW p \in Posters, PostNotify(p) PROVE OrderInv'
  BY <1>1, <1>2, <1>4, OrderUntouched DEF PostNotify, queue, loop, history
<1>5. CASE Stop \/ StopNotify \/ UNCHANGED vars
  BY <1>1, <1>2, <1>5, OrderUntouched
     DEF Stop, StopNotify, vars, queue, loop, history
<1>6. ASSUME NEW w \in Workers, Enter(w) PROVE OrderInv'
  BY <1>1, <1>2, <1>6, OrderWait DEF Enter
<1>7. ASSUME NEW w \in Workers, Return(w) PROVE OrderInv'
  <2>1. worker[w] = "waiting"
    BY <1>1, <1>7 DEF Return, TypeOK
  <2>2. entered' = entered \cup {w} /\ UNCHANGED <<ran, skipped, dropped, pushed>>
    BY <1>1, <1>7, <2>1 DEF Return, OrderInv, WorkersHaveEntered, history
  <2> QED
    BY <1>1, <1>2, <1>7, <2>1, <2>2, OrderWait DEF Return
<1>8. ASSUME NEW w \in Workers, BatchDone(w) \/ TestRunning(w) PROVE OrderInv'
  <2>1. /\ UNCHANGED <<tasks_, batch, ran, skipped, dropped, pushed, entered>>
        /\ \A v \in Workers : worker'[v] # "out" => worker[v] # "out"
    BY <1>1, <1>8 DEF BatchDone, TestRunning, TypeOK, queue, history
  <2> QED
    BY <1>1, <1>2, <2>1, OrderUntouched
<1>9. ASSUME NEW w \in Workers, BreakOff(w) PROVE OrderInv'
  BY <1>1, <1>2, <1>9, OrderBreakOff
<1>10. ASSUME NEW w \in Workers, RunTask(w) PROVE OrderInv'
  BY <1>1, <1>2, <1>10, OrderRun
<1> QED
  BY <1>3, <1>4, <1>5, <1>6, <1>7, <1>8, <1>9, <1>10
     DEF Next, WorkerStep, Wake, SpuriousWake

\* The inductive invariant holds in every reachable state.
THEOREM Invariance == Spec => []IInv
BY InitInv, InvStep, PTL DEF Spec
-----------------------------------------------------------------------------
(* The properties that the runs check. *)

\* The variables keep their types, whatever is posted and whoever serves it
\* (queued_executor.hpp, the members).
THEOREM TypesAreKept == Spec => []TypeOK
<1>1. IInv => TypeOK
  BY DEF IInv, OrderInv
<1> QED
  BY <1>1, Invariance, PTL

\* No worker sleeps on work: Post notifies after it has released the mutex
\* (queued_executor.cpp, Post), and in between a worker may take the task, or
\* go to sleep; a task that is still queued has a notification to come.
THEOREM NoWakeupIsLost == Spec => []NoLostWakeup
<1>1. IInv => NoLostWakeup
  BY DEF IInv
<1> QED
  BY <1>1, Invariance, PTL

\* A worker that is alone runs the tasks in the order they were posted, over
\* all the batches it takes (queued_executor.cpp, ProcessBlocking).
THEOREM OneWorkerRunsInOrder == Spec => []OneWorkerIsFifo
<1>1. IInv => OneWorkerIsFifo
  <2> SUFFICES ASSUME IInv, Cardinality(entered) <= 1
               PROVE  \A i, j \in DOMAIN ran : i < j => ran[i] < ran[j]
    BY DEF OneWorkerIsFifo
  <2>1. \A v, w \in entered : v = w
    <3>1. IsFiniteSet(entered)
      BY DEF IInv, OrderInv, WorkersHaveEntered
    <3> SUFFICES ASSUME NEW v \in entered, NEW w \in entered, v # w PROVE FALSE
      OBVIOUS
    <3>2. {v, w} \subseteq entered
      OBVIOUS
    <3>3. Cardinality({v, w}) = 2
      <4>1. IsFiniteSet({v}) /\ Cardinality({v}) = 1
        BY FS_Singleton
      <4>2. Cardinality({v} \cup {w}) = Cardinality({v}) + 1
        BY <4>1, FS_AddElement
      <4>3. {v} \cup {w} = {v, w}
        OBVIOUS
      <4> QED
        BY <4>1, <4>2, <4>3
    <3>4. Cardinality({v, w}) <= Cardinality(entered) /\ Cardinality(entered) \in Nat
      BY <3>1, <3>2, FS_Subset, FS_CardinalityType
    <3> QED
      BY <3>3, <3>4
  <2> QED
    BY <2>1 DEF IInv, OrderInv, RanInOrder, Increasing
<1> QED
  BY <1>1, Invariance, PTL
-----------------------------------------------------------------------------
(* The promise of Executor is kept, step by step. *)

Held == UNION {Range(batch[w]) : w \in Workers}
Pending == Range(tasks_) \cup Held
Settled == Range(ran) \cup skipped

\* A step that moves no task, or moves tasks between the queue and a batch, is
\* no step of the contract.
LEMMA PendingUntouched ==
  ASSUME UNCHANGED <<tasks_, batch, ran, skipped, dropped>>
  PROVE  UNCHANGED <<Pending, Settled, dropped>>
BY DEF Pending, Held, Settled

LEMMA PendingWait ==
  ASSUME TypeOK, NEW w \in Workers, batch[w] = <<>>, GoOn(w) \/ Block(w),
         UNCHANGED <<ran, skipped, dropped>>
  PROVE  UNCHANGED <<Pending, Settled, dropped>>
<1>1. CASE GoOn(w)
  <2>1. /\ Range(tasks_') = {} /\ Range(batch[w]) = {}
        /\ batch'[w] = tasks_
        /\ \A v \in Workers : v # w => batch'[v] = batch[v]
    BY <1>1, EmptyQueue DEF GoOn, TakeTasks, TypeOK
  <2>2. Held \subseteq Held' /\ Range(tasks_) \subseteq Held'
    BY <2>1 DEF Held
  <2>3. Held' \subseteq Held \cup Range(tasks_)
    BY <2>1 DEF Held
  <2> QED
    BY <2>1, <2>2, <2>3 DEF Pending, Settled
<1>2. CASE Block(w)
  BY <1>2, PendingUntouched DEF Block
<1> QED
  BY <1>1, <1>2

LEMMA PostAccepts ==
  ASSUME IInv, NEW p \in Posters, NEW isEmpty \in BOOLEAN, Post(p, isEmpty)
  PROVE  Contract!Accept(pushed + 1) /\ pushed + 1 \in Task
<1> DEFINE t == pushed + 1
<1>1. /\ t \in Task /\ running_ /\ pushed \in Nat
      /\ tasks_' = Append(tasks_, t) /\ tasks_ \in Seq(Task)
      /\ UNCHANGED <<running_, batch, ran, skipped, dropped>>
  BY MaxPostsAssumption DEF IInv, OrderInv, TypeOK, Post, Push, Task, loop
<1>2. t \notin 1..pushed
  BY <1>1
<1>3. t \notin Pending \cup Settled \cup dropped
  BY <1>2 DEF IInv, OrderInv, OnlyPushedTasks, Pending, Held, Settled
<1>4. Pending' = Pending \cup {t} /\ Settled' = Settled
  BY <1>1, RangeOfAppend DEF Pending, Held, Settled
<1> QED
  BY <1>1, <1>3, <1>4, Zenon DEF Contract!Accept, Pending, Held, Settled

LEMMA RunSettles ==
  ASSUME IInv, NEW w \in Workers, RunTask(w)
  PROVE  Contract!Settle(Head(batch[w])) /\ Head(batch[w]) \in Task
<1> DEFINE t == Head(batch[w])
<1> DEFINE rest == Tail(batch[w])
<1> USE DEF IInv, OrderInv
<1>1. /\ batch[w] \in Seq(Nat) /\ batch[w] \in Seq(Task) /\ batch[w] # <<>>
      /\ ran \in Seq(Task)
  BY TasksAreNumbers DEF RunTask, TypeOK, BatchesMatchWorkers
<1>2. /\ t \in Task /\ t \in Nat
      /\ Range(batch[w]) = {t} \cup Range(rest)
      /\ \A u \in Range(rest) : t < u
  BY <1>1, RangeOfTail, IncreasingTail DEF QueuesInOrder
<1>3. /\ batch'[w] = rest
      /\ \A v \in Workers : v # w => batch'[v] = batch[v]
      /\ UNCHANGED <<running_, tasks_, dropped>>
  BY DEF RunTask, TypeOK, queue
<1>4. /\ skipped' \in {skipped, skipped \cup {t}}
      /\ ran' \in {ran, Append(ran, t)}
      /\ skipped' = skipped \cup {t} \/ ran' = Append(ran, t)
  BY DEF RunTask
<1> HIDE DEF t, rest
<1>5. Settled' = Settled \cup {t}
  <2>1. Range(Append(ran, t)) = Range(ran) \cup {t}
    BY <1>1, <1>2, RangeOfAppend
  <2> QED
    BY <1>4, <2>1 DEF Settled
<1>6. t \notin Range(rest) /\ t \notin Range(tasks_)
  BY <1>2 DEF QueuesInOrder, Before
<1>7. \A v \in Workers : v # w => t \notin Range(batch[v])
  BY <1>2 DEF QueuesInOrder
<1>8. t \in Held
  BY <1>2 DEF Held
<1>9. Held' = Held \ {t}
  <2>1. \A v \in Workers : Range(batch'[v]) = Range(batch[v]) \ {t}
    BY <1>2, <1>3, <1>6, <1>7
  <2> QED
    BY <2>1 DEF Held
<1>10. t \in Pending /\ Pending' = Pending \ {t}
  BY <1>3, <1>6, <1>8, <1>9 DEF Pending
<1>11. Contract!Settle(t)
  BY <1>3, <1>5, <1>10, Zenon DEF Contract!Settle, Pending, Held, Settled
<1> QED
  BY <1>2, <1>11 DEF t

LEMMA BreakOffGivesUp ==
  ASSUME IInv, NEW w \in Workers, BreakOff(w)
  PROVE  Contract!GiveUp
<1> USE DEF IInv, OrderInv
<1>1. /\ ~running_ /\ Range(batch'[w]) = {}
      /\ \A v \in Workers : v # w => batch'[v] = batch[v]
      /\ dropped' = dropped \cup Range(batch[w])
      /\ UNCHANGED <<running_, tasks_, ran, skipped>>
  BY EmptyQueue DEF BreakOff, MaySeeStopped, TypeOK, queue
<1>2. Range(batch[w]) \in SUBSET Pending
  BY DEF Pending, Held
<1>3. Pending' = Pending \ Range(batch[w])
  <2>1. Range(batch[w]) \cap Range(tasks_) = {}
    <3>1. \A u \in 1..pushed : ~ (u < u)
      OBVIOUS
    <3> QED
      BY <3>1 DEF QueuesInOrder, OnlyPushedTasks, Before
  <2>2. \A v \in Workers : Range(batch'[v]) = Range(batch[v]) \ Range(batch[w])
    BY <1>1 DEF QueuesInOrder
  <2>3. Held' = Held \ Range(batch[w])
    BY <2>2 DEF Held
  <2> QED
    BY <1>1, <2>1, <2>3 DEF Pending
<1>4. Settled' = Settled
  BY <1>1 DEF Settled
<1> QED
  BY <1>1, <1>2, <1>3, <1>4, Zenon DEF Contract!GiveUp, Pending, Held, Settled

LEMMA ContractInit == Init => Contract!Init
<1> SUFFICES ASSUME Init PROVE Contract!Init
  OBVIOUS
<1>1. Pending = {} /\ Settled = {} /\ running_ /\ dropped = {}
  BY EmptyQueue DEF Init, Pending, Held, Settled
<1> QED
  BY <1>1 DEF Init, Contract!Init, Pending, Held, Settled

LEMMA ContractStep == IInv /\ [Next]_vars => [Contract!Next]_(Contract!vars)
<1> SUFFICES ASSUME IInv, [Next]_vars PROVE [Contract!Next]_(Contract!vars)
  OBVIOUS
<1>1. TypeOK /\ BatchesMatchWorkers
  BY DEF IInv, OrderInv
<1>2. ASSUME UNCHANGED <<running_, Pending, Settled, dropped>>
      PROVE  UNCHANGED Contract!vars
  BY <1>2 DEF Contract!vars, Pending, Held, Settled
<1>3. ASSUME NEW p \in Posters, NEW isEmpty \in BOOLEAN, Post(p, isEmpty)
      PROVE  Contract!Next
  BY <1>3, PostAccepts DEF Contract!Next
<1>4. ASSUME NEW p \in Posters, PostNotify(p) PROVE UNCHANGED Contract!vars
  BY <1>2, <1>4, PendingUntouched DEF PostNotify, queue, loop, history
<1>5. CASE Stop
  <2>1. running_' = FALSE /\ UNCHANGED <<Pending, Settled, dropped>>
    BY <1>5, PendingUntouched DEF Stop, loop, history
  <2>2. Contract!Close
    BY <2>1 DEF Contract!Close, Pending, Held, Settled
  <2> QED
    BY <2>2 DEF Contract!Next
<1>6. CASE StopNotify
  BY <1>2, <1>6, PendingUntouched DEF StopNotify, queue, loop, history
<1>7. ASSUME NEW w \in Workers, Enter(w) PROVE UNCHANGED Contract!vars
  <2>1. batch[w] = <<>>
    BY <1>1, <1>7 DEF Enter, BatchesMatchWorkers
  <2> QED
    BY <1>1, <1>2, <1>7, <2>1, PendingWait DEF Enter
<1>8. ASSUME NEW w \in Workers, Return(w) PROVE UNCHANGED Contract!vars
  <2>1. batch[w] = <<>>
    BY <1>1, <1>8 DEF Return, BatchesMatchWorkers, TypeOK
  <2> QED
    BY <1>1, <1>2, <1>8, <2>1, PendingWait DEF Return, history
<1>9. ASSUME NEW w \in Workers, BatchDone(w) \/ TestRunning(w)
      PROVE  UNCHANGED Contract!vars
  BY <1>2, <1>9, PendingUntouched DEF BatchDone, TestRunning, queue, history
<1>10. ASSUME NEW w \in Workers, BreakOff(w) PROVE Contract!Next
  BY <1>10, BreakOffGivesUp DEF Contract!Next
<1>11. ASSUME NEW w \in Workers, RunTask(w) PROVE Contract!Next
  BY <1>11, RunSettles DEF Contract!Next
<1>12. CASE UNCHANGED vars
  BY <1>2, <1>12, PendingUntouched DEF vars, queue, loop, history
<1> QED
  BY <1>3, <1>4, <1>5, <1>6, <1>7, <1>8, <1>9, <1>10, <1>11, <1>12
     DEF Next, WorkerStep, Wake, SpuriousWake

\* The queued executor implements Executor: a task that Post accepted is run or
\* skipped at most once, by one worker, and none is dropped before Stop
\* (queued_executor.cpp, Post, Stop and ProcessBlocking).
THEOREM ExecutorIsImplemented == Spec => ImplementsExecutor
<1>1. Init => Contract!Init
  BY ContractInit
<1>2. IInv /\ [Next]_vars => [Contract!Next]_(Contract!vars)
  BY ContractStep
<1> QED
  BY <1>1, <1>2, Invariance, PTL DEF Spec, ImplementsExecutor, Contract!Spec
=============================================================================
