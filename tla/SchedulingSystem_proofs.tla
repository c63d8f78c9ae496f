----------------------- MODULE SchedulingSystem_proofs -----------------------
(***************************************************************************)
(* Proofs of the safety properties of SchedulingSystem, for any set of     *)
(* clients, any number of tasks and any intervals.                         *)
(***************************************************************************)
EXTENDS SchedulingSystem, WellFoundedInduction, TLAPS

NatLess == {p \in Nat \X Nat : p[1] < p[2]}

\* A non-empty set of natural numbers has a least element, and Min returns it.
LEMMA MinIsLeast ==
  ASSUME NEW S \in SUBSET Nat, S # {}
  PROVE  Min(S) \in S /\ \A x \in S : Min(S) <= x
<1>1. IsWellFoundedOn(NatLess, Nat)
  BY NatLessThanWellFounded DEF OpToRel, NatLess
<1>2. PICK x \in S : \A y \in S : <<y, x>> \notin NatLess
  BY <1>1, WFMin
<1>3. \A y \in S : x <= y
  <2> SUFFICES ASSUME NEW y \in S PROVE x <= y
    OBVIOUS
  <2>1. ~ (y < x)
    <3>1. <<y, x>> \in Nat \X Nat
      OBVIOUS
    <3>2. <<y, x>>[1] < <<y, x>>[2] => <<y, x>> \in NatLess
      BY <3>1, Zenon DEF NatLess
    <3> QED
      BY <1>2, <3>2
  <2> QED
    BY <2>1
<1> QED
  BY <1>3 DEF Min
-----------------------------------------------------------------------------
(* Type correctness. *)

LEMMA RearmedType ==
  ASSUME TypeOK
  PROVE  Rearmed \in [TaskId -> 0..MaxInterval]
<1>1. \A id \in TaskId : interval[id] \in 0..MaxInterval
  BY IntervalAssumption DEF TypeOK
<1> QED
  BY <1>1 DEF TypeOK, Rearmed

\* The wake time is a time, and no task left in the table is due before it.
LEMMA NextWakeTimeIsLeast ==
  ASSUME TypeOK
  PROVE  /\ NextWakeTime \in 0..Never
         /\ \A id \in tasks \ DueOnce : NextWakeTime <= Rearmed[id]
<1> DEFINE S == {Never} \cup {Rearmed[id] : id \in tasks \ DueOnce}
<1>1. S \in SUBSET (0..Never)
  <2>1. \A id \in tasks : Rearmed[id] \in 0..Never
    BY RearmedType, IntervalAssumption DEF TypeOK, Never
  <2>2. Never \in 0..Never
    BY IntervalAssumption DEF Never
  <2> QED
    BY <2>1, <2>2
<1>2. S \in SUBSET Nat /\ S # {}
  BY <1>1
<1>3. Min(S) \in S /\ \A x \in S : Min(S) <= x
  <2> HIDE DEF S
  <2> QED BY <1>2, MinIsLeast
<1> QED
  BY <1>1, <1>3 DEF NextWakeTime

\* A call about to insert has fetched its id.
CallsHaveIds == \A c \in Clients : client[c] = "insert" => handle[c] \in TaskId

\* The actions change the state inside its types.
LEMMA TypeStep == TypeOK /\ CallsHaveIds /\ [Next]_vars => TypeOK'
<1> SUFFICES ASSUME TypeOK, CallsHaveIds, [Next]_vars PROVE TypeOK'
  OBVIOUS
<1> USE MaxTasksAssumption, IntervalAssumption DEF TypeOK, lifecycle, wait, table,
        batch, calls, history, OwnerState, ThreadState, ClientState
<1>1. CASE Initialize
  BY <1>1 DEF Initialize
<1>2. CASE RequestStop
  BY <1>2 DEF RequestStop
<1>3. CASE NotifyStop
  BY <1>3 DEF NotifyStop, NotifyOne, Asleep
<1>4. CASE Join
  BY <1>4 DEF Join
<1>5. ASSUME NEW c \in Clients, NEW duration \in 0..MaxInterval,
             NEW oneShot \in BOOLEAN, AddTask(c, duration, oneShot)
      PROVE  TypeOK'
  <2>1. next_id \in TaskId /\ next_id + 1 \in 1..(MaxTasks + 1)
    BY <1>5 DEF AddTask, TaskId
  <2>2. AtLeastMin(duration) \in MinInterval..MaxInterval
    BY DEF AtLeastMin
  <2>3. AtLeastMin(duration) \in 0..MaxInterval
    BY <2>2
  <2>4. handle' \in [Clients -> TaskId \cup {NoTask}]
    BY <1>5, <2>1 DEF AddTask
  <2>5. /\ interval' \in [TaskId -> MinInterval..MaxInterval]
        /\ remaining' \in [TaskId -> 0..MaxInterval]
        /\ age' \in [TaskId -> 0..MaxInterval]
        /\ once' \in [TaskId -> BOOLEAN]
    BY <1>5, <2>1, <2>2, <2>3 DEF AddTask
  <2>6. next_id' \in 1..(MaxTasks + 1) /\ client' \in [Clients -> ClientState]
    BY <1>5, <2>1 DEF AddTask
  <2>7. UNCHANGED <<lifecycle, thread, wait, tasks, batch, unseen, fired, removed>>
    BY <1>5 DEF AddTask
  <2> QED
    BY <2>4, <2>5, <2>6, <2>7
<1>6. ASSUME NEW c \in Clients, InsertTask(c) PROVE TypeOK'
  <2>1. handle[c] \in TaskId
    BY <1>6 DEF InsertTask, CallsHaveIds
  <2> QED
    BY <1>6, <2>1 DEF InsertTask
<1>7. ASSUME NEW c \in Clients, NEW id \in TaskId, RemoveTask(c, id) PROVE TypeOK'
  BY <1>7 DEF RemoveTask
<1>8. ASSUME NEW c \in Clients, NotifyClient(c) PROVE TypeOK'
  BY <1>8 DEF NotifyClient, NotifyOne, Asleep
<1>9. CASE ThreadTop
  BY <1>9 DEF ThreadTop
<1>10. CASE Collect
  <2>1. Due \subseteq TaskId /\ DueOnce \subseteq TaskId
    BY DEF Due, DueOnce
  <2> QED
    BY <1>10, <2>1, RearmedType, NextWakeTimeIsLeast DEF Collect
<1>11. ASSUME NEW id \in TaskId, RunCallback(id) PROVE TypeOK'
  BY <1>11 DEF RunCallback
<1>12. CASE Sleep
  BY <1>12 DEF Sleep
<1>13. CASE Awake
  <2>1. Never \in 0..Never
    BY DEF Never
  <2> QED
    BY <1>13, <2>1 DEF Awake
<1>14. CASE TestIdle
  BY <1>14 DEF TestIdle
<1>15. CASE BlockIdle
  BY <1>15 DEF BlockIdle
<1>16. CASE IdleAwake
  BY <1>16 DEF IdleAwake
<1>17. CASE Tick
  BY <1>17 DEF Tick, OneLess, Never
<1>18. CASE UNCHANGED vars
  BY <1>18 DEF vars
<1> QED
  BY <1>1, <1>2, <1>3, <1>4, <1>5, <1>6, <1>7, <1>8, <1>9, <1>10, <1>11, <1>12,
     <1>13, <1>14, <1>15, <1>16, <1>17, <1>18
     DEF Next, ThreadStep, SpuriousWake, Wake, WakeIdle

-----------------------------------------------------------------------------
LEMMA InitType == Init => TypeOK /\ CallsHaveIds
<1> SUFFICES ASSUME Init PROVE TypeOK /\ CallsHaveIds
  OBVIOUS
<1>1. /\ Never \in 0..Never
      /\ MinInterval \in MinInterval..MaxInterval
      /\ 0 \in 0..MaxInterval
      /\ 1 \in 1..(MaxTasks + 1)
  BY MaxTasksAssumption, IntervalAssumption DEF Never
<1>2. TypeOK
  BY <1>1 DEF Init, TypeOK, OwnerState, ThreadState, ClientState
<1>3. CallsHaveIds
  BY DEF Init, CallsHaveIds
<1> QED
  BY <1>2, <1>3
-----------------------------------------------------------------------------
(* Ids: an id is fetched once, and belongs to the call that fetched it until *)
(* that call has inserted the task.                                          *)

Known == 1..(next_id - 1)
Used == tasks \cup callbacks \cup fired \cup removed

IdsUnique ==
  /\ Used \subseteq Known
  /\ \A c \in Clients :
       client[c] = "insert" => handle[c] \in Known /\ handle[c] \notin Used
  /\ \A c, d \in Clients :
       client[c] = "insert" /\ client[d] = "insert" /\ handle[c] = handle[d]
         => c = d

LEMMA IdsHaveType == TypeOK /\ IdsUnique => CallsHaveIds /\ Known \subseteq TaskId
BY MaxTasksAssumption DEF TypeOK, IdsUnique, CallsHaveIds, Known, TaskId

LEMMA IdsStep == TypeOK /\ IdsUnique /\ [Next]_vars => IdsUnique'
<1> SUFFICES ASSUME TypeOK, IdsUnique, [Next]_vars PROVE IdsUnique'
  OBVIOUS
<1> USE DEF IdsUnique, Used, Known, lifecycle, wait, table, batch, calls, history
<1> next_id \in Nat \ {0}
  BY MaxTasksAssumption DEF TypeOK
<1>1. CASE Initialize \/ RequestStop \/ NotifyStop \/ Join
  BY <1>1 DEF Initialize, RequestStop, NotifyStop, Join
<1>2. ASSUME NEW c \in Clients, NEW duration \in 0..MaxInterval,
             NEW oneShot \in BOOLEAN, AddTask(c, duration, oneShot)
      PROVE  IdsUnique'
  <2>1. Known' = Known \cup {next_id} /\ next_id \notin Known
    BY <1>2 DEF AddTask
  <2>2. Used' = Used
    BY <1>2 DEF AddTask
  <2>3. \A d \in Clients :
          /\ d = c => client'[d] = "insert" /\ handle'[d] = next_id
          /\ d # c => client'[d] = client[d] /\ handle'[d] = handle[d]
    BY <1>2 DEF AddTask, TypeOK
  <2> HIDE DEF Used, Known
  <2> QED
    BY <2>1, <2>2, <2>3
<1>3. ASSUME NEW c \in Clients, InsertTask(c) PROVE IdsUnique'
  <2>1. Used' = Used \cup {handle[c]} /\ Known' = Known /\ handle' = handle
    BY <1>3 DEF InsertTask
  <2>2. \A d \in Clients :
          client'[d] = "insert" => client[d] = "insert" /\ d # c
    BY <1>3 DEF InsertTask, TypeOK
  <2>3. client[c] = "insert"
    BY <1>3 DEF InsertTask
  <2> HIDE DEF Used, Known
  <2> QED
    BY <2>1, <2>2, <2>3
<1>4. ASSUME NEW c \in Clients, NEW id \in TaskId, RemoveTask(c, id)
      PROVE  IdsUnique'
  <2>1. id \in Known /\ \A d \in Clients : handle[d] # id
    BY <1>4 DEF RemoveTask, Returned, InFlight, NoTask
  <2>2. /\ Used' \subseteq Used \cup {id} /\ Known' = Known
        /\ handle' = handle
    BY <1>4 DEF RemoveTask
  <2>3. \A d \in Clients : client'[d] = "insert" => client[d] = "insert"
    BY <1>4 DEF RemoveTask, TypeOK
  <2> HIDE DEF Used, Known
  <2> QED
    BY <2>1, <2>2, <2>3
<1>5. ASSUME NEW c \in Clients, NotifyClient(c) PROVE IdsUnique'
  <2>1. Used' = Used /\ Known' = Known
    BY <1>5 DEF NotifyClient
  <2>2. \A d \in Clients :
          client'[d] = "insert" => client[d] = "insert" /\ handle'[d] = handle[d]
    BY <1>5 DEF NotifyClient, TypeOK
  <2> HIDE DEF Used, Known
  <2> QED
    BY <2>1, <2>2
<1>6. CASE Collect
  BY <1>6 DEF Collect, Due
<1>7. ASSUME NEW id \in TaskId, RunCallback(id) PROVE IdsUnique'
  BY <1>7 DEF RunCallback
<1>8. CASE Sleep
  BY <1>8 DEF Sleep
<1>9. CASE ThreadTop \/ Awake \/ TestIdle \/ BlockIdle \/ IdleAwake
  BY <1>9 DEF ThreadTop, Awake, TestIdle, BlockIdle, IdleAwake
<1>10. CASE Tick
  BY <1>10 DEF Tick
<1>11. CASE UNCHANGED vars
  BY <1>11 DEF vars
<1> QED
  BY <1>1, <1>2, <1>3, <1>4, <1>5, <1>6, <1>7, <1>8, <1>9, <1>10, <1>11
     DEF Next, ThreadStep, SpuriousWake, Wake, WakeIdle
-----------------------------------------------------------------------------
(* Batches: what the thread has collected, and what it will erase.           *)

\* Callbacks are left to run only while a batch runs, and its one-shot tasks
\* are listed for deletion.
BatchListed ==
  \A id \in callbacks : thread = "run" /\ (once[id] => id \in deleted_tasks)

\* A one-shot task that has run is in no batch, and only its own batch, while
\* it runs, still has it in the table.
FiredOnceGone ==
  \A id \in fired : once[id] =>
    /\ id \notin callbacks
    /\ id \in tasks => thread = "run" /\ id \in deleted_tasks

RemovedGone == removed \cap tasks = {}

\* The thread object is empty exactly while the system is down.
ThreadOwned == owner = "stopped" <=> thread = "none"

BatchInv == BatchListed /\ FiredOnceGone /\ RemovedGone /\ ThreadOwned

LEMMA BatchStep ==
  TypeOK /\ IdsUnique /\ BatchInv /\ [Next]_vars => BatchInv'
<1> SUFFICES ASSUME TypeOK, IdsUnique, BatchInv, [Next]_vars PROVE BatchInv'
  OBVIOUS
<1> USE DEF BatchInv, BatchListed, FiredOnceGone, RemovedGone, ThreadOwned,
        lifecycle, wait, table, batch, calls, history
<1>1. CASE Initialize \/ RequestStop \/ NotifyStop \/ Join
  BY <1>1 DEF Initialize, RequestStop, NotifyStop, Join
<1>2. ASSUME NEW c \in Clients, NEW duration \in 0..MaxInterval,
             NEW oneShot \in BOOLEAN, AddTask(c, duration, oneShot)
      PROVE  BatchInv'
  <2>1. \A id \in callbacks \cup fired : id # next_id
    BY MaxTasksAssumption DEF TypeOK, IdsUnique, Used, Known
  <2>2. \A id \in callbacks \cup fired : once'[id] = once[id]
    BY <1>2, <2>1 DEF AddTask, TypeOK
  <2> QED
    BY <1>2, <2>2 DEF AddTask
<1>3. ASSUME NEW c \in Clients, InsertTask(c) PROVE BatchInv'
  <2>1. handle[c] \notin fired \cup removed
    BY <1>3 DEF InsertTask, IdsUnique, Used
  <2> QED
    BY <1>3, <2>1 DEF InsertTask
<1>4. ASSUME NEW c \in Clients, NEW id \in TaskId, RemoveTask(c, id)
      PROVE  BatchInv'
  BY <1>4 DEF RemoveTask
<1>5. ASSUME NEW c \in Clients, NotifyClient(c) PROVE BatchInv'
  BY <1>5 DEF NotifyClient
<1>6. CASE Collect
  BY <1>6 DEF Collect, Due, DueOnce
<1>7. ASSUME NEW id \in TaskId, RunCallback(id) PROVE BatchInv'
  BY <1>7 DEF RunCallback
<1>8. CASE Sleep
  BY <1>8 DEF Sleep
<1>9. CASE ThreadTop \/ Awake \/ TestIdle \/ BlockIdle \/ IdleAwake
  BY <1>9 DEF ThreadTop, Awake, TestIdle, BlockIdle, IdleAwake
<1>10. CASE Tick
  BY <1>10 DEF Tick
<1>11. CASE UNCHANGED vars
  BY <1>11 DEF vars
<1> QED
  BY <1>1, <1>2, <1>3, <1>4, <1>5, <1>6, <1>7, <1>8, <1>9, <1>10, <1>11
     DEF Next, ThreadStep, SpuriousWake, Wake, WakeIdle
-----------------------------------------------------------------------------
(* Time: the wake time, and the age of the tasks.                            *)

\* From the collection on, the wake time bounds the tasks that were looked at
\* and will stay in the table.
SleepCovers ==
  /\ thread = "run" =>
       \A id \in (tasks \ unseen) \ deleted_tasks : next_wake_time <= remaining[id]
  /\ WakeCoversSeen

\* A task's age and what remains until it is due add up to its interval.
Aged == \A id \in Known : remaining[id] + age[id] >= interval[id]

TimeInv == SleepCovers /\ Aged

LEMMA TimeStep ==
  TypeOK /\ IdsUnique /\ TimeInv /\ [Next]_vars => TimeInv'
<1> SUFFICES ASSUME TypeOK, IdsUnique, TimeInv, [Next]_vars PROVE TimeInv'
  OBVIOUS
<1> USE DEF TimeInv, SleepCovers, WakeCoversSeen, Aged, lifecycle, wait, table,
        batch, calls, history
<1>0. /\ tasks \subseteq Known /\ next_id \notin Known /\ Known \subseteq TaskId
  BY MaxTasksAssumption DEF IdsUnique, Used, Known, TypeOK, TaskId
<1>1. CASE Initialize \/ RequestStop \/ NotifyStop \/ Join
  BY <1>1 DEF Initialize, RequestStop, NotifyStop, Join, Known
<1>2. ASSUME NEW c \in Clients, NEW duration \in 0..MaxInterval,
             NEW oneShot \in BOOLEAN, AddTask(c, duration, oneShot)
      PROVE  TimeInv'
  <2>1. next_id \in TaskId /\ Known' = Known \cup {next_id}
    BY <1>2, MaxTasksAssumption DEF AddTask, TypeOK, TaskId, Known
  <2>2. /\ remaining'[next_id] = AtLeastMin(duration)
        /\ interval'[next_id] = AtLeastMin(duration)
        /\ age'[next_id] = 0
    BY <1>2, <2>1 DEF AddTask, TypeOK
  <2>3. \A id \in Known :
          /\ remaining'[id] = remaining[id]
          /\ interval'[id] = interval[id]
          /\ age'[id] = age[id]
    BY <1>2, <1>0 DEF AddTask, TypeOK
  <2>4. AtLeastMin(duration) \in Nat
    BY IntervalAssumption DEF AtLeastMin
  <2>5. Aged'
    BY <2>1, <2>2, <2>3, <2>4
  <2>6. SleepCovers'
    BY <1>0, <1>2, <2>3 DEF AddTask
  <2> QED
    BY <2>5, <2>6
<1>3. ASSUME NEW c \in Clients, InsertTask(c) PROVE TimeInv'
  BY <1>3 DEF InsertTask, Known
<1>4. ASSUME NEW c \in Clients, NEW id \in TaskId, RemoveTask(c, id)
      PROVE  TimeInv'
  <2>1. \A i \in tasks' \ unseen' : i \in tasks \ unseen
    BY <1>4 DEF RemoveTask
  <2> QED
    BY <1>4, <2>1 DEF RemoveTask, Known
<1>5. ASSUME NEW c \in Clients, NotifyClient(c) PROVE TimeInv'
  BY <1>5 DEF NotifyClient, Known
<1>6. CASE Collect
  <2>1. \A id \in Known : id \in tasks => remaining'[id] = Rearmed[id]
    BY <1>6 DEF Collect
  <2>2. SleepCovers'
    BY <1>6, <2>1, NextWakeTimeIsLeast, <1>0 DEF Collect
  <2>3. \A id \in Known :
          \/ remaining'[id] = interval[id] /\ age'[id] = 0
          \/ remaining'[id] = remaining[id] /\ age'[id] = age[id]
    BY <1>6, <1>0 DEF Collect, Rearmed
  <2>4. \A id \in Known : interval[id] \in Nat
    BY <1>0, IntervalAssumption DEF TypeOK
  <2>5. Known' = Known /\ interval' = interval
    BY <1>6 DEF Collect, Known
  <2>6. Aged'
    BY <2>3, <2>4, <2>5
  <2> QED
    BY <2>2, <2>6
<1>7. ASSUME NEW id \in TaskId, RunCallback(id) PROVE TimeInv'
  BY <1>7 DEF RunCallback, Known
<1>8. CASE Sleep
  BY <1>8 DEF Sleep, Known
<1>9. CASE ThreadTop \/ Awake \/ TestIdle \/ BlockIdle \/ IdleAwake
  BY <1>9 DEF ThreadTop, Awake, TestIdle, BlockIdle, IdleAwake, Known
<1>10. CASE Tick
  <2>1. \A id \in Known :
          /\ remaining[id] \in 0..MaxInterval /\ age[id] \in 0..MaxInterval
          /\ interval[id] \in MinInterval..MaxInterval
    BY <1>0 DEF TypeOK
  <2>2. \A id \in Known :
          /\ remaining'[id] = OneLess(remaining[id])
          /\ age'[id] = IF age[id] < MaxInterval THEN age[id] + 1 ELSE age[id]
    BY <1>0, <1>10 DEF Tick
  <2>3. Known' = Known
    BY <1>10 DEF Tick, Known
  <2>4. Aged'
    <3> SUFFICES ASSUME NEW id \in Known
                 PROVE  remaining'[id] + age'[id] >= interval[id]
      BY <1>10, <2>3 DEF Tick
    <3> QED
      BY <2>1, <2>2, IntervalAssumption DEF OneLess, Never
  <2>5. \A id \in tasks :
          next_wake_time <= remaining[id] => next_wake_time' <= remaining'[id]
    BY <1>0, <1>10, <2>1, <2>2, IntervalAssumption DEF Tick, OneLess, Never, TypeOK
  <2> QED
    BY <1>10, <2>4, <2>5 DEF Tick
<1>11. CASE UNCHANGED vars
  BY <1>11 DEF vars, Known
<1> QED
  BY <1>1, <1>2, <1>3, <1>4, <1>5, <1>6, <1>7, <1>8, <1>9, <1>10, <1>11
     DEF Next, ThreadStep, SpuriousWake, Wake, WakeIdle
-----------------------------------------------------------------------------
(* The theorems. *)

IInv == TypeOK /\ IdsUnique /\ BatchInv /\ TimeInv

LEMMA InitInv == Init => IInv
<1> SUFFICES ASSUME Init PROVE IInv
  OBVIOUS
<1>1. IdsUnique
  BY DEF Init, IdsUnique, Used, Known
<1>2. BatchInv
  BY DEF Init, BatchInv, BatchListed, FiredOnceGone, RemovedGone, ThreadOwned
<1>3. TimeInv
  BY DEF Init, TimeInv, SleepCovers, WakeCoversSeen, Aged, Known
<1> QED
  BY InitType, <1>1, <1>2, <1>3 DEF IInv

LEMMA InvStep == IInv /\ [Next]_vars => IInv'
BY IdsHaveType, TypeStep, IdsStep, BatchStep, TimeStep DEF IInv

\* The invariant that the properties below follow from, over every execution.
THEOREM Invariance == Spec => []IInv
BY InitInv, InvStep, PTL DEF Spec

\* Every reachable state has the types of the program's variables.
THEOREM TypeCorrect == Spec => []TypeOK
<1>1. IInv => TypeOK
  BY DEF IInv
<1> QED
  BY <1>1, Invariance, PTL

\* A task scheduled with ScheduleAfter runs at most once.
THEOREM OneShotCorrect == Spec => []OneShotAtMostOnce
<1>1. IInv => OneShotAtMostOnce
  BY DEF IInv, BatchInv, FiredOnceGone, OneShotAtMostOnce
<1> QED
  BY <1>1, Invariance, PTL

\* The thread never sleeps past a task it has looked at.
THEOREM WakeCorrect == Spec => []WakeCoversSeen
<1>1. IInv => WakeCoversSeen
  BY DEF IInv, TimeInv, SleepCovers
<1> QED
  BY <1>1, Invariance, PTL

\* Only a collection adds to the callbacks, and it adds the due tasks.
LEMMA OnlyDueCollected ==
  ASSUME [Next]_vars
  PROVE  \A id \in callbacks' \ callbacks : id \in tasks /\ remaining[id] = 0
<1> USE DEF batch
<1>1. CASE Initialize \/ RequestStop \/ NotifyStop \/ Join
  BY <1>1 DEF Initialize, RequestStop, NotifyStop, Join
<1>2. CASE \E c \in Clients :
            \/ \E duration \in 0..MaxInterval, oneShot \in BOOLEAN :
                 AddTask(c, duration, oneShot)
            \/ InsertTask(c)
            \/ \E id \in TaskId : RemoveTask(c, id)
            \/ NotifyClient(c)
  BY <1>2 DEF AddTask, InsertTask, RemoveTask, NotifyClient
<1>3. CASE Collect
  BY <1>3 DEF Collect, Due
<1>4. CASE \E id \in TaskId : RunCallback(id)
  BY <1>4 DEF RunCallback
<1>5. CASE ThreadTop \/ Sleep \/ Awake \/ TestIdle \/ BlockIdle \/ IdleAwake
  BY <1>5 DEF ThreadTop, Sleep, Awake, TestIdle, BlockIdle, IdleAwake
<1>6. CASE Tick \/ UNCHANGED vars
  BY <1>6 DEF Tick, vars
<1> QED
  BY <1>1, <1>2, <1>3, <1>4, <1>5, <1>6
     DEF Next, ThreadStep, SpuriousWake, Wake, WakeIdle

\* Once RemoveTask has erased a task, no later batch has it.
THEOREM RemovedCorrect == Spec => RemovedStaysSilent
<1>1. IInv /\ [Next]_vars =>
        [\A id \in removed : id \in callbacks' => id \in callbacks]_vars
  BY OnlyDueCollected DEF IInv, BatchInv, RemovedGone
<1> QED
  BY <1>1, Invariance, PTL DEF Spec, RemovedStaysSilent

\* A task is never collected earlier than its interval after the last time.
THEOREM RateCorrect == Spec => RateLimited
<1>1. ASSUME IInv, [Next]_vars
      PROVE  \A id \in callbacks' \ callbacks :
               age[id] >= interval[id] /\ age[id] >= MinInterval
  <2> SUFFICES ASSUME NEW id \in callbacks' \ callbacks
               PROVE  age[id] >= interval[id] /\ age[id] >= MinInterval
    OBVIOUS
  <2>1. id \in Known /\ id \in TaskId /\ remaining[id] = 0
    BY <1>1, OnlyDueCollected, IdsHaveType DEF IInv, IdsUnique, Used
  <2>2. /\ interval[id] \in MinInterval..MaxInterval
        /\ age[id] \in 0..MaxInterval
        /\ remaining[id] + age[id] >= interval[id]
    BY <1>1, <2>1 DEF IInv, TypeOK, TimeInv, Aged
  <2> QED
    BY <2>1, <2>2, IntervalAssumption
<1>2. IInv /\ [Next]_vars =>
        [\A id \in callbacks' \ callbacks :
           age[id] >= interval[id] /\ age[id] >= MinInterval]_vars
  BY <1>1
<1> QED
  BY <1>2, Invariance, PTL DEF Spec, RateLimited

\* After Deinitialize has returned no callback runs.
THEOREM QuietCorrect == Spec => QuietWhenStopped
<1>1. IInv /\ owner = "stopped" => callbacks = {} /\ thread = "none"
  BY DEF IInv, BatchInv, BatchListed, ThreadOwned
<1>2. ASSUME [Next]_vars, thread = "none" PROVE fired' = fired
  <2> USE <1>2 DEF history
  <2>1. CASE Next
    BY <2>1 DEF Next, Initialize, RequestStop, NotifyStop, Join, AddTask,
       InsertTask, RemoveTask, NotifyClient, ThreadStep, SpuriousWake, ThreadTop,
       Collect, RunCallback, Sleep, Wake, Awake, TestIdle, BlockIdle, WakeIdle,
       IdleAwake, Tick
  <2>2. CASE UNCHANGED vars
    BY <2>2 DEF vars
  <2> QED
    BY <2>1, <2>2
<1>3. IInv /\ [Next]_vars =>
        [owner = "stopped" => fired' = fired /\ callbacks = {}]_vars
  BY <1>1, <1>2
<1> QED
  BY <1>3, Invariance, PTL DEF Spec, QuietWhenStopped
=============================================================================
