-------------------------- MODULE SchedulingSystem --------------------------
(***************************************************************************)
(* The scheduling system (scheduling/src/scheduling_system.cpp): clients   *)
(* of any thread add and remove tasks; one scheduler thread collects the   *)
(* due tasks under the mutex, runs their callbacks without it, and sleeps  *)
(* on a condition variable until the next task is due.                     *)
(*                                                                         *)
(* Time.  A steady_clock::time_point is kept as the number of ticks from   *)
(* now to it, floored at zero ("now or past"): all that the code does with *)
(* a time point is compare it with now, or with another one in the future. *)
(* Never stands for time_point::max(), which no passage of time reaches.   *)
(*                                                                         *)
(* The mutex.  The scheduler thread keeps it over several steps only while *)
(* it is at "loop" or "idle"; every other critical section is one action.  *)
(*                                                                         *)
(* Callbacks.  A callback that calls the scheduling system back is a       *)
(* client that acts while the thread is at "run".                          *)
(***************************************************************************)
EXTENDS Naturals, FiniteSets, FiniteSetsExt

CONSTANTS
  Clients,      \* threads, or callbacks, that call the scheduling system
  MaxTasks,     \* bound: the number of tasks ever added
  MinInterval,  \* the floor of an interval (15ms), in ticks
  MaxInterval   \* bound: the longest interval asked for, in ticks

ASSUME MaxTasksAssumption == MaxTasks \in Nat
ASSUME IntervalAssumption ==
  /\ MinInterval \in Nat \ {0}
  /\ MaxInterval \in Nat
  /\ MinInterval <= MaxInterval

TaskId == 1..MaxTasks
NoTask == 0
Never == MaxInterval + 1

VARIABLES
  owner,           \* where the owner is in Initialize and Deinitialize
  thread,          \* where the scheduler thread is in ProcessTasks
  stop_requested,  \* the stop state of scheduler_thread_
  signalled,       \* a notification has reached the waiting thread
  next_wake_time,  \* until when the thread sleeps
  tasks,           \* the keys of tasks_
  interval,        \* task.interval
  remaining,       \* task.scheduled_time_point, in ticks from now
  once,            \* task.once
  next_id,         \* the next task id
  callbacks,       \* the tasks whose callbacks this batch has still to run
  deleted_tasks,   \* the one-shot tasks of this batch
  client,          \* where each client is in AddTask or RemoveTask
  handle,          \* the id an AddTask in flight has fetched
  unseen,          \* history: tasks inserted since tasks were last collected
  fired,           \* history: tasks whose callback has run
  removed,         \* history: tasks that RemoveTask has erased
  age              \* history: ticks since a task was added or last collected

lifecycle == <<owner, stop_requested>>
wait      == <<signalled, next_wake_time>>
table     == <<tasks, interval, remaining, once, next_id>>
batch     == <<callbacks, deleted_tasks>>
calls     == <<client, handle>>
history   == <<unseen, fired, removed, age>>
vars == <<lifecycle, thread, wait, table, batch, calls, history>>

OwnerState  == {"stopped", "running", "stopping", "joining"}
ThreadState == {"none", "top", "loop", "run", "waiting", "idle", "idleWaiting",
                "done"}
ClientState == {"idle", "insert", "notify"}

TypeOK ==
  /\ owner \in OwnerState
  /\ thread \in ThreadState
  /\ stop_requested \in BOOLEAN
  /\ signalled \in BOOLEAN
  /\ next_wake_time \in 0..Never
  /\ tasks \subseteq TaskId
  /\ interval \in [TaskId -> MinInterval..MaxInterval]
  /\ remaining \in [TaskId -> 0..MaxInterval]
  /\ once \in [TaskId -> BOOLEAN]
  /\ next_id \in 1..(MaxTasks + 1)
  /\ callbacks \subseteq TaskId
  /\ deleted_tasks \subseteq TaskId
  /\ client \in [Clients -> ClientState]
  /\ handle \in [Clients -> TaskId \cup {NoTask}]
  /\ unseen \subseteq TaskId
  /\ fired \subseteq TaskId
  /\ removed \subseteq TaskId
  /\ age \in [TaskId -> 0..MaxInterval]

Init ==
  /\ owner = "stopped"
  /\ thread = "none"
  /\ stop_requested = FALSE
  /\ signalled = FALSE
  /\ next_wake_time = Never
  /\ tasks = {}
  /\ interval = [id \in TaskId |-> MinInterval]
  /\ remaining = [id \in TaskId |-> 0]
  /\ once = [id \in TaskId |-> FALSE]
  /\ next_id = 1
  /\ callbacks = {}
  /\ deleted_tasks = {}
  /\ client = [c \in Clients |-> "idle"]
  /\ handle = [c \in Clients |-> NoTask]
  /\ unseen = {}
  /\ fired = {}
  /\ removed = {}
  /\ age = [id \in TaskId |-> 0]
-----------------------------------------------------------------------------
(* Synchronisation. *)

Asleep == thread \in {"waiting", "idleWaiting"}
MutexFree == thread \notin {"loop", "idle"}

\* cv_.notify_one(): it wakes the scheduler thread if that is blocked on the
\* condition variable, and is lost otherwise.
NotifyOne == signalled' = (signalled \/ Asleep)

(* The owner: Initialize and Deinitialize. *)

Initialize ==
  /\ owner = "stopped"
  /\ owner' = "running"
  /\ thread' = "top"
  /\ stop_requested' = FALSE
  /\ UNCHANGED <<wait, table, batch, calls, history>>

RequestStop ==
  /\ owner = "running"
  /\ owner' = "stopping"
  /\ stop_requested' = TRUE
  /\ UNCHANGED <<thread, wait, table, batch, calls, history>>

\* Variant: Deinitialize without its notification.
NotifyStopSilent ==
  /\ owner = "stopping"
  /\ owner' = "joining"
  /\ UNCHANGED <<thread, stop_requested, wait, table, batch, calls, history>>

NotifyStop ==
  /\ owner = "stopping"
  /\ owner' = "joining"
  /\ NotifyOne
  /\ UNCHANGED <<thread, stop_requested, next_wake_time, table, batch, calls,
                 history>>

\* Variant: the thread is detached, not joined.
JoinDetached ==
  /\ owner = "joining"
  /\ owner' = "stopped"
  /\ UNCHANGED <<thread, stop_requested, wait, table, batch, calls, history>>

Join ==
  /\ owner = "joining"
  /\ thread = "done"
  /\ owner' = "stopped"
  /\ thread' = "none"
  /\ UNCHANGED <<stop_requested, wait, table, batch, calls, history>>
-----------------------------------------------------------------------------
(* The clients: ScheduleAfter, SchedulePeriodically and RemoveTask. *)

InFlight == {handle[c] : c \in Clients} \ {NoTask}

\* The handles that some AddTask has returned.
Returned == (1..(next_id - 1)) \ InFlight

\* Variant: no floor.
AnyInterval(duration) == duration

AtLeastMin(duration) ==
  IF duration <= MinInterval THEN MinInterval ELSE duration

\* The id is fetched and the time point computed before the mutex is taken.
AddTask(c, duration, oneShot) ==
  /\ client[c] = "idle"
  /\ next_id <= MaxTasks
  /\ next_id' = next_id + 1
  /\ interval' = [interval EXCEPT ![next_id] = AtLeastMin(duration)]
  /\ remaining' = [remaining EXCEPT ![next_id] = AtLeastMin(duration)]
  /\ once' = [once EXCEPT ![next_id] = oneShot]
  /\ age' = [age EXCEPT ![next_id] = 0]
  /\ handle' = [handle EXCEPT ![c] = next_id]
  /\ client' = [client EXCEPT ![c] = "insert"]
  /\ UNCHANGED <<lifecycle, thread, wait, tasks, batch, unseen, fired, removed>>

InsertTask(c) ==
  /\ client[c] = "insert"
  /\ MutexFree
  /\ tasks' = tasks \cup {handle[c]}
  /\ unseen' = unseen \cup {handle[c]}
  /\ client' = [client EXCEPT ![c] = "notify"]
  /\ UNCHANGED <<lifecycle, thread, wait, interval, remaining, once, next_id,
                 batch, handle, fired, removed, age>>

\* Variant: a batch that is running keeps the task in the table.
RemoveTaskUnlessRunning(c, id) ==
  /\ client[c] = "idle"
  /\ id \in Returned
  /\ MutexFree
  /\ tasks' = IF thread = "run" THEN tasks ELSE tasks \ {id}
  /\ unseen' = unseen \ {id}
  /\ removed' = removed \cup {id}
  /\ client' = [client EXCEPT ![c] = "notify"]
  /\ UNCHANGED <<lifecycle, thread, wait, interval, remaining, once, next_id,
                 batch, handle, fired, age>>

RemoveTask(c, id) ==
  /\ client[c] = "idle"
  /\ id \in Returned
  /\ MutexFree
  /\ tasks' = tasks \ {id}
  /\ unseen' = unseen \ {id}
  /\ removed' = removed \cup {id}
  /\ client' = [client EXCEPT ![c] = "notify"]
  /\ UNCHANGED <<lifecycle, thread, wait, interval, remaining, once, next_id,
                 batch, handle, fired, age>>

\* The end of both: the notification, after the mutex is released.
NotifyClient(c) ==
  /\ client[c] = "notify"
  /\ NotifyOne
  /\ client' = [client EXCEPT ![c] = "idle"]
  /\ handle' = [handle EXCEPT ![c] = NoTask]
  /\ UNCHANGED <<lifecycle, thread, next_wake_time, table, batch, history>>
-----------------------------------------------------------------------------
(* The scheduler thread: ProcessTasks. *)

\* The outer test of the stop token, and the lock.  A stop or an insertion
\* between the two is one that follows, or precedes, this step.
ThreadTop ==
  /\ thread = "top"
  /\ thread' = IF stop_requested THEN "done" ELSE "loop"
  /\ UNCHANGED <<lifecycle, wait, table, batch, calls, history>>

Due == {id \in tasks : remaining[id] = 0}

\* Variant: the one-shot tasks are not listed for deletion.
NoneOnce == {}

DueOnce == {id \in Due : once[id]}

\* Every due task is re-armed from now; one that runs once is also listed for
\* deletion and has no part in the next wake time.
\* Variant: a due task keeps its time point.
NotRearmed == remaining

Rearmed == [id \in TaskId |-> IF id \in Due THEN interval[id] ELSE remaining[id]]

\* Variant: every due task is left out, the periodic ones too.
NextWakeTimeOfOthers == Min({Never} \cup {Rearmed[id] : id \in tasks \ Due})

NextWakeTime == Min({Never} \cup {Rearmed[id] : id \in tasks \ DueOnce})

Collect ==
  /\ thread = "loop"
  /\ tasks # {}
  /\ callbacks' = Due
  /\ deleted_tasks' = DueOnce
  /\ remaining' = Rearmed
  /\ next_wake_time' = NextWakeTime
  /\ thread' = "run"
  /\ unseen' = {}
  /\ age' = [id \in TaskId |-> IF id \in Due THEN 0 ELSE age[id]]
  /\ UNCHANGED <<lifecycle, signalled, tasks, interval, once, next_id, calls,
                 fired, removed>>

RunCallback(id) ==
  /\ thread = "run"
  /\ id \in callbacks
  /\ callbacks' = callbacks \ {id}
  /\ fired' = fired \cup {id}
  /\ UNCHANGED <<lifecycle, thread, wait, table, deleted_tasks, calls, unseen,
                 removed, age>>

\* The one-shot tasks are erased only after the callbacks, and the thread
\* blocks without looking at the tasks or at the stop token again.
Sleep ==
  /\ thread = "run"
  /\ callbacks = {}
  /\ tasks' = tasks \ deleted_tasks
  /\ signalled' = FALSE
  /\ thread' = "waiting"
  /\ UNCHANGED <<lifecycle, next_wake_time, interval, remaining, once, next_id,
                 batch, calls, history>>

\* What follows the return of wait_until: the test of the stop token.
Awake ==
  /\ thread = "waiting"
  /\ thread' = IF stop_requested THEN "done" ELSE "loop"
  /\ signalled' = FALSE
  /\ next_wake_time' = Never   \* the variable's scope ends
  /\ UNCHANGED <<lifecycle, table, batch, calls, history>>

\* Variant: a wait without a timeout.
WakeOnlyIfSignalled == signalled /\ Awake

Wake == (signalled \/ next_wake_time = 0) /\ Awake

\* The predicate of the outer wait, tested before the thread blocks.
TestIdle ==
  /\ thread = "loop"
  /\ tasks = {}
  /\ thread' = IF stop_requested THEN "done" ELSE "idle"
  /\ UNCHANGED <<lifecycle, wait, table, batch, calls, history>>

BlockIdle ==
  /\ thread = "idle"
  /\ thread' = "idleWaiting"
  /\ signalled' = FALSE
  /\ UNCHANGED <<lifecycle, next_wake_time, table, batch, calls, history>>

\* The wait returns if the predicate holds by now, and blocks again if not;
\* the test of the stop token follows it.
IdleAwake ==
  /\ thread = "idleWaiting"
  /\ thread' = CASE stop_requested -> "done"
                 [] ~stop_requested /\ tasks # {} -> "top"
                 [] OTHER -> "idle"
  /\ signalled' = FALSE
  /\ UNCHANGED <<lifecycle, next_wake_time, table, batch, calls, history>>

WakeIdle == signalled /\ IdleAwake

\* A condition variable may return without a notification.
SpuriousWake == Awake \/ IdleAwake

ThreadStep ==
  \/ ThreadTop \/ Collect \/ Sleep \/ Wake
  \/ TestIdle \/ BlockIdle \/ WakeIdle
  \/ \E id \in TaskId : RunCallback(id)
-----------------------------------------------------------------------------
(* Time. *)

OneLess(t) == IF t = 0 \/ t = Never THEN t ELSE t - 1

Tick ==
  /\ remaining' = [id \in TaskId |-> OneLess(remaining[id])]
  /\ next_wake_time' = OneLess(next_wake_time)
  /\ age' = [id \in TaskId |->
               IF age[id] < MaxInterval THEN age[id] + 1 ELSE age[id]]
  /\ UNCHANGED <<lifecycle, thread, signalled, tasks, interval, once, next_id,
                 batch, calls, unseen, fired, removed>>

Next ==
  \/ Initialize \/ RequestStop \/ NotifyStop \/ Join
  \/ \E c \in Clients :
       \/ \E duration \in 0..MaxInterval, oneShot \in BOOLEAN :
            AddTask(c, duration, oneShot)
       \/ InsertTask(c)
       \/ \E id \in TaskId : RemoveTask(c, id)
       \/ NotifyClient(c)
  \/ ThreadStep
  \/ SpuriousWake
  \/ Tick

Spec == Init /\ [][Next]_vars

\* The operating system runs every thread that is able to run, a call that
\* has begun goes on, and time passes.  Nothing obliges a client to call, the
\* owner to stop, or a condition variable to return unasked.
Fairness ==
  /\ WF_vars(ThreadStep)
  /\ WF_vars(Tick)
  /\ WF_vars(NotifyStop) /\ WF_vars(Join)
  /\ \A c \in Clients : WF_vars(InsertTask(c)) /\ WF_vars(NotifyClient(c))

FairSpec == Spec /\ Fairness
-----------------------------------------------------------------------------
(* Safety. *)

\* A task scheduled with ScheduleAfter runs at most once, although it stays in
\* the table, due or not, until every callback of its batch has returned.
OneShotAtMostOnce == \A id \in fired : once[id] => id \notin callbacks

\* Once RemoveTask has erased a task, no later batch has it: at most the
\* callback of the batch that had collected it before is still to run.
RemovedStaysSilent == [][\A id \in removed : id \in callbacks' => id \in callbacks]_vars

\* The thread never sleeps past a task it has looked at: whatever is
\* removed or added meanwhile, it wakes when the first of those tasks is due.
\* The tasks inserted since are excepted, and rely on the notification.
WakeCoversSeen ==
  thread = "waiting" =>
    \A id \in tasks \ unseen : next_wake_time <= remaining[id]

\* A task is never collected earlier than its interval after it was added or
\* last collected, and the interval is never shorter than the floor: late
\* callbacks do not make a periodic task catch up.
RateLimited ==
  [][\A id \in callbacks' \ callbacks :
       age[id] >= interval[id] /\ age[id] >= MinInterval]_vars

\* After Deinitialize has returned no callback runs, however the stop, the
\* batch and the notification interleaved.
QuietWhenStopped == [][owner = "stopped" => fired' = fired /\ callbacks = {}]_vars
-----------------------------------------------------------------------------
(* Liveness. *)

Running == owner = "running"

Seen == tasks \ unseen

\* A task that the thread has looked at once, and that nobody removes, is run:
\* from then on the wake time accounts for it.
SeenTaskRuns ==
  \A id \in TaskId :
    (Running /\ id \in Seen \ deleted_tasks)
      ~> (~Running \/ id \in callbacks \/ id \in removed)

\* A periodic task that the thread already serves is a heartbeat: with one, a
\* task whose notification was lost is still collected.
HeartbeatFindsUnseen ==
  \A id \in TaskId :
    (Running /\ id \in unseen /\ \E h \in Seen : ~once[h])
      ~> (~Running \/ id \notin unseen \/ ~(\E h \in Seen : ~once[h]))

\* A thread that sleeps when it is stopped is woken and ends.
StopReachesSleeper == (owner = "stopping" /\ Asleep) ~> thread = "done"

\* What the tests of the scheduling system expect: a task scheduled with
\* ScheduleAfter, and not removed, runs while the system is up.
ScheduledOneShotRuns ==
  \A id \in TaskId :
    (Running /\ id \in tasks /\ once[id])
      ~> (~Running \/ id \in fired \/ id \in removed)

\* What every test of the scheduling system ends with: Deinitialize returns.
ShutdownCompletes == (owner = "stopping") ~> (owner = "stopped")
=============================================================================
