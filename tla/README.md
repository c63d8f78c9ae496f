# A TLA+ model of ebroschin-sdk

ebroschin-sdk is a C++23 library: application lifecycle, TCP and RPC, a task
scheduler, persistence, logging and commands. This directory holds TLA+ models
of all its parts that have state worth the name, the TLC configurations that
check them on small instances, and proofs, for every instance, of all their safety
properties and of both refinements.

All paths below are relative to the repository's root; `PROJECT.json` maps each
definition to the lines of code it stands for.

## 1. The system

### Parts, state and operations

| Part | State | Operations | What makes it correct |
| --- | --- | --- | --- |
| `scheduling::SchedulingSystem` | `tasks_`, `next_id`, `mutex_`, `cv_`, the scheduler thread | `ScheduleAfter`, `SchedulePeriodically`, `RemoveTask`, `Initialize`, `Deinitialize`; the thread's `ProcessTasks` | a task runs when it is due and not earlier, a one-shot task once; a removed task stays silent; shutdown ends |
| `core::QueuedExecutor` | `tasks_`, `running_`, `mutex_`, `cv_` | `Post`, `ProcessBlocking`, `Stop` | what is accepted is run once, or dropped only after `Stop`; nobody sleeps on work |
| `core::InlineExecutor` | none | `Post` | runs the task at once |
| `network::rpc::RpcSystem`, `RpcCallBuilder` | `calls_`, `next_id_`, `mutex_` | `Prepare`, `Call`; `HandleCallback` | one outcome per call, the right one; nothing left behind |
| `SchedulerRpcTimeoutHandler` | `timeouts_`, `mutex_` | `ScheduleTimeout`, `CancelTimeout` | a call that is over has no timeout |
| `BoostTcpConnection` (with `tcp::TcpConnection`) | `outgoing_bytes_`, read buffers, `socket_` | `Start`, `SendBytes`, `Disconnect`; completion handlers | frames arrive whole and in order; the queue is served; a loss is reported |
| `tcp::TcpSystem`, facades | `connections_`, `next_connection_id_` | `Connect`, `Disconnect`, `Send`, `Broadcast`; `CreateConnection`, `RemoveConnection`, `ReceiveMessage` | the table holds who is up; the owner hears connected, messages, disconnected in this order; a loss is reported |
| `tcp::TcpMessageProcessor` | none of its own | `Process` | each message it knows is posted to the executor |
| `BoostTcpAcceptor`, `BoostTcpResolver` | `acceptor_` or `resolver_`, `io_context_`, its thread | `Connect`; the accept loop, resolution | no `Connect` is forgotten; handlers end before their owner |
| `ObservableMessageHandler`, `utility::Signal`, `SignalSubscription` | `slots_`, a weak reference | `Subscribe`, `Emit`, `Unsubscribe`, moves | every slot has one owner; an emission calls those who are subscribed throughout it |
| `core::Application`, `SystemContext` | `running_`, `systems_`, `ordered_systems_` | `RunBlocking`, `RunSimulation`, `Quit`, `Terminate`, `Register` | a quit application ends; what a system requires is up as long as it is |
| `logging::Log`, `SpdlogLogger` | the global logger; the thread pool that spdlog keeps for all loggers | `SetLogger`, `Print`, `SetLogLevel`, `Shutdown` | `Shutdown` drops no logger in use, a closed one goes, the one made last prints |
| `persistence::PersistenceSystem` | the store, the adapters | `Register`, `Initialize`, `Deinitialize` | the store is opened before its adapters; each adapter is initialized and deinitialized as often as the store |
| `commands`, `chatcore-api`, other `utility`, codec, SQLite wrapper | tables filled once, or none | look-ups and conversions | sequential code |

### How they interact

```
caller --Call--> RpcSystem --Subscribe--> signals of the message handler
                    |  \--ScheduleTimeout--> SchedulingSystem --> scheduler thread --+
                    |                                                                |
                    +--Send--> TcpSystem --SendBytes--> BoostTcpConnection           |
                                   ^                        |  io thread             |
   worker <--ProcessBlocking-- QueuedExecutor <--Post-- TcpMessageProcessor          |
      |                                                                              |
      +--slot of an answer--> RpcSystem.HandleCallback <--timeout callback-----------+
```

Four kinds of thread meet: callers, the `io_context` thread of a connector, the
workers of an executor and the scheduler thread. All calls are direct and
callbacks run on the thread that found them due. The system context constructs
and initializes the systems in the order of registration and deinitializes them
in reverse.

### What is hard

* *Notification against wait.* Both condition variables are notified after the
  mutex is released. The scheduler's `wait_until` has no predicate, and its stop
  is requested without the mutex.
* *Release of the mutex in the middle.* The scheduler runs its callbacks, and
  the executor its tasks, on copies taken under the mutex.
* *Answer against timeout.* Worker and scheduler thread complete the same call.
* *Handle recorded after the fact.* A timeout may fire before its handle is in
  `timeouts_`.
* *Decide under the mutex, act after it.* `SendBytes` decides to call `SendNext`
  and calls it later; `SendNext` frees the queue's place before it writes.
* *Silence.* A request to a lost connection is dropped, a post to a stopped
  executor too.
* *In the table before it is known.* A connection can be sent to, closed and lost
  between its entry in `connections_` and `OnConnected`.
* *Death in the wrong order.* `TcpSystem` destroys its table before the connector
  whose thread still uses it, and leaves tasks in the executor.
* *Re-entrance.* A slot may subscribe, unsubscribe, move handles and emit while
  its own signal emits.
* *State shared behind the back.* All SpdlogLoggers share spdlog's thread pool;
  making or shutting down one silences another.

`PROJECT.json` lists each such hazard at its line, with the properties that
would catch it, or with the reason why none does.

## 2. The modules

| Module | Models | Extends or instantiates |
| --- | --- | --- |
| `SchedulingSystem` | the scheduling system | |
| `SchedulingSystem_proofs` | theorems about it | `SchedulingSystem` |
| `SequenceLemmas` | lemmas about queues: appending, removing at either end, order | |
| `Executor` | the contract of an executor (abstract) | |
| `QueuedExecutor` | the queued executor | `Executor` as the contract |
| `QueuedExecutor_proofs` | theorems about it, the refinement among them | `QueuedExecutor`, `SequenceLemmas` |
| `RpcCalls` | the contract of RPC calls (abstract) | |
| `RpcSystem` | RPC system, timeout handler; connections, executor and scheduler as it uses them | `RpcCalls` as the contract |
| `RpcSystem_proofs` | theorems about it, the refinement among them | `RpcSystem`, `SequenceLemmas` |
| `BoostTcpConnection` | one connection and its framing | |
| `BoostTcpConnection_proofs` | theorems about it | `BoostTcpConnection`, `SequenceLemmas` |
| `TcpSystem` | TCP system, facades, message processor and codec, acceptor, resolver, inline and queued executor | |
| `TcpSystem_proofs` | theorems about it | `TcpSystem`, `SequenceLemmas` |
| `Signal` | signals, subscriptions, the observable message handler | |
| `Signal_proofs` | theorems about it | `Signal`, `SequenceLemmas` |
| `Application` | application, simulation pipeline, system context, persistence system | |
| `Log` | the global logger, spdlog's loggers | |
| `Process` | an application's thread and others, which log | `Application`; `Log` as the logging of its threads |
| `Process_proofs` | theorems about application, persistence and logger, in their composition | `Process`, `SequenceLemmas` |
| `MC*` | instances for TLC | their module |

### Conventions

* A variable has the name of the member it models; variables without a
  counterpart are program counters (`thread`, `client`, `worker`, `at`, ...) or
  history variables, marked `history` where they are declared. No guard of an
  action that models code reads a history variable.
* A critical section that runs without blocking is one action. A mutex is
  explicit only where a thread keeps it over several steps, which is the
  scheduler thread between taking the lock and its next release (`MutexFree`).
* What runs outside of the mutex is a step of its own, so a notification, a
  callback or a decision acted upon later can be overtaken.
* A definition commented *Variant:* is a plausible slip in the code next to it.
  No specification uses one; replacing the definition that follows by it breaks
  the property that `PROJECT.json` names under `mutants`.

### SchedulingSystem

`AddTask` (fetch the id, floor the interval, compute the time point) is followed
by `InsertTask` (the critical section) and `NotifyClient` (`notify_one`);
`RemoveTask` by the same `NotifyClient`. The thread goes `top` (outer test and
lock), `loop` (lock held; `Collect` with its whole loop over `tasks_`), `run`
(callbacks without the lock, any order, because `tasks_` is an unordered map),
`Sleep` (lock, erase the one-shot tasks, block), `waiting` (`wait_until`), or
`TestIdle`, `BlockIdle`, `idleWaiting` (the wait with the predicate, split
because a notification can fall between the test and the block). `Initialize`
starts the thread, `Deinitialize` is `RequestStop`, `NotifyStop`, `Join`.

*Time.* A time point is kept as the ticks from now to it, floored at zero: the
code only compares time points with now or with each other in the future. This
keeps the state space finite without a bound on the clock. `time_point::max()`
is `Never`, above every interval, and does not count down.

*Left out.* The wrap-around of ids after 2^64 tasks; a callback that throws; a
callback that deinitializes its own system (a self-join, which `std::jthread`
refuses); `Initialize` of a system that is running.

### QueuedExecutor

`Post` and `PostNotify`, `Stop` and `StopNotify`; `ProcessBlocking` is `Enter`
(lock and predicate; `GoOn` swaps the queue into the worker's local one, `Block`
waits), `Wake`/`SpuriousWake`, then `TestRunning` or `BreakOff` and `RunTask`
for each task, and `BatchDone`. A post to a stopped executor returns without
effect, so `Post` is not enabled. `running_` is read without the mutex at line
27: a `Stop` since the worker last held the mutex may or may not be seen
(`MaySeeRunning`, `MaySeeStopped`).

`Executor` is what those who post rely on: an accepted task is settled at most
once, and given up only when the executor is closed. `ImplementsExecutor` is the
refinement: pending tasks are those in the queue and in the local queues.

### RpcSystem

A call is `Subscribe`, `Register`, then, with a timeout, `ScheduleTimeout` and
`RecordTimeout`, then `Send`. Answers come from the peer (`Answer`: on any
connection, repeated, of either kind), wait in the executor's queue, and are
taken by a worker (`Deliver`, with the tests of connection and id in `Accepts`).
`CollectTasks` and `RunTimeout` are the scheduling system as its own model
specifies it: one round of the thread's loop looks at every task in the table,
collects those that are due and leaves the others *seen*; a task is collected
once, and `RemoveTask` is too late for a task that is collected. `HandleCallback` is `EraseCall`, `ForgetTimeout`,
`RemoveTask`, `Tell`, on a worker or on the scheduler thread.

`RpcCalls` is what callers rely on: a call is opened once, one outcome is decided
and that outcome is told. The two subscriptions of a call, made and dropped
together, are one element of `slots`.

*Left out.* `Call` twice on one builder; a call without a timeout callback needs
no case of its own, because the handler always schedules the lambda that wraps
it. The signals' map is changed without a mutex in the code; here each change of
`slots` is one step.

### BoostTcpConnection

A sender is `FindConnection` (the look-up of `TcpSystem::Send`), `SendBytes`
(queue; go on if the queue was empty), `PopFrame` and `StartWrite` (`SendNext`).
`async_write` is a composed operation of boost: it moves a frame in several
pieces (`WritePiece`), and ends in `FinishWrite`, which calls `SendNext`, or in
`FailWrite`. Reading is `ReadLength` (a frame that is too long ends it),
`ReadPayload`, `FailRead`. Handlers run one at a time on the `io_context`'s
thread (`IoFree`). `Close` is the peer's or ours; afterwards pending operations
may still finish, or fail.

*Left out.* Payloads; the exception that `shutdown` throws on a socket that is
not connected any more, which changes no state of the connection.

### TcpSystem

The connector's io thread runs one completion handler at a time. A handler that
is one critical section, or that nobody can observe half done, is one action:
`Resolved`, `Read`, `FinishWrite`. One that others can overtake is several, and
`io` says where it is: `Accepted` or `Connected` puts the connection into the
table (`Emplace`), `InitializeConnection` gives it its facade and starts reading,
`OnConnected` tells the owner, `StartAccept` re-arms the acceptor; a failed read or
write removes the connection (`OnDisconnect`), then `OnDisconnected` tells the
owner. Application threads look a connection up (`Send`, `Broadcast`,
`FindToDisconnect`) and use it later (`SendBytes`, `Disconnect`).

The handlers test only their error. So what had completed when the socket was closed
still has its handler run as on an open one: `Close` puts such a read into
`lateReads`, and counts such writes in `lateWrites`. A message may therefore be
received after `Disconnect`, and after the `OnDisconnected` of a failed write.

A frame is one of five kinds: too long, without an envelope, of an unknown type,
undecodable, or a message. `Process` posts the last two to the executor and drops
the two before; `HandleMessage` decodes the payload where the task runs: on the io thread (`InlineExecutor`), or in `RunTask` (`QueuedExecutor` with
one worker, whose order `OneWorkerIsFifo` establishes in its own model).

The destructor is `DestroyTable`, `CloseAcceptor` (an accept in flight is aborted,
and not re-armed), `StopIo`, `JoinIo`: members die in reverse order, so the table
and its mutex go first, and handlers that run until the connector has joined its
thread use them. That is undefined behaviour. Here such a use has no effect on
anyone else, so no property can tell that it happened; what is then still checked
is that nothing of the system is heard once it is gone, except tasks left in an
executor, which hold a pointer to the dead processor and may as well end the
process (`RunTask`).

*Left out.* Connections without an event handler, which are told nothing; calls
that race with the destructor, which its owner must prevent; encoding; the write
queue of a connection, of which only the number of write chains is kept.

### Signal

One thread uses a signal: the code protects `slots_` from nobody. `stack` holds the
emissions under way, each with the ids it copied and has still to visit, in any
order because the map has none that matters. A slot that runs may do all that
the program may, an emission within the emission included. `Subscribe`
is the assignment of a new subscription to a handle, which may hold another and
gives that up afterwards. Two signals share `id_counter_`, as those of one signature do.

*Left out.* A signal destroyed while it emits, and a slot's captures used after
the slot erased itself: undefined behaviour.

### Application, Log and Process

`main` is where `RunBlocking` or `RunSimulation` is; `index` is the progress of the
loop it is in, over the systems in order of registration, in reverse, or over the
phases of the pipeline. `Register` keeps a system that is there and enters it once
more; one that requires what is missing aborts. `persistence` is the one system
whose inside is known: it initializes its store (`OpenStore`), then each adapter in
the order of an unordered map (`InitializeAdapter`), and so does it deinitialize
them, the store first (`CloseStore`, `DeinitializeAdapter`); `InitializeSystem` and
`DeinitializeSystem` end any system's turn. `store` and `ready` count
initializations less deinitializations, because a system registered twice is
initialized twice, and `missed` those before an adapter was registered. Whatever is
initialized or deinitialized may throw (`Throw`): then nothing that follows happens,
and the process ends by way of `Terminate` or elsewhere.

A call of `Log` is split where the code releases the mutex: `GetLogger`, then
`UseLogger`, or `ShutDownLogger` and `ReplaceLogger`. `MakeLogger` and `TakePool` are
the constructor of a SpdlogLogger, whether or not it is set then. `SetLogger` sets any
logger that there is: made by this thread or another, for the first time, again, or
after it was shut down; `SetNoLogger` sets none. That a pool ends
when it is replaced or shut down, and that a logger without its pool loses what it
is given, is the behaviour of spdlog's `init_thread_pool`, `thread_pool` and `shutdown`,
which are outside of the repository.

`Process` composes them: the main thread is in one call at a time and logs in the
hooks, other threads log and quit at any time. What an application does in its
hooks is not in the repository, so it may do all that the library offers.

*Left out.* Levels and sinks; loggers other than SpdlogLogger and NullLogger; `Get`
and `Require` of adapters; an adapter registered by the `Deinitialize` of a system or
by another adapter; an exception in a hook; which hooks an application overrides.

## 3. What the runs check

| Run | Instance | Shows |
| --- | --- | --- |
| `sched_safety` | 2 clients, 2 tasks, intervals of 1 and 2 ticks | one-shot tasks run at most once (`OneShotAtMostOnce`), a removed task enters no later batch (`RemovedStaysSilent`), the wake time covers every task seen (`WakeCoversSeen`), no task runs early and the floor holds (`RateLimited`), nothing runs after `Deinitialize` (`QuietWhenStopped`) |
| `sched_live` | 1 client, 2 tasks, intervals of 1 and 2 | a task the thread has looked at runs (`SeenTaskRuns`), a periodic task rescues one whose notification was lost (`HeartbeatFindsUnseen`), a stop that finds the thread asleep ends it (`StopReachesSleeper`) |
| `sched_lost_wakeup` | 1 client, 2 tasks | *violated*: a task added while callbacks run may never run |
| `sched_lost_stop` | 1 client, 1 task | *violated*: `Deinitialize` may never return |
| `queued_executor` | 2 posters, 2 workers, 3 posts | the contract (`ImplementsExecutor`), no lost wakeup (`NoLostWakeup`), posting order with one worker (`OneWorkerIsFifo`), accepted tasks run (`AcceptedTaskRuns`), `Stop` releases a lone worker (`StopReleasesWorker`) |
| `rpc_safety` | 2 requests, 2 connections, 1 worker and the timer | one outcome per call (`OneOutcomePerCall`), given by the peer that was called (`ToldWhatWasAnswered`), an answered call leaves no timeout, task or slot (`AnsweredCallLeavesNothing`), slots are those of pending calls (`SlotsFollowCalls`) |
| `rpc_live` | 1 request, 2 connections, a queue of 2 | a call whose timeout the scheduler has looked at ends, even without its connection (`SeenTimeoutEndsCall`), an answered call ends (`AnsweredCallEnds`) |
| `connection` | 2 senders, 3 frames of 2 pieces | the queue is always served (`QueueIsServed`), no frame is lost or taken twice (`EachFrameInOnePlace`), frames that wait for each other are intact (`PacedFramesIntact`), a closed connection is reported (`CloseIsReported`) |
| `tcp_system` | 1 sender, 2 connections, 2 frames, 2 look-ups; an acceptor with a queue, a resolver without | with reads and writes that completed before a close: the owner hears of a connection in order (`EventsInOrder`), the table is what the owner knows (`TableKnowsWhoIsUp`), messages are handled once and in order (`HandledAsReceived`), no `Connect` is forgotten (`ConnectIsKept`), a lost connection is reported (`LossIsReported`), a destroyed system is silent (`OnlyTasksOutlive`) |
| `signal` | 2 signals, 3 handles, 4 subscriptions, 2 nested emissions | a slot lives as long as its one handle (`EachSlotHasOneOwner`), an emission calls all who stay subscribed (`EmissionReachesWhoStayed`) and nobody else (`OnlyWhoStayedIsCalled`) |
| `process` | 3 systems, 1 adapter, 2 phases, 2 loggers, 2 threads | requirements are up (`DependenciesUp`), adapters follow the store, count for count, through repeated registration and exceptions (`AdaptersFollowStore`), `Log::Shutdown` replaces only what was shut down, unless one was set meanwhile (`DroppedOnlyInOverlap`), a closed logger is global only until that (`ClosedIsOnItsWayOut`), the logger made last has the pool and prints (`QuietLoggerPrints`), a `Quit` is not lost (`QuitEnds`) |

Several of these say what holds *in spite of* a weakness:

* `EventsInOrder` admits a second `OnDisconnected`, and a message, after a failed
  write, and a queued message after `OnDisconnected`: all of these happen.
* `DependenciesUp` is for systems registered once: registered twice, a system may be
  deinitialized while one that needs it is up. After an exception the systems that
  were initialized stay up; no property asks that they come down.
* `AdaptersFollowStore` names the interval in which an adapter is in use on a closed
  store (`Deinitialize` closes the store first), which an exception makes permanent,
  and says that an adapter registered after an initialization is deinitialized more
  often than it was initialized.
* `DroppedOnlyInOverlap` excepts a logger set after a `Shutdown` has read the global
  one: that one is replaced without being shut down. A logger that `SetLogger`
  itself replaces is never shut down.
* `QuietLoggerPrints` is for the logger made last: one made before it is silent,
  global or not, and so are all that were made before a `Shutdown`.
* `QuitEnds` excepts a `Quit` before `Run`, which `running_ = true` overwrites.
* `SeenTimeoutEndsCall` excepts a timeout inserted while callbacks run and not looked
  at since: the lost wakeup below may leave it, and its call, for ever.
* `PacedFramesIntact` is for frames each queued after the last was written. Else two
  chains of writes may be under way on one socket (`boost_tcp_connection.cpp:46`:
  `SendNext` pops a frame, then writes it, and in between `SendBytes` finds an empty
  queue), and frames may overtake each other or mix; nothing in the repository
  claims otherwise.

### The two violations

* **A lost wakeup of the scheduler** (`scheduling_system.cpp:97`). One one-shot
  task is due; while its callback runs another task is added, and its
  notification finds nobody waiting. The thread then erases the first task and
  sleeps until `time_point::max()`. `HeartbeatFindsUnseen` says when this heals:
  as soon as a periodic task is served.
* **A lost stop** (`scheduling_system.cpp:20`). The thread has tested the
  predicate and not yet blocked; the stop is requested and notified without the
  mutex. The thread sleeps, the join waits. The same happens while callbacks
  run before line 97.

### Bounds, and why they are enough

* Two clients, posters or senders are what a race in this code needs: one that
  has decided, or inserted, and one that comes between. `Workers` has two where
  workers compete for a queue, and one in the RPC runs, where the other party of
  the race is the scheduler thread.
* `MaxTasks` = 2 lets a task be due while another is seen, removed or unseen;
  `MaxInterval` = 2 with a floor of 1 separates the floor (`duration` 0 and 1)
  from an interval above it, and lets one task be due twice before another.
* `MaxPosts` = 3 fills both workers' batches and leaves a task in the queue.
* `MaxQueued` bounds the executor's queue in the RPC runs: with one place an
  answer, its repetition and an answer on the wrong connection still follow each
  other; with two they wait together.
* `MaxFrames` = 3 has one frame in flight, one popped and one queued; `Pieces` =
  2 is the least with an inside. `MaxIncoming` = 1 because a reader handles one
  frame at a time.
* `tcp_system`: two connections keep the table and the order of messages apart; two
  frames can overtake each other; two look-ups give a send and a disconnect, or two
  sends, to one connection; two `Connect` calls of the resolver are in flight
  together. `MaxFrames` counts the reads that had completed at a close with those handled
  (`MoreFrames`). Each connector and each executor is in one setup (`MCSetups`): an
  executor never sees the connector. All four setups together pass the same run, with twice
  the states.
* `signal`: an emission within an emission of the same or the other signal, with a
  handle for each of two slots and one to move or replace; four subscriptions
  let a new slot come while two are emitted to.
* `process`: three systems form a chain of requirements; three registrations repeat
  one of two, or the persistence system with an adapter registered between. One adapter
  is enough, as adapters do not see each other. Two loggers and two threads let each
  be set, replaced and shut down while the other thread does the same. `MaxMade` bounds registrations and loggers together: the two
  halves of a process share nothing, so many of both show no more.
* Clients, requests and connections are interchangeable, and the safety runs
  use that symmetry. The runs with liveness properties do not.
* `CHECK_DEADLOCK FALSE` is set where the system comes to rest by itself: when
  every prepared call is over, when every frame is sent and the socket closed, when
the system is destroyed, or when the application has ended.

### Fairness, and why the code justifies it

Weak fairness for each thread's own steps: the operating system runs every
thread that can run, and a call that has begun goes on. Time passes. In `rpc_live` a timeout that
the scheduler has looked at is collected in the end, which is what `SeenTaskRuns`
shows of it (`CollectSeen`, weak); of one it has not looked at nothing is assumed,
because the lost wakeup may leave it for ever. A thread that has called `ProcessBlocking`
calls it again, because its caller is a loop. Nothing is assumed about callers,
about the owner's decision to stop, about a peer, or about spurious wakeups:
those may never happen.

In `tcp_system` a handler that has begun ends (weak), and the `io_context` serves
its ready handlers in the order in which they became ready, so a failed read is not
passed over for ever although others are served between (strong, for each
connection), and neither is one that completed before its socket was closed
(`EndRead`). In `process` the main thread goes on whenever it is not in a call of
`Log` (strong: a hook may log again and again, but ends), and its calls return.

## 4. What is proved

Every safety invariant and every action property of the passing runs, and both
refinements, are theorems: they hold for all values of the constants that
satisfy the assumptions of the modules. Those assumptions are listed with each
module below; they say what the constants are (numbers, sets, names that
differ) and nothing about how many there are, so the bounds of section 3, and
the counters that keep TLC's state space finite, are arbitrary here.

Each proof has the same shape: an inductive invariant `IInv`; `Init => IInv`
(`InitInv`); a step lemma for each group of its conjuncts, with one step for
each action; the theorem `Invariance`, `Spec => []IInv`; and from it the
properties. TLC has checked each `IInv` on the instance of the module's run
before it was proved.

### SchedulingSystem_proofs

From `MaxTasksAssumption` and `IntervalAssumption`:

| Theorem | States |
| --- | --- |
| `TypeCorrect` | `Spec => []TypeOK` |
| `OneShotCorrect` | `Spec => []OneShotAtMostOnce` |
| `WakeCorrect` | `Spec => []WakeCoversSeen` |
| `RemovedCorrect` | `Spec => RemovedStaysSilent` |
| `RateCorrect` | `Spec => RateLimited` |
| `QuietCorrect` | `Spec => QuietWhenStopped` |

`IInv` is the conjunction of `TypeOK` and

* `IdsUnique`: every id in the table, in a batch, run or removed has been handed
  out, an id that an `AddTask` has fetched and not inserted yet is none of them,
  and no two clients hold one. Without it an insertion could bring back a task
  that has been removed or has run.
* `BatchInv`: callbacks are left to run only while a batch runs, and its one-shot
  members are listed in `deleted_tasks`; a one-shot task that has run is in no
  batch, and in the table only until its own batch ends; a removed task is not in
  the table; there is a thread exactly while the system is not stopped.
  `OneShotAtMostOnce`, `RemovedStaysSilent` and `QuietWhenStopped` are not
  inductive without it.
* `TimeInv`: from the collection until the thread wakes, `next_wake_time` is at
  most the remaining time of each task that it has seen and will keep, and the
  age and the remaining time of a task add up to at least its interval. The first
  gives `WakeCoversSeen`, the second `RateLimited`.

The facts about data are three lemmas: `MinIsLeast` (the least element of a finite
set of numbers), `NextWakeTimeIsLeast` and `RearmedType`. `OnlyDueCollected` relates
an action's new batch to the tasks that were due, for the two action properties.

### QueuedExecutor_proofs

From `MaxPostsAssumption`, for any posters and workers:

| Theorem | States |
| --- | --- |
| `TypesAreKept` | `Spec => []TypeOK` |
| `NoWakeupIsLost` | `Spec => []NoLostWakeup` |
| `OneWorkerRunsInOrder` | `Spec => []OneWorkerIsFifo` |
| `ExecutorIsImplemented` | `Spec => ImplementsExecutor` |

`NoLostWakeup` is inductive once the types are known: whatever leaves a worker waiting
on a task also leaves a notification to come. `OneWorkerIsFifo` needs more: that
queue and batches are in the order of the posts, that a batch is older than the
queue it was taken from, and that a lone worker has run what is older than what
it holds (`QueuesInOrder`, `RanInOrder`). With two workers the last part says nothing,
and the order is indeed lost. For the refinement each step is shown to be an action of
`Executor` or to leave its variables alone; it needs `BatchesMatchWorkers`, for a
task is pending in the local queue of the worker that took it and nowhere else.

### RpcSystem_proofs

From `TimerAssumption` (the scheduler thread is no worker), for any requests,
connections and workers:

| Theorem | States |
| --- | --- |
| `AnswersAreTrue` | `Spec => []ToldWhatWasAnswered` |
| `SlotsAndCallsAgree` | `Spec => []SlotsFollowCalls` |
| `AnsweredCallsAreGone` | `Spec => []AnsweredCallLeavesNothing` |
| `OneOutcomeIsTold` | `Spec => OneOutcomePerCall`, the refinement of `RpcCalls` |

* `OneDecides`: a handler past its erasure is the only one of its call, the call is
  then in `calls_` no more, and its outcome is not told yet. This is the argument of
  the refinement: the erasure under `mutex_` decides the race.
* `AnswersWereGiven`: an answer in the executor's queue that comes from the call's own
  connection, and an outcome that a handler carries, were given by the peer.
* `ArmedIsRecorded`: an armed timeout is in `timeouts_`, except before
  `RecordTimeout` and between `ForgetTimeout` and `RemoveTask`. With
  `AnswerCancelsTimeout` it gives `AnsweredCallLeavesNothing`: an answer comes only
  after the request was sent, so after the handle of its timeout was recorded.

### BoostTcpConnection_proofs

From `IoAssumption` (the io thread is no sender) and `BoundsAssumption`, for any
senders, frames and pieces:

| Theorem | States |
| --- | --- |
| `QueueIsAlwaysServed` | `Spec => []QueueIsServed` |
| `NoFrameIsLostOrDoubled` | `Spec => []EachFrameInOnePlace` |
| `PacedFramesAreIntact` | `Spec => []PacedFramesIntact` |

* `PlaceInv` numbers the frames as they are queued and gives each one place
  (`OnlyQueuedFrames`, `OnePlace`); `HeldWhileWriting` ties a popped frame to the thread
  that will write it.
* `QueueIsServed` is inductive given `PlaceInv` and `FailedOnlyWhenClosed`.
* `LastFrameOnly`: while the senders wait for each other, only the last frame is
  under way, and the wire holds the frames before it and as many of its pieces as
  were written. `PacedFramesIntact` speaks of the wire alone and is not inductive.

### TcpSystem_proofs

From `SetupsAssumption` and `BoundsAssumption`, for each connector and executor, any
senders, connections, frames and calls:

| Theorem | States |
| --- | --- |
| `ConnectsAreKept` | `Spec => []ConnectIsKept` |
| `EventsAreInOrder` | `Spec => []EventsInOrder` |
| `TableIsKept` | `Spec => []TableKnowsWhoIsUp` |
| `MessagesStayInOrder` | `Spec => []HandledAsReceived` |
| `TheRestIsSilence` | `Spec => OnlyTasksOutlive` |

* `AcceptGoesOn` and `ConnectsAddUp` account for the accepts and connects under way:
  `ConnectIsKept`, and that only an acceptor accepts, so that the handlers of a
  resolver re-arm nothing.
* `OnlyMadeOnes`: whatever refers to a connection refers to one that was made, and its
  owner has heard of all that were made but the one in the making. `GoneIsNotRead`: a
  connection that is reported gone is read no more, unless a write failed. Both are
  needed for `EventsInOrder`: else a read could report a connection a second time, or
  before `OnConnected`.
* `TableIsTrue` is `TableKnowsWhoIsUp` for each connection, and before `Initialize` too.
* `FramesInOrder` and `RestIsWaiting`: tasks are in the order in which their frames were
  read, and the messages not yet handled are those that wait in a task, so that the
  first task that carries a message of a connection carries the next one
  (`HeadIsNext`). This gives `HandledAsReceived`, inline or queued. `AppendedMessages` says what one
  event more does to the count of messages.
* `JoinedIsFree`: a joined io thread is in no handler, for `OnlyTasksOutlive`.

### Signal_proofs

From `BoundsAssumption`, for any signals, handles and subscriptions, to any depth of
emission:

| Theorem | States |
| --- | --- |
| `SlotsHaveOneOwner` | `Spec => []EachSlotHasOneOwner` |
| `EmissionsReachWhoStayed` | `Spec => []EmissionReachesWhoStayed` |
| `NoOneElseIsCalled` | `Spec => OnlyWhoStayedIsCalled` |

`IdsAreUnique` (no two handles share an id, even one whose signal is gone) and
`SlotsMatchHandles` give the first. `EmissionsAreSound` says of every emission on
the stack, not only of the innermost, that who stayed is still subscribed and has been
called or is in the copy, and that what is in the copy and still subscribed has
stayed: a new slot has an id that no copy holds, because ids are never handed out
twice.

### Process_proofs

From `SystemsAssumption`, `BoundsAssumption` and `NullLoggerAssumption` (the null
logger is no other), for any systems, requirements, adapters, phases, threads and
loggers:

| Theorem | States |
| --- | --- |
| `DependenciesStayUp` | `Spec => []DependenciesUp` |
| `AdaptersStayWithStore` | `Spec => []AdaptersFollowStore` |
| `OnlyOverlappingIsDropped` | `Spec => []DroppedOnlyInOverlap` |
| `ClosedLoggersGo` | `Spec => []ClosedIsOnItsWayOut` |
| `QuietLoggersPrint` | `Spec => []QuietLoggerPrints` |

`IInv` is `AppInv /\ LogInv`, which share no variable: a step of one half leaves the
other alone.

* `RequiredComesFirst` (the order of initialization extends the requirements) and
  `UpFollowsLoops` (what is up is a prefix of that order, less what has been
  deinitialized) give `DependenciesUp`.
* `StoreFollowsLoops`: the store is open as often as the loop of `Initialize`, or of
  `Deinitialize`, has come to the persistence system among the registrations
  (`Opened(k)`, whose change from one registration to the next is the lemma
  `CountOpened`), and once more or less while it is inside that system.
  `AdaptersFollowLoops`: each adapter is ready as often as the store, less what it
  missed, but for the one the loop has yet to come to. The two give
  `AdaptersFollowStore`, which says nothing of the loops and is not inductive.
* `MadeBeforeUsed`: a logger is made once, by one thread, and nobody has it before.
* `ShutdownKnowsGlobal`: from its reading to the end of its `ShutDownLogger`, a
  `Shutdown` finds global what it has read, what was shut down or none, unless a logger
  was set meanwhile. With it `DroppedOnlyInOverlap` (`ReplacedIsShutDown`) and
  `ClosedIsOnItsWayOut` (`ClosedIsReplaced`) are inductive, whoever sets which logger,
  for the same one may be shut down by several threads and set between.
* `LastHasPool`: the pool is that of the logger made last, if there is a pool, though
  its constructor may still be on the way to take it; `QuietLoggerPrints` follows.

### Only model-checked

* *Liveness*, for fairness and `ENABLED` are out of the prover's reach:
  `SeenTaskRuns`, `HeartbeatFindsUnseen`, `StopReachesSleeper`, `AcceptedTaskRuns`,
  `StopReleasesWorker`, `SeenTimeoutEndsCall`, `AnsweredCallEnds`, `CloseIsReported`,
  `LossIsReported`, `QuitEnds`.
* The two violations: they are counterexamples, and the runs show them.

`HandledAsReceived` is stated event by event (the n-th message heard is the n-th
received). Stated as an equality of subsequences it would need an induction over
sequences, which the prover cannot do.

## 5. Plan

1. *Done:* `SchedulingSystem`, its runs and its proofs.
2. *Done:* `Executor`, `QueuedExecutor`; `RpcCalls`, `RpcSystem`;
   `BoostTcpConnection`.
3. *Done:* `TcpSystem` with acceptor, resolver and executors; `Signal`;
   `Application`, `Log` and `Process`.
4. *Done:* the safety properties of all of these, and the refinements of `Executor`
   and `RpcCalls`, proved.
5. Next: an abstract specification of a TCP connection as its owner sees it
   (connected, messages, disconnected) that `TcpSystem` implements; sharper
   properties where section 3 says that one holds only in spite of a weakness.

## 6. Not modelled

* `chatcore-api`: message types and their JSON conversions, data without
  operations. `Arguments` and the encoding of `JsonNetworkCodec`: conversions of one
  value without state.
* The SQLite store: three pragmas. The sinks, levels and flushing of spdlog; the text
  of a stack trace.
* `CommandsSystem`, `Registry`, `Resource`, `ResourceStore`, `DirectMessageHandler`,
  `variadic`: one call of a standard container on a table that is filled before it
  is read, or code that runs at compile time.
* Undefined behaviour that the library leaves to its users: a system used after
  its context is gone, `Call` twice on a builder, a signal used by two threads or
  destroyed while it emits. The systems of a context die in the order of an
  unordered map; which of them then uses another that is dead is not modelled.
