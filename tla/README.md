# ArkUI-X: specification, model checking and proofs

ArkUI-X runs ArkUI applications on Android and iOS. Everything an application
does after start-up arrives through one component, the *event handler*
(`src/app_framework/ability/ability_runtime/cross_platform/frameworks/native/base/event_handler`,
below `EH/`): the ability lifecycle, the JavaScript runtime and its timers, the
HiAppEvent observers and the plugins all post events and tasks to an
`EventHandler`, and one thread per `EventRunner` takes them out of an
`EventQueue` and runs them. This directory holds TLA+ specifications of that
component and of two that work on top of it, the HiAppEvent watchers and the
bridge plugin, TLC configurations that check them, and proofs checked by TLAPS.

## 1. Inventory

### 1.1 The event handler (modelled)

| Part | State | Operations | Hard behaviour |
|---|---|---|---|
| `EventQueue` (`EH/src/event_queue.cpp`) | four sub queues with turn counters, the idle list, `wakeUpTime_`, `idleTimeStamp_`, `isIdle_`, `finished_`, the waiter, the fd listeners; one mutex | `Insert`, five `Remove`s, `RemoveOrphan`, `GetEvent`, `GetExpiredEvent`, listeners, `Prepare`, `Finish` | selection by due time, priority, turns and idle mode; lost wake-ups; replacement of the waiter under a sleeping thread |
| `EventHandler` (`EH/src/event_handler.cpp`) | its runner; a thread-local current handler | send, remove, sync send, listeners, distribute, destructor | stamps events outside the lock; is destroyed while its events are queued, taken or being sent, possibly on the loop thread |
| `InnerEvent`, its pool (`EH/src/inner_event.cpp`) | owner, body, times; 64 buffered objects | get, drop | objects are reused at once |
| `EventRunner`, `EventRunnerImpl`, `ThreadCollector` (`EH/src/event_runner.cpp`) | thread, running flag, collector's lists | create, run, stop, deposit, reclaim | stop before the loop has started, threads that end before they are deposited |
| `NoneIoWaiter`, `EpollIoWaiter` | `pred_` or the awaken fd, `waitingCount_` | wait, notify, add and remove fds | notify between the unlock and the sleep; failure of epoll |
| `PlatformEventRunner` (`EH/src/platform/*`) | a timer in the platform's looper | `Run`, `NotifyAll`, `SetTimer` | the timer is set without the lock |

Interactions: senders call `EventHandler::SendEvent`, which stamps the event and
calls `EventQueue::Insert`; `Insert` notifies the waiter. The loop thread calls
`GetEvent` (or `GetExpiredEvent` on the platform's main thread), then
`EventHandler::DistributeEvent`, which calls back into the application. epoll
calls back into `HandleFileDescriptorEvent`, which sends a task of priority HIGH
to the same queue. Releasing the last reference to a handler, on whatever
thread, calls `RemoveOrphan`. All of them share the queue under `queueLock_`.

What makes it correct: every event sent is processed once, not before it is due,
in the promised order, unless it is cancelled or its handler goes away; low
priorities are not starved; nothing runs for a destroyed handler; a sleeping
thread is woken in time; `Finish` ends the loop.

### 1.2 HiAppEvent (modelled)

`hiviewdfx/hiappevent` (below `HA/` for the native part) records application
events and hands them to watchers.

| Part | State | Operations | Hard behaviour |
|---|---|---|---|
| `AppEventStore` (`HA/observer/app_event_store.cpp`) | the events, the observers' sequences, rows that map events to observers; in memory, each table with its lock | insert, query, delete, clear | an event gets a row for each observer, one critical section at a time, and is deleted after one of them received it |
| `AppEventObserverMgr` (`HA/observer/app_event_observer_mgr.cpp`) | the watchers by sequence, `hasHandleTimeout_`; `observerMutex_` | register, unregister, handle events, handle timeouts, clear | a new watcher reads old events before the lock under which it replaces the old one |
| `AppEventObserver` | rows, size and time counted against the condition | process event, process timeout | the timer event renews itself |
| `NapiAppEventWatcher` (`hiappevent/js/napi`) | receive and trigger contexts | `OnEvents`, `OnTrigger`, destructor | the contexts are used by tasks of the JS thread; a batch may replace another |
| `NapiAppEventHolder` | a sequence, sizes | `takeNext` | takes and deletes while events arrive |

Writers call from any thread, the timer runs on the thread of
`AppEventHandler` (an `EventHandler`); callbacks and interface calls run on the JS
thread. Correct means: an event that an observer accepted is given to it or stays there for
it, contexts live as long as tasks that use them, one timer event is on its way as long as
some watcher waits for its time.

### 1.3 The bridge plugin (modelled on Android)

| Part | State | Operations | Hard behaviour |
|---|---|---|---|
| `BridgeWrap`, `Bridge` (`src/plugins/bridge`) | one `Bridge` for each name with a count of its JS objects; pending calls by name and number, pending messages in order | create, delete, call, send, results and responses | results arrive on other threads, the bridge may be deleted |
| `BridgeManager` (C++) | receivers by name, `bridgeLock_` | register, unregister, find | calls into Java with the lock held |
| `BridgeManager`, `BridgePlugin` (Java) | plugins by name, `bridgeMapLock_`; `isAvailable_`, the listener | register, unregister, call, message | calls into C++ with the lock held |
| bridge thread, pool, main thread, async works | tasks | - | a call passes through all four |

Correct means: once registrations are over both sides agree whether the other is there;
each call is settled once, by its own result; each message gets its own response.

### 1.4 The rest of the repository

| Component | State and operations | What would make it correct | Here |
|---|---|---|---|
| application and ability lifecycle (`frameworks/native/app`, `ability`) | stages, abilities, foreground state; created and dispatched from the platform's activity callbacks | lifecycle callbacks in a legal order for every ability; foreground and background callbacks alternate | planned |
| ability delegator | monitors, expected states | a waiting monitor is released by the change it waits for or by its time-out | planned |
| plugin `request` | tasks and their states | tasks follow the legal state graph | later |
| JS runtime, N-API bindings | glue around the ArkTS virtual machine, which lives elsewhere | - | no |
| Want, wrappers, configuration, bundle parser | data types and JSON parsing, sequential | - | no |
| window manager, graphics, surfaces, ArkUI web, resource management | calls to the platform; engine parts in other repositories | - | no |
| Android and iOS adapters (`arkui_for_android`, `arkui_for_ios`) | Java, JNI and Objective-C bindings | - | no |
| other plugins (files, network, media, location, i18n, ...) | wrappers of platform services | - | no |
| build plugins | GN and Python | - | no |

`PROJECT.json` lists every component with the reason why it is left out, and
every hazard with the properties that would catch it.

## 2. Modules

| Module | What it models |
|---|---|
| `EventQueue` | senders, removers, destructors and the loop thread around the lists |
| `EventQueueTurns` | `EventQueue` with a history variable that counts how often an overdue head is passed over |
| `EventDelivery` | the abstract promise: a set of pending messages, delivered or cancelled once |
| `EventLoop` | `EventQueue` with `GetEvent`'s blocking, the two waiters, `Prepare`, `Finish` and the fd listeners |
| `PlatformEventRunner` | `EventQueue` under the timer-driven runner of the platform's main thread |
| `ThreadCollector` | creation, release and threads of runners that own a thread; the daemon that joins them, and the exit |
| `EventRunner` | `Run` and `Stop` of runners without a thread of their own, called by several threads |
| `SyncEvents` | `EventRunner` composed with `SendSyncEvent`: senders, their waiters, handlers that send and stop |
| `AppEventObservers` | HiAppEvent: writers, the store, watchers, the timer, callbacks, holders, clearing |
| `BridgeRegistry` | how a bridge and its plugin find each other, on both sides of the JNI |
| `BridgeCalls` | `BridgeRegistry` composed with `callMethod` and `sendMessage` and the threads they pass through |
| `EventQueue_proofs` | lemmas about removal from and insertion into lists; the invariant of `EventQueue` |
| `EventQueueOwners_proofs` | more theorems about `EventQueue`: owners, turns, order, the refinement |
| `EventLoop_proofs`, `PlatformEventRunner_proofs`, `ThreadCollector_proofs`, `SyncEvents_proofs`, `AppEventObservers_proofs`, `BridgeCalls_proofs` | theorems about these modules |
| `MC*` | the bodies, conditions and symmetries of the instances TLC checks |

### EventQueue

The grain is the critical section: each action that touches the lists is what
the code does under `queueLock_`. `SendEvent` and `Insert` are two actions,
because `EventHandler::SendEvent` reads the clock and stamps the event
(event_handler.cpp:65-74) before `EventQueue::Insert` takes the lock; in
between other threads insert, the clock moves and the loop scans. The loop thread
is at one of three places (`stage`): before `GetExpiredEventLocked` ("get"),
holding an event it took ("taken"), inside `DistributeEvent` ("running").

| Code | Model |
|---|---|
| `subEventQueues_[i].queue`, `idleEvents_` | `queue[0..3]`, `queue[IDLE]` |
| `handledEventsCount`, `maxHandledEventsCount` | `handled[i]`, `MaxHandled` |
| `InnerEvent` fields; objects of the pool | `ev[e]`; `Event`, `Free` |
| `weak_ptr` owner that can be locked | `Alive(owner)`: the application holds the handler, or the loop's `currentEventHandler` does |
| `~EventHandler` | `dtor[h]`: "app" or "loop" (the thread) from the release of the last reference until `RemoveOrphan` has returned, then "done" |
| `PickEventLocked`'s scan | `Candidates` (lists for which `CheckEventInListLocked` is true), `Picked` (which one the scan settles on), `CountTurn`, `ScanTime` (what the scan leaves in `wakeUpTime_`, smaller when it breaks off) |
| `GetExpiredEventLocked` | `PickEvent`, `TakeIdleEvent`, `FindNothing`, with `EnterIdle` |
| `event.reset()` | `ReleaseEvent`: the object is blank and free |

Priorities, due times and stamps are numbers; ids, names and parameters are
members of small sets (`Body`); a string id is a member of `StringKey`.

Reading the code this way turned up one thing that is easy to miss: an event whose owner is
gone is still taken by the loop (its weak pointer fails only then), and a
handler the application has released is kept alive by the loop thread's
`currentEventHandler` until the next event is distributed. A destructor may
therefore run in the middle of the loop thread's `DistributeEvent`, where it
blocks that thread (`LoopIsFree`).

A thread inside `SendEvent` holds a reference to its handler. So `Release` waits
for the sends of the handler, except that the loop thread, in a callback of that
same handler, may drop the application's reference and go on sending.

### EventLoop

`GetEvent` is `GetExpiredEvent`, followed in the same critical section by
blocking when nothing is due. With a `NoneIoWaiter` waking up, clearing `pred_`
and owning the lock is one step (`NoneWakes`). With an `EpollIoWaiter`, the
thread returns from `epoll_wait` (`EpollReturns`), decrements `waitingCount_` and
drains the awaken fd (`EpollUncounts`), calls back for each descriptor without
the lock (`HandleFileDescriptorEvent`: looks up the listener, locks its owner,
starts a HIGH send), and takes the lock again (`Relock`). `blockedOn` is the
waiter whose `waitingCount_` is 1. `EpollFails` and `ResetWaiter` are the error
path of `WaitUntilLocked`. `SwapWaiter` is
`EnsureIoWaiterSupportListerningFileDescriptorLocked` on platforms with epoll; on
iOS that function leaves the `NoneIoWaiter` in place, whose `AddFileDescriptor`
refuses, so there are no listeners there.

`LoopCancel` is any cancellation of `EventHandler`: all events, or an event or a task by its id,
parameter or name. A descriptor's task is named after the place in the code that posts it, and
nobody removes tasks by that name.
`RemoveOrphan` locks twice; its second half, which drops listeners, is an action
of its own (`RemoveOrphanListeners`). A posted fd task holds a weak pointer to
its listener; `outdated` remembers the descriptors whose listener was removed
after the task was posted, whose task may therefore do nothing.

### PlatformEventRunner

The platform's looper owns the thread. `TimerFires` is the looper's callback
(the timerfd is read, then `Run` starts), `RunGetExpiredEvent` one turn of `Run`'s
loop, `SetTimer` its last line, executed without the queue's lock; `PlatInsert`
includes `NotifyAll`, which sets the timer to fire at once. The Android code is
modelled. In this loop the assignment `event = queue_->GetExpiredEvent(...)`
releases the old event only after the next one was taken; the model
releases it before (`RunRelease`), which only makes an object free earlier.
The iOS runner has the same structure, with a CFRunLoop timer.

### ThreadCollector, EventRunner and SyncEvents

They take the event loop as what `EventLoop` shows of it: it ends once the queue
is finished. What they add is who sets and clears `finished_`, and when.

In `ThreadCollector` each runner with a thread has a creator (`EventRunner::Create`,
then the release of the last reference and `~EventRunner`) and a thread
(`ThreadMain`). `Create` starts the thread before it deposits it, so the two run
in parallel. `OwnerExpired` is true from the release on, before `~EventRunner`
finishes the queue; the inner runner is gone only after that (`InnerIsGone`).
`ReclaimCurrentThread` is three steps, since it locks `collectorLock_` and then only
tries `threadLock_`; `daemon` is where `ThreadCollector::Run` is, "waiting" while
`isWaiting_`; `exit` is where `ThreadCollector::Stop` is. `reclaims_` and
`depositMap_` are sets: the daemon takes the last request, the exit the first
entry of an unordered map, and the model any. `try_lock` fails only if
the lock is held, as with the mutexes of both platforms.

`EventRunner` has `running_`, which `Run` exchanges and clears and `Stop` reads,
and `finished_`, which `Prepare` clears and `Stop` sets. `stopping` are the
threads that have read `running_` and not yet set `finished_`; a thread may be
there for longer than the run it meant to stop.

`SyncEvents` adds `SendSyncEvent`: the test of `IsRunning` (`SendSync`), the insertion
with its `Waiter` (`Insert`), and the sleep (`Wait`, `WakeUp`) are separate, so that
the runner may stop, or the event be distributed or removed, in between. An
event is named by its sender, who is blocked by it. `serving` is the event a thread
distributes; its handler may stop runners and send sync events to others
(`InHandler`). An event sent into the runner that the thread itself loops
for is distributed at once, which leaves no step.

### AppEventObservers

| Code | Model |
|---|---|
| `eventMap_`; a null entry that `operator[]` left | `eventMap[e]`: "event", "null" or "none" |
| `appEventObserverMapping_`, `appEventObserverMap_` | `mapping[s]`, `observerSeq[n]` |
| `watchers_`; the watcher's `seq_` | `watchers[s]`, `seqOf[w]` |
| `currCond_`, `triggerCond_` | `row`, `timeout`; `Row`, `Timeout` |
| `receiveContext->events`; contexts not deleted yet | `batch[w]`, `contexts` |
| tasks sent with `napi_send_event` | `tasks`, first in first out |
| `observerMutex_` held from storing to sending | `handling`: the event, the sequences that accept it (`seqs`), those without a row yet (`unmapped`) |

`HandleEvents` is `StoreEvent`, one `InsertEventMapping` for each watcher that accepts the
event, and `SendEvents`: each of the insertions is a section of `storeMutex_` of its own, and the
JS thread's holders, callbacks and new watchers read and delete in between. So an event may
be mapped to one watcher, taken and deleted before it is mapped to the next. `DeleteData` has
three sections too and is one step: the rows it deletes were there before, and a row inserted
between its sections changes nothing about what it does. `addWatcher` is `AddNewName` or `AddKnownName` (`InitWatcher`,
without `observerMutex_`) and `RegisterObserver`. `onReceiveWork` is `RunTask` and
`FinishReceive`, because the callback may add and remove watchers. `clearData` is `HandleClearUp` and `ClearAllData`. A lookup
of an event that is gone leaves a null entry, which the next deletion dereferences:
`aborted`, after which nothing runs. What a filter accepts is chosen freely (`accepted`).

Three variables are history. `owed`: which sequence accepted which event and has not been given it.
`overwritten`: what was owed in a batch that a second `OnEvents` replaced before its task had ended.
`orphans`: from which sequence an event was taken away while it was mapped to it, or about to
be, by `DeleteData` of another sequence or by `clearData`.

### BridgeRegistry and BridgeCalls

One name. `bridgeLock` and `mapLock` are the two mutexes, `doing[t]` how far a thread is
between its two lock acquisitions: the JS thread holds `bridgeLock_` while it "tells",
then takes `bridgeMapLock_` for a moment (`FindPlugin`) and calls the plugin it "found"
(`TellPlugin`); a thread that constructs a plugin holds `bridgeMapLock_` while it "asks" and
keeps it until it has "learned". Each lock is taken inside the other: `Crossed` is the state in
which neither goes on. `CopyBridge` changes the codec of the bridge, not the type of the
receiver.

In `BridgeCalls` a call moves through `bridgeTasks` (the bridge thread's queue),
`executor` (Java's pool), `mainTasks` (the JS thread's queue) and `works` (async
works of the engine) to `answer`. A message stays on the bridge thread while its listener
runs (`responding`), and its response goes to `Head(jsSendMessageDataList)`,
whoever that is. A message that finds no plugin gets an error response, which looks for the
plugin once more (BridgeManager.java:420, 397): these are two steps (`RunTask`, `Respond`), and
a plugin registered in between lets the error response through. `SetMessageListener` sets the
listener and takes it away, at any time. `EraseJSMethodData` runs on the JS thread without
`jsMethodDataListLock_`: that data race is the choice, while `erasing` is set, of a lookup that
misses (`LoseResult`). `lost` is history. The name of a call carries the number of
`MethodID`, so a call is its number.

### EventDelivery

The promise made to those who send: a message is pending from `Insert` until it
is delivered or cancelled, once. It is never delivered early. Within a priority
the earliest due goes first; a lower priority goes before a due higher one only
if it was due strictly earlier; an idle message goes only when nothing else is due.
A cancellation concerns one owner, or owners that are gone. `EventQueue`
implements it under the mapping `pending <- Pending`, `processing <- current`,
`gone <- Gone` (property `ImplementsDelivery`).

## 3. Runs

`tlc -config X.cfg M` in this directory. Times are of a small machine.

| Run | Config | States | Shows |
|---|---|---|---|
| order | `MCEventQueueTurns_order` | 84 000 | `TypeOK`, `OnePlace`, `SortedByHandleTime`, `NoOvertaking`, `BypassBounded`, `BypassUsesTurns`, `DueEventLeaves` |
| owner | `MCEventQueue_owner` | 94 000 | `NothingOutlivesItsHandler`; refinement of `EventDelivery` |
| wake | `MCEventLoop_wake` | 958 000 | `LoopTypeOK`, `NoLostWakeUp`, `OneTaskPerFd` |
| loop_live | `MCEventLoop_live` | 122 000 | `FinishStopsTheLoop`, `LoopTakesDueEvents`, `ReadyFdIsServed` |
| timer | `MCPlatformEventRunner_timer` | 340 000 | `PlatTypeOK`, `TimerCoversTheQueue` |
| collect | `ThreadCollector_collect` | 17 000 | `CollectorTypeOK`, `JoinedOnce`, `ReclaimsAreDeposited`, `NothingAfterExit`, `ReleasedRunnersEnd`, `EndedThreadsAreJoined` |
| sync | `SyncEvents_wait` | 20 000 | `SyncTypeOK`, `OneLoop`, `SenderOutlivesItsEvent`, `SendersReturn`, `LoopIsStopped` |
| events | `MCAppEventObservers_events` | 462 000 (3 min) | `ObserversTypeOK`, `OneTimer`, `ContextsOutliveTasks`, `EventsWaitForTheirObserver`, `TimeoutTriggers`, `LastBatchIsReceived` |
| bridge | `MCBridgeCalls_bridge` | 45 000 | `BridgeTypeOK`, `AvailabilityAgrees`, `OnePlacePerCall`, `OwnResponse`, `RegistrationReturns`, `SendersSettle` |
| lost, exit, deleted | `MCPlatformEventRunner_lost`, `ThreadCollector_exit`, `MCAppEventObservers_deleted` | - | the findings of section 6 |

Bounds, and why they are enough:

- `Event`: two objects; one queued and one in flight, or two queued, which is what
  an order or a turn can be wrong about; the objects are recycled, so runs are not
  limited to two events. Run wake has two events and two fd tasks.
- `MaxHandled = 1` (the code has 5): every counter reaches its limit, is reset,
  and is at its limit while others are not. The theorems hold for every value.
- `Used`: the priorities a run sends with, one to four of them, chosen so that there is
  a priority above, below and, where it matters, the idle list.
- `MaxDelay`, `MaxNow`: the clock takes two or three values, so that events are
  due, due later, and equal in time. Once the clock has stopped, nothing becomes
  late any more. The liveness properties speak of events due before `MaxNow`: at
  the last instant an endless supply of new events of equal time and higher priority
  would be an artefact of the bound.
- One handler, except in run owner, where events of two handlers are mixed, and
  ids and tasks with the same key.
- `MaxHandled`, `Used` and two event objects keep the counts of `BypassBounded` small, and run
  owner (`Used = {2, 4}`, `MaxDelay = 0`) has neither early events nor two urgent
  priorities: for three busy priorities and for order between priorities the evidence is the proofs,
  `BypassesAreBounded` and `QueueDelivers`, and for delays run order besides.
- In run `loop_live` what is sent is a task, so that cancellation by name is among the steps too.
- `MayFail` lets any epoll call fail in run wake; it is FALSE in `loop_live`, since a
  failing epoll drops the listeners.
- `Runner` in `ThreadCollector`: two runners, so that one thread is being joined while the other is created,
  asks to be reclaimed or competes for the daemon, and the process exits; the four
  invariants are proved for any number. `Create` is called once
  for each name; a runner shares nothing with an earlier one but the collector.
- `Thread`, `Runner`, `Looper` in `SyncEvents`: two runners for which two of three threads
  loop, so that two loops send to each other, and one thread sends, stops or
  removes from outside. The three invariants are proved for any number.
- `AppEventObservers`: a watcher that receives and one that counts up to two rows or two
  timer steps, two names, two events; watchers are replaced by one of the same name, share
  events under two names, so that an event is deleted for one while it is, or is about to be, mapped
  to the other, and a batch can be overwritten. That an overwritten batch alone leaves an owed
  event waiting in vain takes a third event (the task of the first batch deletes the rows of the
  second, which a third replaces); `LossesHaveACause` covers it. `MaxInit = 1`, so that a new watcher
  is sent some of its old events and not all. Every run adds each watcher object at most
  once, as the code does.
- `BridgeCalls`: the JS thread and one other, a plugin of each codec, two calls and two
  messages. `MaxOperations = 6` bounds the calls of the application: enough to create, register,
  send twice and then replace or delete either side; what is under way always ends.
- Symmetry is used over event objects, only in runs without liveness properties.
- `CHECK_DEADLOCK FALSE` in `MCPlatformEventRunner_*`: with the timer disarmed,
  the clock at its bound and no event object free, the main thread rests in the looper;
  in `ThreadCollector_*`, where the process may have exited; in `SyncEvents_wait`, where
  runners that send to each other block all their threads; in `MCAppEventObservers_*`,
  where the process may have aborted; in `MCBridgeCalls_bridge`, where the calls may be
  used up or the locks crossed.

Fairness (`Fairness`, `LoopFairness`, `PlatFairness`): the clock advances; a
thread that has stamped an event gets the mutex; a started destructor ends; the
loop thread runs when it can. A handler's `ProcessEvent` returns although it may
send, cancel or release for a while: strong fairness of `ReleaseEvent`, because
a send of its own in flight disables that step time and again. Nobody is obliged to
send, cancel, start or stop. That is what the code assumes of its users: callbacks
return, threads are scheduled.
In `ThreadCollector` every thread, creator, daemon and exit goes on once it has
started, and a wait that was notified returns (it may return without, too).
In `SyncEvents` a thread inside `Run`, `Stop` or `SendSyncEvent` goes on (WF of
`GoesOn`); a handler that stops and sends again and again returns in the end, and its
loop then takes an event or leaves (SF of `Loops`); every queued event gets its turn (SF of
`Take`), which is what `DueEventLeaves` shows of the queue.
In `AppEventObservers` a writer that has stored an event maps and sends it, the timer event is
handled, and an interface call returns (WF); the JS thread comes back to its tasks
however many calls are made in its callbacks (SF of `RunTasks`).
In `BridgeCalls` the bridge thread, the pool, the JS thread's receiving and the registrations
go on (WF of each).
`ReadyFdIsServed` has in addition the premise that the application comes to rest,
for a loop that always finds a due event never polls (a hazard of the code, not of
the model), and `RemoveAllEvents` also takes away the posted task.

Every property has a mutant in `PROJECT.json`: an operator of the module (marked
*Faulty* beside the definition it replaces) with a plausible mistake, for which
TLC finds the property violated.

## 4. Proofs

`tlapm M.tla` for `EventQueue_proofs`, `EventQueueOwners_proofs`, `EventLoop_proofs`,
`PlatformEventRunner_proofs`, `ThreadCollector_proofs`, `SyncEvents_proofs`,
`AppEventObservers_proofs` and `BridgeCalls_proofs`. The first group of theorems is about
`EventQueue!Spec` and what extends it, for any finite
set of event objects, any sets of handlers and bodies, any `MaxHandled > 0` and
any bounds of the clock (`ConstantsAssumption`); the others are about the `Spec` of
their module for any sets of runners, threads, watchers, names and plugins, under the assumptions
named in those modules.

| Theorem | Statement |
|---|---|
| `QueueInvariant` | `Spec => []IInv` |
| `TypeCorrect` | `Spec => []TypeOK` |
| `EventsAreInOnePlace` | `Spec => []OnePlace` |
| `ListsStaySorted` | `Spec => []SortedByHandleTime` |
| `NothingOutlives` | `Spec => []NothingOutlivesItsHandler` |
| `BypassesUseTurns` | `Spec => BypassUsesTurns` |
| `NoneIsOvertaken` | `Spec => NoOvertaking` |
| `QueueDelivers` | `Spec => ImplementsDelivery` |
| `BypassesAreBounded` | `TurnsSpec => []BypassBounded` |
| `LoopTypes` | `LoopSpec => []LoopTypeOK` |
| `WakeUpsAreNotLost` | `LoopSpec => []NoLostWakeUp` |
| `DescriptorsHaveOneTask` | `LoopSpec => []OneTaskPerFd` |
| `NothingOutlivesInTheLoop` | `LoopSpec => []NothingOutlivesItsHandler` |
| `LoopDelivers` | `LoopSpec => ImplementsDelivery` |
| `NoneIsOvertakenInTheLoop` | `LoopSpec => NoOvertaking` |
| `BypassesUseTurnsInTheLoop` | `LoopSpec => BypassUsesTurns` |
| `BypassesAreBoundedInTheLoop` | `LoopSpec /\ CountsBypasses => []BypassBounded` |
| `NoListenerIsDeaf` | `LoopSpec => []ListenersArePolled` |
| `NoListenerOutlivesItsHandler` | `LoopSpec => []ListenersAreSwept` |
| `TasksFindTheirListener` | `LoopSpec => []TasksAreTheListeners` |
| `PlatTypes` | `PlatSpec => []PlatTypeOK` |
| `TimerIsEarlyEnough` | `PlatSpec => []TimerCoversTheQueue` |
| `PlatRunsTheQueue` | `PlatSpec => Spec` |
| `PlatDelivers` | `PlatSpec => ImplementsDelivery` |
| `NothingOutlivesOnThePlatform` | `PlatSpec => []NothingOutlivesItsHandler` |
| `NoneIsOvertakenOnThePlatform` | `PlatSpec => NoOvertaking` |
| `BypassesUseTurnsOnThePlatform` | `PlatSpec => BypassUsesTurns` |
| `BypassesAreBoundedOnThePlatform` | `PlatSpec /\ CountsBypasses => []BypassBounded` |
| `CollectorTypes` | `Spec => []CollectorTypeOK` |
| `ThreadsAreJoinedOnce` | `Spec => []JoinedOnce` |
| `ReclaimsFindTheirThread` | `Spec => []ReclaimsAreDeposited` |
| `ExitLeavesNothing` | `Spec => []NothingAfterExit` |
| `RequestsReachTheDaemon` | `Spec => []RequestsAreServed` |
| `DestructionIsNotUndone` | `Spec => []DestroyedAreFinished` |
| `OnlyLatePrepareKeepsTheExit` | `Spec /\ NoneIsFinishedEarly => []AwaitedAreFinished` |
| `OneThreadRuns` | `Spec => []OneLoop` |
| `SyncTypes` | `Spec => []SyncTypeOK` |
| `SendersOutliveEvents` | `Spec => []SenderOutlivesItsEvent` |
| `StopsStay` | `Spec => StopIsNotUndone` |
| `SleepersDoNotDeadlock` | `Spec => []SleepersAreServed` |
| `ObserverTypes` | `Spec => []ObserversTypeOK` |
| `TimerIsSingle` | `Spec => []OneTimer` |
| `ContextsStay` | `Spec => []ContextsOutliveTasks` |
| `LossesHaveACause` | `Spec => []EventsWaitForTheirObserver` |
| `ConditionsTriggerInTime` | `Spec => []CountsStayBelow` |
| `OnlyOldEventsMissTheTimer` | `Spec /\ NoOldEventIsCounted => []TimerRunsForAll` |
| `OnlyOrphansAbort` | `Spec => []NullsAreOrphans` |
| `BridgeTypes` | `Spec => []BridgeTypeOK` |
| `BothSidesAgree` | `Spec => []AvailabilityAgrees` |
| `CallsKeepTheRegistry` | `Spec => RegistrySpec` |
| `CallsAreInOnePlace` | `Spec => []OnePlacePerCall` |
| `ResponsesShiftOnlyBehindLosses` | `Spec => []OwnResponse` |
| `RegistrationsBlockOnlyCrossed` | `Spec => []OnlyCrossingBlocks` |
| `CrossingsStopAll` | `Spec => CrossingStopsAll` |

A property that no run checks is defined beside its theorem; those are the properties
that say why something of a run is so. Two theorems, `OnlyLatePrepareKeepsTheExit` and `OnlyOldEventsMissTheTimer`, have a hypothesis about behaviours: it excludes a kind
of step that the code does take, and the theorem says that without this one step the
trouble is gone, so that it is the only cause.

`IInv` is the conjunction of `TypeOK`, `OnePlace` and `SortedByHandleTime`. None of
the three is inductive alone: that an inserted event is in no list yet needs
`OnePlace`; that insertion keeps the order needs the order (otherwise there is no upper bound),
and that the times of queued events do not change under a removal or a new send
needs that recycled and newly taken objects are not queued. The facts
about lists the argument uses come first in the module: a removal keeps order and injectivity (by
ranks of the kept positions), an upper bound exists in a sorted list, and what
inserting there does to positions and elements.

`NothingOutlives` needs more about owners (`OwnersCore`): the handler of a
stamped event is still referenced by the application or is the loop's current one; a
destructor that is running belongs to a handler nobody refers to; the loop runs
an event only for its current handler; a queued event's owner is not one
whose destruction is over. With them, the step `RemoveOrphan` removes exactly
what would violate the property, and no later step adds such an event. That a sender's
reference lasts when the loop thread turns to another handler needs that the sender holds it
(`SendersHoldOwner`, in `OwnersInv`).

`BypassesUseTurns` is an action property: it follows from the definition of
`Picked` and the types of the counters. That a bypass makes the counters grow lexicographically
is the reason why starvation is bounded: `TurnsInv` reads the counters above `p` as a
number in base `MaxHandled + 1`, which every bypass increases and which has at most `p` digits.
`CountsBypasses` adds the history variable of `EventQueueTurns` to the loop and to the
platform's runner, whose behaviours it does not restrict.

`QueueDelivers` maps each critical section to one step of `EventDelivery`: `Insert` posts,
a scan that takes an event delivers the message of that list's head, `ReleaseEvent`
finishes, removals cancel, and the last reference that goes, in `Release` or in
`DistributeEvent`, destroys. That the head precedes every pending message uses the
order of the lists, and for an idle event that no candidate means nothing due
(`NothingDue`). That `RemoveOrphan` takes away only what belongs to owners that are gone is why
`DyingIsUnreferenced` is an equivalence.

For `EventLoop`, `LoopStepIsAQueueStep` shows that every step of the loop is a step of `EventQueue`
or leaves it alone, with one exception: `HandleFileDescriptorEvent` posts for whatever
handler its weak pointer can be locked to, which may be the last one the loop ran, released by
everybody else. `EventQueue!SendEvent` has no such sender, so `LoopSpec` does not
implement `Spec`, and `SendersHoldOwner` is false here. What remains true is that
such a send is a descriptor's task, which is inserted before the thread takes the
lock again and so before it turns to another handler (`LoopOwnersInv`, on top of `TaskInv`).
This suffices for `OwnersCore`, and with it the theorems about owners, delivery, order and turns hold
of the loop; users of the queue do not see the exceptional step. `NoLostWakeUp` needs (`WakeInv`) that a sleeping thread's deadline
is still the `wakeUpTime_` of its last scan, against which `Insert` decides whether to
notify, and that it sleeps on the `EpollIoWaiter` only while that is the queue's.
`OneTaskPerFd` needs (`TaskInv`) that a descriptor's task is HIGH and due at once and is posted
between the return of `epoll_wait` and the next scan: that scan takes it or an
event before it, so the thread does not poll again while the task is there. About the
listeners, `ListenerInv` says that there are none without a waiter that polls; that a
listener of a destroyed handler goes with the second half of a `RemoveOrphan` under way, which needs
that only a callable handler adds one; and that a task which is not `outdated` belongs to the
present listener. The last is what lets `LoopReleaseEvent` say that the task reads
the data.

`PlatformEventRunner` implements `EventQueue` outright (`PlatRunsTheQueue`), so all theorems
about `Spec` hold of it; the four that a run checks of the queue are restated. Beyond that,
`RunnerInv` says that in the looper the timer is set for the `wakeUpTime_`
of the last scan or earlier, and that before `SetTimer` that time is in time for all
events unless an insertion raced.

For `ThreadCollector`, types and lock ownership are inductive, and so is
`JoinedOnce` on top of them. `ReclaimsAreDeposited` is not: that a thread left its
loop says nothing about the map. `DepositedFirst` adds why: as long as nobody
exits, a queue is finished only by `~EventRunner`, which comes after `Create` has
returned, so a thread whose creator is still at work is before or in its loop with
`finished_` clear. `NothingAfterExit` follows from `ThreadsAreAccounted`: a
thread whose creation has returned is in the map, in the hands of the daemon or
of the exit, or joined; and once the exit has joined the daemon, under
`threadLock_`, `needCreateThread_` is clear. `ServiceInv` is the safety part of `EndedThreadsAreJoined`:
the daemon exists or will be created as long as anybody may ask for it, and a request is
followed by somebody who will look at it, though a thread whose `try_lock` fails goes
without waking the daemon (its holder will). `DestructionIsNotUndone` is why
`ReleasedRunnersEnd` holds. `AwaitedInv` proves that finding 2 has one cause: if no queue is finished for
a join while its thread is still before `Prepare`, whoever is joined is finished.

In `SyncEvents`, `OneLoop` is inductive with the types (`RunnerInv`).
`SenderOutlivesItsEvent` needs `OneOfEach`: an event is in one queue or in one
thread's hands, and a waiter's flag is up only between the recycling and the return
of its sender; otherwise a second copy of the event could outlive the sender.
`StopIsNotUndone` is the step `LoopIsStopped` rests on. `SleepersAreServed` is the
argument of `SendersReturn` without its fairness: sleepers who all wait for sleepers are a
set in the sense of `Stuck`, so if anyone is not stuck somebody awake has the next event.

For `AppEventObservers`, types and `OneTimer` are inductive. `ContextsOutliveTasks` needs
(`ContextInv`) that a registered watcher, and one being added, has a context and no posted
deletion, so that nothing is posted behind one. `EventsWaitForTheirObserver` relates
rows, events and batches, and each of the two invariants below it takes one part. `RowInv`: an event
that a sequence needs, by a row or by one its writer is about to insert, is there or an orphan of that sequence;
this holds although rows are inserted one by one because what is not mapped yet is in no
batch of that sequence, so only others can delete it. It also says that a null entry is an orphan
of some sequence, which is `OnlyOrphansAbort`. `LostInv`: what is owed is needed, or in a batch whose
task has not ended, or was overwritten; for the batch whose callback runs has been
given and is owed no longer, unless it was overwritten in the meantime. `CountsStayBelow` says that conditions trigger when they are
met, by whatever adds to the counts, and needs only that a remainder is less than its
divisor. `NeededInv` proves that a timer is on its way whenever a registered watcher has counted
rows and a time condition, if nothing is counted before a watcher is registered; so old
events are the only reason for a missing timer.

For the bridge, `AvailabilityAgrees` says nothing while a lock is held, so `AgreeInv` describes
the steps between: a registration that holds `bridgeMapLock_` is about the plugin in the
map, which was never told anything (`PluginInv`); what the JS thread tells is what the
receiver is (`TellingInv`); an answer is still true when it is learned, unless the JS thread
waits to tell otherwise (`LearnedInv`); and the plugin it is about to tell is still in the
map (`UntoldInv`). `CallsKeepTheRegistry` shows that calls and messages only count as
operations for the registry, so what is proved of it holds of the whole.

A call is in one of seven places (`OneOfSeven`): not sent yet, on the bridge thread's queue, in
the pool, in the JS thread's queue, in an async work, answered, or lost. `PlaceInv` adds that
the queues hold its task once and that the task carries its own result; `CallsAreInOnePlace`
follows. For `ResponsesShiftOnlyBehindLosses`, `ResponseInv` compares two numbers: how many
senders are answered or deleted, and how many messages the bridge thread is through
with. They differ only behind a message that got no response.

`RegistrationsBlockOnlyCrossed` follows from `RegistryInvariant`: a thread that waits for a lock waits
for the thread that holds it, and two locks make a circle of one shape, `Crossed`. That
nothing gets out of it (`CrossingsStopAll`, from `CrossedLocks`) justifies that the liveness
properties of run bridge are stated up to it.

Only model-checked: the liveness properties, since fairness and ENABLED are out of this
prover's reach. Every safety property and every action property that a passing run checks is also
proved, and where a liveness property rests on a safety argument that could be separated
(`RequestsAreServed`, `DestroyedAreFinished`, `StopIsNotUndone`, `SleepersAreServed`,
`OnlyCrossingBlocks`), that argument is proved. The powers in `Patience` are written out, because the prover does not know `^`.

## 5. Not modelled

Of the event handler: `~EventQueue` and `usable_`; `Dump` and the queries that
change nothing (`HasInnerEvent`, `IsQueueEmpty`); `SetEventRunner`; the delivery
and distribution time callbacks; the pool's buffer limit; the iOS runner as a
module of its own; the thread-local current runner (`EventRunner::Current`,
`GetMainEventRunner`) and its logger. `SendTimingEvent` is `SendEvent` with
the delay computed from an absolute time. A delay that is negative counts as none, as
in the code. Arithmetic on times does not overflow in the model.

Of HiAppEvent: custom parameters and their table, the size condition (it works as the
row condition does), processors and user properties, parameter checks, and a
`napi_send_event` that fails.

Of the bridge: calls from the platform to JS and registered methods; `callMethodSync`,
which gives up after 500 ms while its task still runs (BridgePlugin.java:340) and returns a null
string without a plugin (bridge_jni.cpp:353); `callMethodWithCallback`; the binary codec, whose
tasks capture the data by reference (bridge.cpp:148); the iOS side; `BridgeManager.release`
and `BridgeTaskQueueHandler`, which nothing calls. Several names would share the two locks and
nothing else. A `Bridge` that is deleted while a task still holds its address is undefined
behaviour; the model lets such a task do nothing (`DeleteBridgeAndLists`). `jsSendMessage` reads
the listener twice (BridgePlugin.java:470-471); one that is taken away in between would raise an
exception on the bridge thread, which the model, where the listener is read once, leaves out.

## 6. Findings

1. **The main thread's timer can be disarmed with a due event queued** (run lost).
   `PlatformEventRunner::Run` sets the timer, without the lock, to a wake-up time
   computed before a concurrent `Insert` set it to fire at once. Run timer shows that this is the
   only way for the timer not to cover the queue: `TimerCoversTheQueue` holds
   whenever the race did not happen in the last round.
2. **Exit may wait for ever** (run exit). `ReclaimAll` finishes the queue of each
   thread and joins it (event_runner.cpp:176-181). A thread that was started and
   deposited but has not called `Prepare` clears `finished_` afterwards; if its
   runner is still referenced it loops on, and `~Avatar` never returns, against
   event_runner.cpp:387. There is no other cause (`OnlyLatePrepareKeepsTheExit`). `~EventRunner` has the same race, and there `Run`'s check of the
   owner after `Prepare` closes it (`ReleasedRunnersEnd`).
3. **An event is deleted while it is mapped to other watchers** (run deleted).
   `DeleteData` deletes the rows of one observer and then the events, against "delete events
   not in event mapping" (app_event_observer_mgr.cpp:142). The other watcher's holder finds
   nothing, its lookup leaves a null entry in `eventMap_` (app_event_store.cpp:287), and the next
   deletion dereferences it. The run's trace: two watchers under two names, one event mapped to
   both, a holder of the first takes it, and the event is gone while the row of the
   second is there. The same happens before the second row is inserted, for the writer inserts one
   by one, and `clearData`, which is meant to drop all events, leaves their rows as well. Null entries have no
   other cause than these (`OnlyOrphansAbort`).

Observed while modelling, without a run of their own:

- Removing id 0 also removes events with string ids, whose `GetInnerEventId` is 0
  (inner_event.cpp:255-261; event_queue.h:81). `EventQueue` models it so (run owner).
- A `Stop` between `Run`'s exchange and `Prepare` answers `ERR_OK` and is undone by
  `Prepare` (event_runner.cpp:501, 300). A `Stop` that comes while the loop runs ends it
  (`LoopIsStopped`).
- `SendSyncEvent` returns true also when its event was removed without being handled,
  against "wait until this event has been handled" (event_handler.h:549).
- A batch that comes before the task of the last one has ended replaces it
  (napi_app_event_watcher.cpp:208). With finding 3 and `clearData` these are the ways in which a
  sequence loses an event it accepted; `EventsWaitForTheirObserver` says that there is no other.
  A name that is removed and added again gets a new sequence, and with it none of the
  events of the old one, whose rows only its old holders can take. The old events of a watcher that is added again are counted, but its
  timer does not start before the next event; nothing else leaves a waiting watcher without
  a timer (`OnlyOldEventsMissTheTimer`). `ClearData` leaves the mapping's rows
  (app_event_store.cpp:231), and the rows of a removed watcher stay.
- `registerBridgePlugin` and `JSRegisterBridge` take their two locks in opposite orders, each through
  the JNI (BridgeManager.java:93, bridge_manager.cpp:46): a plugin constructed on
  one thread while the JS thread creates or deletes the bridge of that name may stop both. The
  liveness properties of run bridge hold only up to that (`Crossed`). Registrations block for no
  other reason, and once they do nothing on these threads goes on
  (`RegistrationsBlockOnlyCrossed`, `CrossingsStopAll`).
- A message without a response, for want of a plugin or a listener, shifts all later
  responses of that bridge by one (bridge.cpp:681); `OwnResponse` says that nothing else does.

Two more comments promise more than the code does; no run is spent on them. "The
highest priority queue, should be distributed until the tasks in the queue are
completed." (event_queue.h:38): `PickEventLocked` treats VIP like the other sub
queues, and what it does is what `EventDelivery` promises. `IsIdle` "returns true if
all events have been processed" (event_queue.h:179): `isIdle_` is set by the scan
only and is still true after an insertion.

## 7. Plan

Done: modules 1 to 9 of this list.

1. `EventQueue`: the lists, senders, cancellation, destruction, selection.
2. `EventDelivery`: the abstract promise, refined by 1.
3. `EventQueueTurns`: the bound on starvation, and that due events leave.
4. `EventLoop` (extends 1): blocking, waking, descriptors.
5. `PlatformEventRunner` (extends 1): the timer.
6. `ThreadCollector` and `EventRunner`: creating, running, stopping, collecting.
7. `SyncEvents` (composes 6 with `SendSyncEvent`).
8. `AppEventObservers` (HiAppEvent): manager, observers, conditions, store.
9. `BridgeRegistry`, `BridgeCalls`: the bridge plugin on Android.
10. `BridgeSyncCalls`: `callMethodSync`, its timeout and its late task; calls from the platform.
11. `HandlerLifetime`: references of handlers counted, filters that hold one under
    the lock; no thread locks `queueLock_` twice.
12. `InnerEventPool`: counts, buffer limit, events with smart pointers.
13. Ability lifecycle and delegator monitors.
14. The request plugin.

Proofs: the safety of the modules to come; of those that are here everything but liveness
is proved. Open: an abstract specification of the collector (threads joined once and in the end) and of the watchers
(events received once or still waiting), with the refinements proved.
