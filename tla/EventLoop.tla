------------------------------ MODULE EventLoop -----------------------------
(***************************************************************************)
(* The loop thread of an EventRunnerImpl around EventQueue: GetEvent, which *)
(* blocks on an IoWaiter when nothing is due, the two waiters (NoneIoWaiter *)
(* and EpollIoWaiter), Prepare and Finish, and the file descriptor          *)
(* listeners, whose events come back into the queue as HIGH priority tasks. *)
(*                                                                         *)
(* NoneIoWaiter waits on a condition variable: it wakes, clears pred_ and   *)
(* owns queueLock_ in one step.  EpollIoWaiter unlocks, sleeps in           *)
(* epoll_wait, decrements waitingCount_, drains the awaken descriptor and   *)
(* calls back without the lock; each of these is a step of its own.         *)
(***************************************************************************)
EXTENDS EventQueue

CONSTANTS
    Fd,           \* file descriptors
    FdEvent,      \* the events HandleFileDescriptorEvent takes from the pool
    MayFail       \* whether epoll may fail: BOOLEAN

\* Faulty: the task of a descriptor waits until the loop has nothing to do.
HIGH_Idle == IDLE

HIGH == 2
FdTask(f) == [task |-> TRUE, key |-> f, param |-> 0]
FdTasks   == {FdTask(f) : f \in Fd}

ASSUME LoopAssumption ==
    /\ FdEvent \subseteq Event /\ FdTasks \subseteq Body /\ NoEvent \notin FdTasks
    /\ (Fd # {} => HIGH \in Used)
    /\ MayFail \in BOOLEAN

VARIABLES
    loop,        \* "off", "looping", "blocked", "returned", "callbacks" or "failed"
    finished,    \* finished_
    ioWaiter,    \* which waiter the queue uses now: "none" or "epoll"
    blockedOn,   \* the waiter whose waitingCount_ is 1, or "no"
    signal,      \* pred_ of the NoneIoWaiter, counter of the awaken fd of the EpollIoWaiter
    deadline,    \* when the wait times out
    listeners,   \* listeners_: the owner of the listener of each fd, or NoHandler
    outdated,    \* the fds whose listener was removed since their last task was posted
    ready,       \* the fds with data to read
    epollResult, \* what epoll_wait returned: fds and "awaken"
    sweeper      \* ~EventHandler calls in the second half of RemoveOrphan, and their thread

waitVars == <<loop, finished, ioWaiter, blockedOn, signal, deadline>>
fdVars   == <<listeners, outdated, ready, epollResult, sweeper>>
loopSpecVars == <<vars, waitVars, fdVars>>

Awaken == "awaken"

\* Notify of a waiter does nothing unless somebody waits on it.
Notify(w) == signal' = IF blockedOn = w THEN [signal EXCEPT ![w] = TRUE] ELSE signal

-----------------------------------------------------------------------------
(* Other threads.                                                          *)

LoopSend == \E h \in Handler, e \in Event \ FdEvent, b \in Body \ FdTasks, p \in Used, d \in 0..MaxDelay :
    SendEvent(h, e, b, p, d) /\ UNCHANGED <<waitVars, fdVars>>

LoopInsert(e) ==
    /\ Insert(e)
    /\ IF NeedNotify(e) THEN Notify(ioWaiter) ELSE UNCHANGED signal
    /\ UNCHANGED <<loop, finished, ioWaiter, blockedOn, deadline, fdVars>>

\* A descriptor's task is posted with the caller's place in the code for a name, which
\* nobody passes to RemoveTask.
LoopCancel ==
    /\ \E h \in Handler :
          \/ RemoveAllEvents(h)
          \/ \E b \in Body \ FdTasks : RemoveEvent(h, b) \/ RemoveTask(h, b)
    /\ UNCHANGED <<waitVars, fdVars>>

LoopRelease(h) == Release(h) /\ UNCHANGED <<waitVars, fdVars>>

\* RemoveOrphan locks twice: first the events, then the listeners.
LoopRemoveOrphan(h) ==
    /\ RemoveOrphan(h)
    /\ sweeper' = sweeper \cup {<<h, dtor[h]>>}
    /\ UNCHANGED <<waitVars, listeners, outdated, ready, epollResult>>

Forget(F) ==
    /\ listeners' = [f \in Fd |-> IF f \in F THEN NoHandler ELSE listeners[f]]
    /\ outdated' = outdated \cup {f \in F : listeners[f] # NoHandler}

RemoveOrphanListeners(s) ==
    /\ s \in sweeper
    /\ sweeper' = sweeper \ {s}
    /\ Forget({f \in Fd : ~Alive(listeners[f])})
    /\ UNCHANGED <<vars, waitVars, ready, epollResult>>

\* Faulty: the thread that waits on the old waiter is not woken.
SwapWaiter_Silently == ioWaiter' = "epoll" /\ signal' = [signal EXCEPT !.epoll = FALSE]

\* The first listener replaces the NoneIoWaiter by an EpollIoWaiter and wakes
\* whoever waits on the old one.
SwapWaiter ==
    /\ ioWaiter' = "epoll"
    /\ signal' = [none |-> signal.none \/ blockedOn = "none", epoll |-> FALSE]

\* Creating the epoll fails: nothing changes.  Adding the descriptor to it
\* fails: the waiter has been replaced, but no listener is added.
AddFileDescriptorListener(f, h) ==
    /\ Callable(h) /\ listeners[f] = NoHandler
    /\ \/ ioWaiter = "epoll" /\ UNCHANGED <<ioWaiter, signal>>
       \/ ioWaiter = "none" /\ SwapWaiter
    /\ \/ listeners' = [listeners EXCEPT ![f] = h]
       \/ MayFail /\ UNCHANGED listeners
    /\ UNCHANGED <<vars, loop, finished, blockedOn, deadline, outdated, ready, epollResult, sweeper>>

RemoveListeners(F) ==
    /\ Forget(F)
    /\ UNCHANGED <<vars, waitVars, ready, epollResult, sweeper>>

RemoveAllFileDescriptorListeners(h) == Callable(h) /\ RemoveListeners({f \in Fd : listeners[f] = h})
RemoveFileDescriptorListener(f)     == listeners[f] # NoHandler /\ RemoveListeners({f})

\* The peer writes to the descriptor.
DataArrives(f) ==
    /\ f \notin ready
    /\ ready' = ready \cup {f}
    /\ UNCHANGED <<vars, waitVars, listeners, outdated, epollResult, sweeper>>

\* Faulty: Finish does not notify.
Finish_Silently ==
    /\ finished' = TRUE
    /\ UNCHANGED <<vars, loop, ioWaiter, blockedOn, signal, deadline, fdVars>>

Finish ==
    /\ finished' = TRUE
    /\ Notify(ioWaiter)
    /\ UNCHANGED <<vars, loop, ioWaiter, blockedOn, deadline, fdVars>>

-----------------------------------------------------------------------------
(* The loop thread.                                                        *)

Prepare ==
    /\ loop = "off"
    /\ finished' = FALSE
    /\ loop' = "looping"
    /\ UNCHANGED <<vars, ioWaiter, blockedOn, signal, deadline, fdVars>>

\* WaitUntilLocked: ++waitingCount_ and unlock.
Block ==
    /\ loop' = "blocked"
    /\ blockedOn' = ioWaiter
    /\ deadline' = wakeUpTime'

GetEvent ==
    /\ loop = "looping" /\ ~finished
    /\ GetExpiredEvent
    /\ IF stage' = "taken" THEN UNCHANGED <<loop, blockedOn, deadline>> ELSE Block
    /\ UNCHANGED <<finished, ioWaiter, signal, fdVars>>

BreakOut ==
    /\ loop = "looping" /\ stage = "get" /\ finished
    /\ loop' = "off"
    /\ UNCHANGED <<vars, finished, ioWaiter, blockedOn, signal, deadline, fdVars>>

\* condition_.wait_for returned: notified or timed out.
NoneWakes ==
    /\ loop = "blocked" /\ blockedOn = "none"
    /\ signal.none \/ now >= deadline
    /\ loop' = "looping" /\ blockedOn' = "no"
    /\ signal' = [signal EXCEPT !.none = FALSE]
    /\ UNCHANGED <<vars, finished, ioWaiter, deadline, fdVars>>

Pollable == {f \in ready : listeners[f] # NoHandler}
         \cup {a \in {Awaken} : signal.epoll}

\* epoll_wait returned: with what is ready, with nothing when it timed out or
\* was interrupted.  waitingCount_ still counts this thread.
EpollReturns ==
    /\ loop = "blocked" /\ blockedOn = "epoll"
    /\ \/ Pollable # {} /\ epollResult' = Pollable
       \/ Pollable = {} /\ now >= deadline /\ epollResult' = {}
       \/ MayFail /\ epollResult' = {}
    /\ loop' = "returned"
    /\ UNCHANGED <<vars, finished, ioWaiter, blockedOn, signal, deadline, listeners, outdated, ready, sweeper>>

\* --waitingCount_, then DrainAwakenPipe if woken by it.
EpollUncounts ==
    /\ loop = "returned"
    /\ blockedOn' = "no"
    /\ signal' = IF Awaken \in epollResult THEN [signal EXCEPT !.epoll = FALSE] ELSE signal
    /\ epollResult' = epollResult \ {Awaken}
    /\ loop' = "callbacks"
    /\ UNCHANGED <<vars, finished, ioWaiter, deadline, listeners, outdated, ready, sweeper>>

CallbackSends == {e \in sending : ev[e].body \in FdTasks}

\* Faulty: the listener is not looked up again.
ListenerIsThere_Unchecked(f) == TRUE

ListenerIsThere(f) == Alive(listeners[f])

\* HandleFileDescriptorEvent: the listener may have been removed or its owner
\* released since epoll_wait returned; otherwise its owner posts a HIGH task.
HandleFileDescriptorEvent(f) ==
    /\ loop = "callbacks" /\ f \in epollResult /\ CallbackSends = {}
    /\ epollResult' = epollResult \ {f}
    /\ IF ListenerIsThere(f)
       THEN \E e \in FdEvent \cap Free :
            /\ ev' = [ev EXCEPT ![e] = [owner |-> listeners[f], body |-> FdTask(f), prio |-> HIGH,
                                        send |-> now, handle |-> now]]
            /\ sending' = sending \cup {e}
            /\ outdated' = outdated \ {f}
            /\ UNCHANGED <<now, queue, pickVars, loopVars, handlerVars>>
       ELSE UNCHANGED <<vars, outdated>>
    /\ UNCHANGED <<waitVars, listeners, ready, sweeper>>

Relock ==
    /\ loop = "callbacks" /\ epollResult = {} /\ CallbackSends = {}
    /\ loop' = "looping"
    /\ UNCHANGED <<vars, finished, ioWaiter, blockedOn, signal, deadline, fdVars>>

\* epoll_wait failed with something else than EINTR: after --waitingCount_ the
\* thread relocks, goes back to a NoneIoWaiter and forgets all listeners.
EpollFails ==
    /\ MayFail /\ loop = "blocked" /\ blockedOn = "epoll"
    /\ blockedOn' = "no" /\ loop' = "failed"
    /\ UNCHANGED <<vars, finished, ioWaiter, signal, deadline, fdVars>>

ResetWaiter ==
    /\ loop = "failed"
    /\ ioWaiter' = "none"
    /\ signal' = [none |-> FALSE, epoll |-> FALSE]
    /\ Forget(Fd)
    /\ loop' = "looping"
    /\ UNCHANGED <<vars, finished, blockedOn, deadline, ready, epollResult, sweeper>>

LoopDistribute == DistributeEvent /\ UNCHANGED <<waitVars, fdVars>>

\* The lambda of HandleFileDescriptorEvent ran: OnReadable read the data, unless
\* the listener has been removed and destroyed since.
LoopReleaseEvent ==
    /\ ReleaseEvent
    /\ \A s \in sweeper : s[2] # "loop"
    /\ \/ ready' = {f \in ready : stage # "running" \/ ev[current].body # FdTask(f)}
       \/ /\ stage = "running" /\ \E f \in outdated : ev[current].body = FdTask(f)
          /\ UNCHANGED ready
    /\ UNCHANGED <<waitVars, listeners, outdated, epollResult, sweeper>>

LoopTick == Tick /\ UNCHANGED <<waitVars, fdVars>>

-----------------------------------------------------------------------------
LoopInit ==
    /\ Init
    /\ loop = "off" /\ finished = TRUE
    /\ ioWaiter = "none" /\ blockedOn = "no"
    /\ signal = [none |-> FALSE, epoll |-> FALSE]
    /\ deadline = TimeMax
    /\ listeners = [f \in Fd |-> NoHandler] /\ outdated = {}
    /\ ready = {} /\ epollResult = {} /\ sweeper = {}

Others ==
    \/ LoopSend \/ (\E e \in Event : LoopInsert(e)) \/ LoopCancel
    \/ \E h \in Handler : LoopRelease(h) \/ LoopRemoveOrphan(h) \/ RemoveAllFileDescriptorListeners(h)
    \/ \E s \in sweeper : RemoveOrphanListeners(s)
    \/ \E f \in Fd : \/ \E h \in Handler : AddFileDescriptorListener(f, h)
                     \/ RemoveFileDescriptorListener(f)
                     \/ DataArrives(f)
    \/ Finish
    \/ LoopTick

LoopThread ==
    \/ GetEvent \/ BreakOut \/ LoopDistribute \/ LoopReleaseEvent
    \/ NoneWakes \/ EpollReturns \/ EpollUncounts
    \/ (\E f \in Fd : HandleFileDescriptorEvent(f))
    \/ Relock \/ EpollFails \/ ResetWaiter

LoopNext == Prepare \/ Others \/ LoopThread

LoopSpec == LoopInit /\ [][LoopNext]_loopSpecVars

(* A thread that is not blocked gets the lock and the processor, and a      *)
(* handler's ProcessEvent returns although it may send and cancel for a     *)
(* while (strong fairness of LoopReleaseEvent).  Nobody has to send, to     *)
(* cancel, to start or to finish the loop.                                  *)
LoopFairness ==
    /\ WF_loopSpecVars(LoopTick)
    /\ \A e \in Event : WF_loopSpecVars(LoopInsert(e))
    /\ \A h \in Handler : WF_loopSpecVars(LoopRemoveOrphan(h))
    /\ WF_loopSpecVars(\E s \in sweeper : RemoveOrphanListeners(s))
    /\ WF_loopSpecVars(LoopThread)
    /\ SF_loopSpecVars(LoopReleaseEvent)

LoopFairSpec == LoopSpec /\ LoopFairness

-----------------------------------------------------------------------------
(* Properties.                                                             *)

\* The loop's own variables keep their types.
LoopTypeOK ==
    /\ TypeOK
    /\ loop \in {"off", "looping", "blocked", "returned", "callbacks", "failed"}
    /\ finished \in BOOLEAN
    /\ ioWaiter \in {"none", "epoll"} /\ blockedOn \in {"none", "epoll", "no"}
    /\ signal \in [none : BOOLEAN, epoll : BOOLEAN]
    /\ deadline \in Time
    /\ listeners \in [Fd -> Handler \cup {NoHandler}]
    /\ outdated \subseteq Fd /\ ready \subseteq Fd /\ epollResult \subseteq Fd \cup {Awaken}
    /\ sweeper \subseteq Handler \X {"app", "loop"}

\* While the thread sleeps and no wake-up is on its way, it will time out no
\* later than the earliest event it may distribute, the queue is not finished,
\* and it sleeps on the waiter that senders notify.
NoLostWakeUp ==
    loop = "blocked" /\ ~signal[blockedOn] =>
        /\ ~finished
        /\ blockedOn = ioWaiter
        /\ \A p \in Sub : \A e \in Elems(queue[p]) : deadline <= ev[e].handle

\* However often epoll reports a level-triggered descriptor, at most one task
\* for it is on its way: the thread never polls again before it ran the task.
OneTaskPerFd ==
    \A f \in Fd : \A d, e \in Event :
        ev[d].body = FdTask(f) /\ ev[e].body = FdTask(f) => d = e

\* After the queue is finished the loop thread leaves GetEvent and returns,
\* wherever it was blocked, unless it is prepared again.
FinishStopsTheLoop == finished ~> (loop = "off" \/ ~finished)

Looping == loop # "off" /\ ~finished

\* A due event is taken by the running loop, though the thread may be asleep
\* when it is inserted, or waiting on a waiter that is being replaced.
LoopTakesDueEvents ==
    \A e \in Event : (e \in Queued /\ ev[e].prio # IDLE /\ ev[e].handle < MaxNow) ~>
        (e \notin Queued \/ ~Looping)

\* Data on a listened descriptor is read in the end, unless the listener is
\* removed, its owner goes away or the loop is stopped, provided the application
\* comes to rest: a loop that always finds a due event never polls, and
\* RemoveAllEvents takes away the descriptor's task together with the others.
ReadyFdIsServed ==
    <>[][~LoopCancel /\ ~LoopSend]_loopSpecVars =>
        \A f \in Fd : (f \in ready /\ listeners[f] # NoHandler) ~>
            (f \notin ready \/ listeners[f] = NoHandler \/ ~Looping)
=============================================================================
