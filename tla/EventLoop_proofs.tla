--------------------------- MODULE EventLoop_proofs ---------------------------
(***************************************************************************)
(* The loop thread never sleeps through a wake-up, and never has two tasks *)
(* for one descriptor, for any number of events, handlers, descriptors and *)
(* priorities.  The lists stay as EventQueue_proofs has them, and what     *)
(* EventQueueOwners_proofs proves of the queue alone holds of the queue in *)
(* its loop, though the loop thread posts for handlers nobody may call.    *)
(* Last, what the listeners of descriptors, their waiter, their tasks and  *)
(* the destructors of their handlers owe each other.                       *)
(***************************************************************************)
EXTENDS EventLoop, EventQueueOwners_proofs

LoopVarTypes ==
    /\ loop \in {"off", "looping", "blocked", "returned", "callbacks", "failed"}
    /\ finished \in BOOLEAN
    /\ ioWaiter \in {"none", "epoll"} /\ blockedOn \in {"none", "epoll", "no"}
    /\ signal \in [none : BOOLEAN, epoll : BOOLEAN]
    /\ deadline \in Time
    /\ listeners \in [Fd -> Handler \cup {NoHandler}]
    /\ outdated \subseteq Fd /\ ready \subseteq Fd /\ epollResult \subseteq Fd \cup {Awaken}
    /\ sweeper \subseteq Handler \X {"app", "loop"}

(* Where the thread is.  It takes events only while it loops, sleeps until the *)
(* wake-up time that its last scan left, and on the EpollIoWaiter only while that *)
(* is the queue's.                                                         *)
WaitInv ==
    /\ loop # "looping" => stage = "get"
    /\ loop = "blocked" => /\ deadline = wakeUpTime
                           /\ blockedOn \in {"none", "epoll"}
                           /\ blockedOn = "epoll" => ioWaiter = "epoll"

(* The task of a descriptor is due at once.  It is posted between the return of *)
(* epoll_wait and the next scan, which finds it.                           *)
TaskInv ==
    \A f \in Fd : \A e \in Event : ev[e].body = FdTask(f) =>
        /\ ev[e].prio = HIGH /\ ev[e].handle <= now
        /\ loop \in {"off", "looping", "callbacks"}
        /\ loop = "callbacks" => f \notin epollResult
        /\ e \in sending => loop = "callbacks"

WakeInv == IInv /\ LoopVarTypes /\ WaitInv /\ NoLostWakeUp

-----------------------------------------------------------------------------
(* The lists: every step of the loop is a step of EventQueue or leaves it  *)
(* alone, except that a callback's handler need not be one that somebody   *)
(* can call.                                                               *)

LEMMA HandlesFdEvent ==
    ASSUME ConstantsAssumption, LoopAssumption, IInv, NEW f \in Fd, NEW e \in FdEvent \cap Free,
           ListenerIsThere(f),
           ev' = [ev EXCEPT ![e] = [owner |-> listeners[f], body |-> FdTask(f), prio |-> HIGH,
                                    send |-> now, handle |-> now]],
           sending' = sending \cup {e},
           UNCHANGED <<now, queue, pickVars, loopVars, handlerVars>>
    PROVE  IInv'
<1> DEFINE g == [owner |-> listeners[f], body |-> FdTask(f), prio |-> HIGH, send |-> now, handle |-> now]
<1>1. listeners[f] \in Handler
    BY DEF ListenerIsThere, Alive
<1>2. FdTask(f) \in Body /\ HIGH \in Used
    BY DEF LoopAssumption, FdTasks
<1>3. now \in 0..MaxNow /\ now \in 0..(MaxNow + MaxDelay)
    BY Times DEF IInv, TypeOK
<1>4. g \in Fields
    BY <1>1, <1>2, <1>3 DEF Fields
<1>5. g # Blank
    BY <1>1 DEF Blank, ConstantsAssumption
<1> HIDE DEF g
<1>6. ListsOK'
    BY <1>4, <1>5, StampKeepsLists DEF loopVars, g
<1> QED
    BY <1>6 DEF IInv, TypeOK, ListsOK, pickVars, loopVars, handlerVars

LEMMA LoopStepIsAQueueStep ==
    ASSUME [LoopNext]_loopSpecVars
    PROVE  [Next]_vars \/ \E f \in Fd : HandleFileDescriptorEvent(f)
<1>1. CASE Others
  <2>1. LoopSend => Send
    BY DEF LoopSend, Send
  <2>2. (\E e \in Event : LoopInsert(e)) => \E e \in Event : Insert(e)
    BY DEF LoopInsert
  <2>3. LoopCancel => Cancel
    BY DEF LoopCancel, Cancel
  <2>4. (\E h \in Handler : LoopRelease(h) \/ LoopRemoveOrphan(h)) => Destroy
    BY DEF LoopRelease, LoopRemoveOrphan, Destroy
  <2>5. LoopTick => Tick
    BY DEF LoopTick
  <2>6. \A h \in Handler : RemoveAllFileDescriptorListeners(h) => UNCHANGED vars
    BY DEF RemoveAllFileDescriptorListeners, RemoveListeners
  <2>7. \A s \in sweeper : RemoveOrphanListeners(s) => UNCHANGED vars
    BY DEF RemoveOrphanListeners
  <2>8. \A f \in Fd : /\ \A h \in Handler : AddFileDescriptorListener(f, h) => UNCHANGED vars
                      /\ RemoveFileDescriptorListener(f) \/ DataArrives(f) => UNCHANGED vars
    BY DEF AddFileDescriptorListener, RemoveFileDescriptorListener, RemoveListeners, DataArrives
  <2>9. Finish => UNCHANGED vars
    BY DEF Finish
  <2> QED
    BY <1>1, <2>1, <2>2, <2>3, <2>4, <2>5, <2>6, <2>7, <2>8, <2>9 DEF Others, Next
<1>2. CASE LoopThread \/ Prepare
  <2>1. GetEvent \/ LoopDistribute \/ LoopReleaseEvent => Consume
    BY DEF GetEvent, LoopDistribute, LoopReleaseEvent, Consume
  <2>2. BreakOut \/ NoneWakes \/ EpollReturns \/ EpollUncounts => UNCHANGED vars
    BY DEF BreakOut, NoneWakes, EpollReturns, EpollUncounts
  <2>3. Relock \/ EpollFails \/ ResetWaiter \/ Prepare => UNCHANGED vars
    BY DEF Relock, EpollFails, ResetWaiter, Prepare
  <2> QED
    BY <1>2, <2>1, <2>2, <2>3 DEF LoopThread, Next
<1>3. CASE UNCHANGED loopSpecVars
  BY <1>3 DEF loopSpecVars
<1> QED
  BY <1>1, <1>2, <1>3 DEF LoopNext

LEMMA LoopStepsOfTheQueue ==
    ASSUME ConstantsAssumption, LoopAssumption, IInv, [LoopNext]_loopSpecVars
    PROVE  IInv'
<1>1. ASSUME [Next]_vars PROVE IInv'
    BY <1>1, NextIInv
<1>2. ASSUME NEW f \in Fd, HandleFileDescriptorEvent(f) PROVE IInv'
  <2>1. CASE ListenerIsThere(f)
    <3>1. PICK e \in FdEvent \cap Free :
              /\ ev' = [ev EXCEPT ![e] = [owner |-> listeners[f], body |-> FdTask(f), prio |-> HIGH,
                                          send |-> now, handle |-> now]]
              /\ sending' = sending \cup {e}
              /\ UNCHANGED <<now, queue, pickVars, loopVars, handlerVars>>
      BY <1>2, <2>1 DEF HandleFileDescriptorEvent
    <3> QED
      BY <2>1, <3>1, HandlesFdEvent
  <2>2. CASE ~ListenerIsThere(f)
    BY <1>1, <1>2, <2>2 DEF HandleFileDescriptorEvent
  <2> QED
    BY <2>1, <2>2
<1> QED
    BY <1>1, <1>2, LoopStepIsAQueueStep

-----------------------------------------------------------------------------
(* The thread: its variables and where it is.                              *)

LEMMA TypesAndWaits ==
    ASSUME ConstantsAssumption, LoopAssumption, IInv, LoopVarTypes, WaitInv,
           [LoopNext]_loopSpecVars
    PROVE  LoopVarTypes' /\ WaitInv'
<1> USE DEF LoopVarTypes, WaitInv
<1>1. CASE LoopSend \/ LoopCancel \/ LoopTick \/ \E h \in Handler : LoopRelease(h)
  <2>1. UNCHANGED <<waitVars, fdVars, stage, wakeUpTime>>
    BY <1>1 DEF LoopSend, LoopCancel, LoopTick, LoopRelease, SendEvent, RemoveAllEvents, RemoveEvent,
          RemoveTask, RemoveMatching, Tick, Release, pickVars, loopVars
  <2> QED
    BY <2>1 DEF waitVars, fdVars
<1>2. ASSUME NEW e \in Event, LoopInsert(e) PROVE LoopVarTypes' /\ WaitInv'
  <2>1. UNCHANGED <<stage, wakeUpTime, loop, finished, ioWaiter, blockedOn, deadline, fdVars>>
    BY <1>2 DEF LoopInsert, Insert, pickVars, loopVars
  <2>2. signal' \in [none : BOOLEAN, epoll : BOOLEAN]
    BY <1>2 DEF LoopInsert, Notify
  <2> QED
    BY <2>1, <2>2 DEF fdVars
<1>3. ASSUME NEW h \in Handler, LoopRemoveOrphan(h) PROVE LoopVarTypes' /\ WaitInv'
  <2>1. UNCHANGED <<stage, wakeUpTime, waitVars, listeners, outdated, ready, epollResult>>
    BY <1>3 DEF LoopRemoveOrphan, RemoveOrphan, RemoveMatching, pickVars, loopVars
  <2>2. sweeper' \subseteq Handler \X {"app", "loop"}
    BY <1>3 DEF LoopRemoveOrphan, RemoveOrphan
  <2> QED
    BY <2>1, <2>2 DEF waitVars
<1>4. ASSUME NEW F \in SUBSET Fd, Forget(F)
      PROVE  listeners' \in [Fd -> Handler \cup {NoHandler}] /\ outdated' \subseteq Fd
    BY <1>4 DEF Forget
<1>5. ASSUME NEW s \in sweeper, RemoveOrphanListeners(s) PROVE LoopVarTypes' /\ WaitInv'
  <2>1. {f \in Fd : ~Alive(listeners[f])} \in SUBSET Fd
    OBVIOUS
  <2>2. /\ listeners' \in [Fd -> Handler \cup {NoHandler}] /\ outdated' \subseteq Fd
        /\ sweeper' \subseteq sweeper /\ UNCHANGED <<vars, waitVars, ready, epollResult>>
    BY <1>4, <1>5, <2>1 DEF RemoveOrphanListeners
  <2> QED
    BY <2>2 DEF vars, pickVars, loopVars, waitVars
<1>6. ASSUME NEW F \in SUBSET Fd, RemoveListeners(F) PROVE LoopVarTypes' /\ WaitInv'
    BY <1>4, <1>6 DEF RemoveListeners, vars, pickVars, loopVars, waitVars
<1>7. ASSUME NEW f \in Fd, NEW h \in Handler, AddFileDescriptorListener(f, h)
      PROVE  LoopVarTypes' /\ WaitInv'
  <2>1. /\ UNCHANGED <<stage, wakeUpTime, loop, finished, blockedOn, deadline, outdated, ready,
                       epollResult, sweeper>>
        /\ ioWaiter' = "epoll"
    BY <1>7 DEF AddFileDescriptorListener, SwapWaiter, vars, pickVars, loopVars
  <2>2. listeners' \in [Fd -> Handler \cup {NoHandler}]
    BY <1>7 DEF AddFileDescriptorListener
  <2>3. signal' \in [none : BOOLEAN, epoll : BOOLEAN]
    <3>1. CASE signal' = signal
      BY <3>1
    <3>2. CASE SwapWaiter
      <4>1. (signal.none \/ blockedOn = "none") \in BOOLEAN
        OBVIOUS
      <4> QED
        BY <3>2, <4>1 DEF SwapWaiter
    <3> QED
      BY <1>7, <3>1, <3>2 DEF AddFileDescriptorListener
  <2> QED
    BY <2>1, <2>2, <2>3
<1>8. ASSUME NEW f \in Fd, DataArrives(f) PROVE LoopVarTypes' /\ WaitInv'
    BY <1>8 DEF DataArrives, vars, pickVars, loopVars, waitVars
<1>9. CASE Finish
  <2>1. UNCHANGED <<stage, wakeUpTime, loop, ioWaiter, blockedOn, deadline, fdVars>> /\ finished' = TRUE
    BY <1>9 DEF Finish, vars, pickVars, loopVars
  <2>2. signal' \in [none : BOOLEAN, epoll : BOOLEAN]
    BY <1>9 DEF Finish, Notify
  <2> QED
    BY <2>1, <2>2 DEF fdVars
<1>10. CASE Prepare
    BY <1>10 DEF Prepare, vars, pickVars, loopVars, fdVars
<1>11. CASE GetEvent
  <2>1. wakeUpTime' \in Time
    BY LoopStepsOfTheQueue DEF IInv, TypeOK
  <2>2. CASE stage' = "taken"
    BY <1>11, <2>2 DEF GetEvent, fdVars
  <2>3. CASE stage' # "taken"
    <3>1. stage' = "get"
      BY <1>11, <2>3 DEF GetEvent, GetExpiredEvent, FindEvent, FindNothing, PickEvent, TakeIdleEvent, Take
    <3> QED
      BY <1>11, <2>1, <2>3, <3>1 DEF GetEvent, Block, fdVars
  <2> QED
    BY <2>2, <2>3
<1>12. CASE BreakOut
    BY <1>12 DEF BreakOut, vars, pickVars, loopVars, fdVars
<1>13. CASE LoopDistribute \/ LoopReleaseEvent
  <2>1. loop = "looping" /\ UNCHANGED <<wakeUpTime, waitVars, listeners, outdated, epollResult, sweeper>>
    BY <1>13 DEF LoopDistribute, LoopReleaseEvent, DistributeEvent, ReleaseEvent, pickVars, fdVars
  <2>2. ready' \subseteq Fd
    BY <1>13 DEF LoopDistribute, LoopReleaseEvent, fdVars
  <2> QED
    BY <2>1, <2>2 DEF waitVars
<1>14. CASE NoneWakes
    BY <1>14 DEF NoneWakes, vars, pickVars, loopVars, fdVars
<1>15. CASE EpollReturns
  <2>1. Pollable \subseteq Fd \cup {Awaken}
    BY DEF Pollable
  <2> QED
    BY <1>15, <2>1 DEF EpollReturns, vars, pickVars, loopVars
<1>16. CASE EpollUncounts
    BY <1>16 DEF EpollUncounts, vars, pickVars, loopVars
<1>17. ASSUME NEW f \in Fd, HandleFileDescriptorEvent(f) PROVE LoopVarTypes' /\ WaitInv'
  <2>1. /\ UNCHANGED <<stage, wakeUpTime, waitVars, listeners, ready, sweeper>>
        /\ outdated' \subseteq outdated /\ epollResult' \subseteq epollResult
    BY <1>17 DEF HandleFileDescriptorEvent, vars, pickVars, loopVars
  <2> QED
    BY <2>1 DEF waitVars
<1>18. CASE Relock \/ EpollFails
    BY <1>18 DEF Relock, EpollFails, vars, pickVars, loopVars, fdVars
<1>19. CASE ResetWaiter
    BY <1>4, <1>19 DEF ResetWaiter, vars, pickVars, loopVars
<1>20. CASE UNCHANGED loopSpecVars
    BY <1>20 DEF loopSpecVars, vars, pickVars, loopVars, waitVars, fdVars
<1>21. CASE \E h \in Handler : RemoveAllFileDescriptorListeners(h)
  <2>1. PICK h \in Handler : RemoveAllFileDescriptorListeners(h)
    BY <1>21
  <2>2. {f \in Fd : listeners[f] = h} \in SUBSET Fd
    OBVIOUS
  <2> QED
    BY <1>6, <2>1, <2>2 DEF RemoveAllFileDescriptorListeners
<1>22. ASSUME NEW f \in Fd, RemoveFileDescriptorListener(f) PROVE LoopVarTypes' /\ WaitInv'
  <2>1. {f} \in SUBSET Fd
    OBVIOUS
  <2> QED
    BY <1>6, <1>22, <2>1 DEF RemoveFileDescriptorListener
<1> HIDE DEF LoopVarTypes, WaitInv
<1>23. CASE Others
    BY <1>1, <1>2, <1>3, <1>5, <1>7, <1>8, <1>9, <1>21, <1>22, <1>23 DEF Others
<1>24. CASE LoopThread
    BY <1>11, <1>12, <1>13, <1>14, <1>15, <1>16, <1>17, <1>18, <1>19, <1>24 DEF LoopThread
<1> QED
    BY <1>10, <1>20, <1>23, <1>24 DEF LoopNext

-----------------------------------------------------------------------------
(* No wake-up is lost.                                                     *)

Unsignalled == loop = "blocked" /\ ~signal[blockedOn]

(* The sleeping thread need not be woken: no event came that it would take *)
(* any sooner.                                                             *)
LEMMA SleepIsKept ==
    ASSUME NoLostWakeUp,
           Unsignalled' => Unsignalled /\ UNCHANGED <<finished, ioWaiter, blockedOn, deadline>>,
           Unsignalled' => \A p \in Sub : \A e \in Elems(queue'[p]) :
                               e \in Elems(queue[p]) /\ ev'[e] = ev[e]
    PROVE  NoLostWakeUp'
BY DEF NoLostWakeUp, Unsignalled

(* The one step that adds an event to a list.                              *)
LEMMA InsertWakes ==
    ASSUME ConstantsAssumption, WakeInv, NEW e \in Event, LoopInsert(e)
    PROVE  NoLostWakeUp'
<1> SUFFICES ASSUME loop' = "blocked", ~signal'[blockedOn']
             PROVE  /\ ~finished' /\ blockedOn' = ioWaiter'
                    /\ \A p \in Sub : \A d \in Elems(queue'[p]) : deadline' <= ev'[d].handle
    BY DEF NoLostWakeUp
<1>1. /\ loop = "blocked" /\ UNCHANGED <<loop, finished, ioWaiter, blockedOn, deadline, ev>>
      /\ queue' = [queue EXCEPT ![ev[e].prio] = InsertEvent(queue[ev[e].prio], e)]
      /\ e \in sending
    BY DEF LoopInsert, Insert
<1>2. blockedOn \in {"none", "epoll"} /\ signal \in [none : BOOLEAN, epoll : BOOLEAN]
    BY <1>1 DEF WakeInv, WaitInv, LoopVarTypes
<1>3. ~signal[blockedOn]
    BY <1>1, <1>2 DEF LoopInsert, Notify
<1>4. /\ ~finished /\ blockedOn = ioWaiter
      /\ \A p \in Sub : \A d \in Elems(queue[p]) : deadline <= ev[d].handle
    BY <1>1, <1>3 DEF WakeInv, NoLostWakeUp
<1>5. ~NeedNotify(e)
    BY <1>1, <1>2, <1>4 DEF LoopInsert, Notify
<1>6. ev[e].prio # IDLE => deadline <= ev[e].handle
  <2>1. deadline = wakeUpTime /\ deadline \in Nat /\ ev[e].handle \in Nat
    BY <1>1, Times, FieldTypes DEF WakeInv, WaitInv, LoopVarTypes, IInv, TypeOK
  <2> QED
    BY <1>5, <2>1 DEF NeedNotify
<1>7. \A p \in Sub : \A d \in Elems(queue'[p]) : d \in Elems(queue[p]) \/ (d = e /\ ev[e].prio # IDLE)
    BY InsertedEventOnly DEF LoopInsert, WakeInv
<1> QED
    BY <1>1, <1>4, <1>6, <1>7

(* The one step that goes to sleep: the scan has seen the head of every list. *)
LEMMA BlockedUntilFirst ==
    ASSUME ConstantsAssumption, WakeInv, GetEvent
    PROVE  NoLostWakeUp'
<1>1. CASE stage' = "taken"
    BY <1>1 DEF GetEvent, NoLostWakeUp
<1>2. CASE stage' # "taken"
  <2>1. FindNothing /\ ev' = ev /\ ~finished /\ UNCHANGED <<finished, ioWaiter, queue>>
    BY <1>2 DEF GetEvent, GetExpiredEvent, FindEvent, FindNothing, PickEvent, TakeIdleEvent, Take
  <2>2. deadline' = Earliest({HeadTime(j) : j \in NonEmpty}) /\ blockedOn' = ioWaiter
    BY <1>2, <2>1 DEF GetEvent, Block, FindNothing, EnterIdle
  <2>3. ASSUME NEW p \in Sub, NEW e \in Elems(queue[p]) PROVE deadline' <= ev[e].handle
    BY <2>2, ScanSeesAll DEF WakeInv
  <2> QED
    BY <2>1, <2>2, <2>3 DEF NoLostWakeUp
<1> QED
    BY <1>1, <1>2

LEMMA WakeUpsAreKept ==
    ASSUME ConstantsAssumption, LoopAssumption, WakeInv, [LoopNext]_loopSpecVars
    PROVE  NoLostWakeUp'
<1> DEFINE Sleeping == UNCHANGED <<loop, finished, ioWaiter, blockedOn, signal, deadline>>
<1>1. IInv /\ NoLostWakeUp /\ (loop # "looping" => stage = "get")
      /\ signal \in [none : BOOLEAN, epoll : BOOLEAN]
    BY DEF WakeInv, WaitInv, LoopVarTypes
<1>2. ASSUME Sleeping, UNCHANGED <<queue, ev>> PROVE NoLostWakeUp'
    BY <1>1, <1>2, SleepIsKept DEF Unsignalled
<1>3. CASE LoopSend
  <2>1. PICK e \in Free : /\ \E f : ev' = [ev EXCEPT ![e] = f]
                          /\ queue' = queue
    BY <1>3 DEF LoopSend, SendEvent
  <2>2. Sleeping
    BY <1>3 DEF LoopSend, waitVars
  <2>3. \A p \in Sub : \A d \in Elems(queue'[p]) : d \in Elems(queue[p]) /\ ev'[d] = ev[d]
    BY <1>1, <2>1, StampedElsewhere
  <2> QED
    BY <1>1, <2>2, <2>3, SleepIsKept DEF Unsignalled
<1>4. CASE LoopCancel \/ \E h \in Handler : LoopRemoveOrphan(h)
  <2>1. \E R : RemoveMatching(R)
    BY <1>4 DEF LoopCancel, LoopRemoveOrphan, RemoveAllEvents, RemoveEvent, RemoveTask, RemoveOrphan
  <2>2. Sleeping
    BY <1>4 DEF LoopCancel, LoopRemoveOrphan, waitVars
  <2>3. \A p \in Sub : \A d \in Elems(queue'[p]) : d \in Elems(queue[p]) /\ ev'[d] = ev[d]
    BY <1>1, <2>1, RemovedEventsOnly
  <2> QED
    BY <1>1, <2>2, <2>3, SleepIsKept DEF Unsignalled
<1>5. CASE LoopTick \/ \E h \in Handler : LoopRelease(h)
    BY <1>2, <1>5 DEF LoopTick, LoopRelease, Tick, Release, queueVars, waitVars
<1>6. ASSUME NEW f \in Fd, NEW h \in Handler, AddFileDescriptorListener(f, h)
      PROVE  NoLostWakeUp'
  <2>1. UNCHANGED <<queue, ev, loop, finished, blockedOn, deadline>>
    BY <1>6 DEF AddFileDescriptorListener, vars, queueVars
  <2>2. Unsignalled' => Unsignalled /\ ioWaiter' = ioWaiter
    <3>1. CASE ioWaiter = "epoll"
      BY <1>6, <2>1, <3>1 DEF AddFileDescriptorListener, Unsignalled
    <3>2. CASE ioWaiter = "none"
      <4>1. loop = "blocked" => blockedOn = "none"
        BY <3>2 DEF WakeInv, WaitInv
      <4>2. signal' = [none |-> signal.none \/ blockedOn = "none", epoll |-> FALSE]
        BY <1>6, <3>2 DEF AddFileDescriptorListener, SwapWaiter
      <4>3. loop = "blocked" => signal' = [none |-> TRUE, epoll |-> FALSE]
        BY <4>1, <4>2
      <4>4. loop = "blocked" => signal'[blockedOn]
        BY <4>1, <4>3
      <4> QED
        BY <2>1, <4>4 DEF Unsignalled
    <3> QED
      BY <1>6, <3>1, <3>2 DEF AddFileDescriptorListener
  <2> QED
    BY <1>1, <2>1, <2>2, SleepIsKept
<1>7. CASE Finish
  <2>1. UNCHANGED <<queue, ev, loop, ioWaiter, blockedOn, deadline>>
    BY <1>7 DEF Finish, vars, queueVars
  <2>2. ~Unsignalled'
    <3> SUFFICES ASSUME loop = "blocked", ~signal'[blockedOn] PROVE FALSE
      BY <2>1 DEF Unsignalled
    <3>1. blockedOn \in {"none", "epoll"}
      BY DEF WakeInv, WaitInv
    <3>2. ~signal[blockedOn]
      BY <1>1, <1>7, <3>1 DEF Finish, Notify
    <3>3. blockedOn = ioWaiter
      BY <1>1, <3>2 DEF NoLostWakeUp
    <3> QED
      BY <1>1, <1>7, <3>1, <3>3 DEF Finish, Notify
  <2> QED
    BY <1>1, <2>2, SleepIsKept
<1>8. ASSUME NEW F, RemoveListeners(F) PROVE NoLostWakeUp'
    BY <1>2, <1>8 DEF RemoveListeners, vars, queueVars, waitVars
<1>9. CASE \/ \E s \in sweeper : RemoveOrphanListeners(s)
           \/ \E f \in Fd : DataArrives(f)
           \/ UNCHANGED loopSpecVars
    BY <1>2, <1>9 DEF RemoveOrphanListeners, DataArrives, loopSpecVars, vars, queueVars, waitVars
<1>10. CASE Others
    BY <1>3, <1>4, <1>5, <1>6, <1>7, <1>8, <1>9, <1>10, InsertWakes
       DEF Others, RemoveAllFileDescriptorListeners, RemoveFileDescriptorListener
<1>11. CASE GetEvent
    BY <1>11, BlockedUntilFirst
<1>12. ASSUME loop' # "blocked" PROVE NoLostWakeUp'
    BY <1>12 DEF NoLostWakeUp
<1>13. CASE Prepare \/ BreakOut \/ NoneWakes \/ EpollReturns \/ EpollUncounts \/ Relock
            \/ EpollFails \/ ResetWaiter
    BY <1>12, <1>13
       DEF Prepare, BreakOut, NoneWakes, EpollReturns, EpollUncounts, Relock, EpollFails, ResetWaiter
<1>14. CASE LoopDistribute \/ LoopReleaseEvent
  <2>1. stage # "get" /\ loop' = loop
    BY <1>14 DEF LoopDistribute, LoopReleaseEvent, DistributeEvent, ReleaseEvent, waitVars
  <2> QED
    BY <1>1, <1>12, <2>1
<1>15. CASE \E f \in Fd : HandleFileDescriptorEvent(f)
    BY <1>12, <1>15 DEF HandleFileDescriptorEvent, waitVars
<1> QED
    BY <1>9, <1>10, <1>11, <1>13, <1>14, <1>15 DEF LoopNext, LoopThread

LEMMA WakeInvIsInductive ==
    ASSUME ConstantsAssumption, LoopAssumption, WakeInv, [LoopNext]_loopSpecVars
    PROVE  WakeInv'
BY LoopStepsOfTheQueue, TypesAndWaits, WakeUpsAreKept DEF WakeInv

LEMMA WakeInvInitially ==
    ASSUME ConstantsAssumption, LoopInit
    PROVE  WakeInv
<1>1. IInv
    BY InitIInv DEF LoopInit
<1>2. LoopVarTypes /\ WaitInv
    BY Times DEF LoopInit, Init, LoopVarTypes, WaitInv
<1> QED
    BY <1>1, <1>2 DEF WakeInv, NoLostWakeUp, LoopInit

\* The loop's variables keep their types, whatever epoll returns and whoever adds and
\* removes listeners.
THEOREM LoopTypes == LoopSpec => []LoopTypeOK
<1>1. LoopInit => WakeInv
    BY WakeInvInitially, ConstantsAssumption
<1>2. WakeInv /\ [LoopNext]_loopSpecVars => WakeInv'
    BY WakeInvIsInductive, ConstantsAssumption, LoopAssumption
<1>3. WakeInv => LoopTypeOK
    BY DEF WakeInv, LoopVarTypes, LoopTypeOK, IInv
<1> QED
    BY <1>1, <1>2, <1>3, PTL DEF LoopSpec

\* No wake-up is lost: a thread that sleeps without a signal will time out before any
\* event it may distribute is due, on the waiter that senders notify.
THEOREM WakeUpsAreNotLost == LoopSpec => []NoLostWakeUp
<1>1. LoopInit => WakeInv
    BY WakeInvInitially, ConstantsAssumption
<1>2. WakeInv /\ [LoopNext]_loopSpecVars => WakeInv'
    BY WakeInvIsInductive, ConstantsAssumption, LoopAssumption
<1>3. WakeInv => NoLostWakeUp
    BY DEF WakeInv
<1> QED
    BY <1>1, <1>2, <1>3, PTL DEF LoopSpec

-----------------------------------------------------------------------------
(* One task for each descriptor.                                           *)

TaskInvs == IInv /\ LoopVarTypes /\ WaitInv /\ TaskInv /\ OneTaskPerFd

(* What TaskInv says of where the thread is when there is a task e for f.  *)
InTime(f, e) ==
    /\ loop \in {"off", "looping", "callbacks"}
    /\ loop = "callbacks" => f \notin epollResult
    /\ e \in sending => loop = "callbacks"

NoNewTasks == \A e \in Event : ev'[e].body \in FdTasks => ev'[e] = ev[e]

LEMMA TasksAreKept ==
    ASSUME TaskInv, OneTaskPerFd, now \in Nat, now' \in Nat, now <= now', ev \in [Event -> Fields],
           ConstantsAssumption, NoNewTasks,
           \A f \in Fd : \A e \in Event : ev[e].body = FdTask(f) /\ ev'[e] = ev[e] => InTime(f, e)'
    PROVE  TaskInv' /\ OneTaskPerFd'
<1>1. \A f \in Fd : FdTask(f) \in FdTasks /\ FdTask(f)' = FdTask(f)
    BY DEF FdTasks, FdTask
<1>2. \A e \in Event : ev[e].handle \in Nat
    BY FieldTypes
<1>3. \A f \in Fd : \A e \in Event : ev'[e].body = FdTask(f) => ev'[e] = ev[e] /\ ev[e].body = FdTask(f)
    BY <1>1 DEF NoNewTasks
<1>4. TaskInv'
    BY <1>1, <1>2, <1>3 DEF TaskInv, InTime
<1>5. OneTaskPerFd'
    BY <1>1, <1>3 DEF OneTaskPerFd
<1> QED
    BY <1>4, <1>5

LEMMA RecycledIsNoTask ==
    ASSUME LoopAssumption, NEW R, Recycle(R)
    PROVE  NoNewTasks
<1>1. Blank.body \notin FdTasks
    BY DEF Blank, LoopAssumption
<1> QED
    BY <1>1 DEF Recycle, NoNewTasks

(* A scan that finds nothing has seen that there is no task.               *)
LEMMA TasksAreFound ==
    ASSUME ConstantsAssumption, LoopAssumption, TaskInvs, stage = "get", loop = "looping",
           NEW f \in Fd, NEW e \in Event, ev[e].body = FdTask(f)
    PROVE  Candidates # {}
<1>1. ListsOK /\ HIGH \in Priority /\ HIGH \in Sub /\ now \in Nat
    BY ListsOfIInv, Times DEF TaskInvs, HIGH, Sub, IInv, TypeOK
<1>2. ev[e].prio = HIGH /\ ev[e].handle <= now /\ e \notin sending
    BY DEF TaskInvs, TaskInv
<1>3. ev[e] # Blank
    BY DEF Blank, LoopAssumption, FdTasks
<1>4. e # current
    BY <1>1, ConstantsAssumption DEF ListsOK, OnePlace
<1>5. e \in Queued
    BY <1>1, <1>2, <1>3, <1>4 DEF ListsOK, OnePlace, Free
<1>6. e \in Elems(queue[HIGH])
  <2>1. PICK p \in Priority : e \in Elems(queue[p])
    BY <1>1, <1>5, QueuedEvents DEF ListsOK
  <2> QED
    BY <1>1, <1>2, <2>1 DEF ListsOK, OnePlace
<1>7. queue[HIGH] \in Seq(Event) /\ Sorted(queue[HIGH]) /\ DOMAIN queue[HIGH] = 1..Len(queue[HIGH])
    BY <1>1, LenProperties DEF ListsOK, SortedByHandleTime
<1>8. PICK i \in 1..Len(queue[HIGH]) : queue[HIGH][i] = e
    BY <1>6, <1>7 DEF Elems
<1>9. queue[HIGH] # <<>> /\ Head(queue[HIGH]) = queue[HIGH][1]
    BY <1>7, <1>8
<1>10. HIGH \in NonEmpty
    BY <1>1, <1>9 DEF NonEmpty
<1>11. \A j \in NonEmpty : HeadTime(j) \in Nat
    BY <1>1, CandidateHeads, Times
<1>12. HeadTime(HIGH) <= now
  <2>1. HeadTime(HIGH) <= ev[e].handle
    <3>1. CASE i = 1
      BY <1>8, <1>9, <1>10, <1>11, <3>1 DEF HeadTime
    <3>2. CASE i # 1
      BY <1>7, <1>8, <1>9, <3>2 DEF HeadTime, Sorted
    <3> QED
      BY <3>1, <3>2
  <2>2. ev[e].handle \in Nat
    BY <1>1, FieldTypes DEF ListsOK
  <2> QED
    BY <1>1, <1>2, <1>10, <1>11, <2>1, <2>2
<1> DEFINE Due == {j \in NonEmpty : HeadTime(j) <= now}
<1>13. Due \in SUBSET Nat /\ HIGH \in Due
  <2>1. NonEmpty \subseteq Sub /\ Sub \subseteq Nat
    BY <1>1, CandidateHeads DEF Sub
  <2> QED
    BY <1>10, <1>12, <2>1
<1>14. PICK k \in Due : \A j \in Due : k <= j
    BY <1>13, LeastElement
<1>15. \A j \in NonEmpty : j < k => HeadTime(k) < HeadTime(j)
  <2> SUFFICES ASSUME NEW j \in NonEmpty, j < k PROVE HeadTime(k) < HeadTime(j)
    OBVIOUS
  <2>1. j \in Nat /\ k \in Nat
    BY <1>1, CandidateHeads DEF Sub
  <2>2. j \notin Due
    BY <1>14, <2>1
  <2> QED
    BY <1>1, <1>11, <2>2
<1>16. k \in Candidates
    BY <1>15 DEF Candidates
<1> QED
    BY <1>16

LEMMA PostsOneTask ==
    ASSUME ConstantsAssumption, LoopAssumption, TaskInvs, NEW f \in Fd, HandleFileDescriptorEvent(f)
    PROVE  TaskInv' /\ OneTaskPerFd'
<1>1. /\ loop = "callbacks" /\ loop' = loop /\ f \in epollResult /\ epollResult' = epollResult \ {f}
      /\ now' = now /\ now \in Nat /\ ev \in [Event -> Fields]
    BY Times DEF HandleFileDescriptorEvent, waitVars, vars, TaskInvs, IInv, TypeOK
<1>2. \A g \in Fd : FdTask(g) = FdTask(f) => g = f
    BY DEF FdTask
<1>3. CASE UNCHANGED vars
  <2>1. NoNewTasks /\ sending' = sending
    BY <1>3 DEF NoNewTasks, vars, queueVars
  <2>2. \A g \in Fd : \A e \in Event : ev[e].body = FdTask(g) => InTime(g, e)'
    BY <1>1, <2>1 DEF TaskInvs, TaskInv, InTime
  <2> QED
    BY <1>1, <2>1, <2>2, TasksAreKept DEF TaskInvs
<1>4. CASE ListenerIsThere(f)
  <2>1. PICK e \in FdEvent \cap Free :
            /\ ev' = [ev EXCEPT ![e] = [owner |-> listeners[f], body |-> FdTask(f), prio |-> HIGH,
                                        send |-> now, handle |-> now]]
            /\ sending' = sending \cup {e}
    BY <1>4 DEF HandleFileDescriptorEvent
  <2>2. /\ e \in Event /\ ev'[e].body = FdTask(f) /\ ev'[e].prio = HIGH /\ ev'[e].handle = now
        /\ \A d \in Event : d # e => ev'[d] = ev[d]
    BY <1>1, <2>1 DEF LoopAssumption
  <2>3. \A d \in Event : ev[d].body # FdTask(f)
    BY <1>1 DEF TaskInvs, TaskInv
  <2>4. ASSUME NEW g \in Fd, NEW d \in Event, ev'[d].body = FdTask(g)
        PROVE  /\ ev'[d].prio = HIGH /\ ev'[d].handle <= now' /\ InTime(g, d)'
               /\ d = e <=> g = f
    <3>1. CASE d = e
      BY <1>1, <1>2, <2>2, <2>4, <3>1 DEF InTime
    <3>2. CASE d # e
      <4>1. ev[d].body = FdTask(g) /\ ev'[d] = ev[d] /\ g # f
        BY <2>2, <2>3, <2>4, <3>2
      <4> QED
        BY <1>1, <2>1, <3>2, <4>1 DEF TaskInvs, TaskInv, InTime
    <3> QED
      BY <3>1, <3>2
  <2>5. \A g \in Fd : FdTask(g)' = FdTask(g)
    BY DEF FdTask
  <2>6. TaskInv'
    BY <2>4, <2>5 DEF TaskInv, InTime
  <2>7. OneTaskPerFd'
    <3>1. ASSUME NEW g \in Fd, NEW c \in Event, NEW d \in Event,
                 ev'[c].body = FdTask(g), ev'[d].body = FdTask(g)
          PROVE  c = d
      <4>1. CASE g = f
        BY <2>4, <3>1, <4>1
      <4>2. CASE g # f
        <5>1. c # e /\ d # e
          BY <2>4, <3>1, <4>2
        <5>2. ev[c].body = FdTask(g) /\ ev[d].body = FdTask(g)
          BY <2>2, <3>1, <5>1
        <5> QED
          BY <5>2 DEF TaskInvs, OneTaskPerFd
      <4> QED
        BY <4>1, <4>2
    <3> QED
      BY <2>5, <3>1 DEF OneTaskPerFd
  <2> QED
    BY <2>6, <2>7
<1> QED
    BY <1>3, <1>4 DEF HandleFileDescriptorEvent

LEMMA TasksAreInductive ==
    ASSUME ConstantsAssumption, LoopAssumption, TaskInvs, [LoopNext]_loopSpecVars
    PROVE  TaskInv' /\ OneTaskPerFd'
<1>1. /\ IInv /\ TaskInv /\ OneTaskPerFd /\ ev \in [Event -> Fields] /\ now \in Nat
      /\ (loop # "looping" => stage = "get")
    BY Times DEF TaskInvs, WaitInv, IInv, TypeOK
<1> DEFINE Tasks == {e \in Event : ev[e].body \in FdTasks}
<1>2. ASSUME NoNewTasks, UNCHANGED <<loop, epollResult>>, sending' \cap Tasks \subseteq sending,
             now' \in Nat, now <= now'
      PROVE  TaskInv' /\ OneTaskPerFd'
  <2>1. \A f \in Fd : \A e \in Event : ev[e].body = FdTask(f) => InTime(f, e)'
    <3> SUFFICES ASSUME NEW f \in Fd, NEW e \in Event, ev[e].body = FdTask(f) PROVE InTime(f, e)'
      OBVIOUS
    <3>1. e \in Tasks
      BY DEF FdTasks
    <3>2. InTime(f, e)
      BY <1>1 DEF TaskInv, InTime
    <3> QED
      BY <1>2, <3>1, <3>2 DEF InTime
  <2> QED
    BY <1>1, <1>2, <2>1, TasksAreKept
<1>3. ASSUME UNCHANGED vars, UNCHANGED <<loop, epollResult>> PROVE TaskInv' /\ OneTaskPerFd'
  <2>1. NoNewTasks /\ sending' = sending /\ now' = now
    BY <1>3 DEF NoNewTasks, vars, queueVars
  <2> QED
    BY <1>1, <1>2, <1>3, <2>1
<1>4. ASSUME UNCHANGED vars,
             \A f \in Fd : \A e \in Event : ev[e].body = FdTask(f) => InTime(f, e)'
      PROVE  TaskInv' /\ OneTaskPerFd'
  <2>1. NoNewTasks /\ now' = now
    BY <1>4 DEF NoNewTasks, vars, queueVars
  <2> QED
    BY <1>1, <1>4, <2>1, TasksAreKept
<1>5. CASE LoopSend
  <2>1. PICK e \in Free, b \in Body \ FdTasks :
            /\ \E h, p, t, u : ev' = [ev EXCEPT ![e] = [owner |-> h, body |-> b, prio |-> p,
                                                       send |-> t, handle |-> u]]
            /\ sending' = sending \cup {e} /\ now' = now
    BY <1>5 DEF LoopSend, SendEvent
  <2>2. e \in Event /\ ev[e] = Blank
    BY <1>1, <2>1 DEF Free, IInv, OnePlace
  <2>3. e \notin Tasks
    BY <2>2 DEF Blank, LoopAssumption
  <2>4. ev'[e].body = b /\ \A d \in Event : d # e => ev'[d] = ev[d]
    BY <1>1, <2>1, <2>2
  <2>5. NoNewTasks
    BY <2>1, <2>4 DEF NoNewTasks
  <2>6. UNCHANGED <<loop, epollResult>>
    BY <1>5 DEF LoopSend, waitVars, fdVars
  <2> QED
    BY <1>1, <1>2, <2>1, <2>3, <2>5, <2>6
<1>6. ASSUME NEW e \in Event, LoopInsert(e) PROVE TaskInv' /\ OneTaskPerFd'
  <2>1. /\ ev' = ev /\ sending' \subseteq sending /\ now' = now
        /\ UNCHANGED <<loop, epollResult>>
    BY <1>6 DEF LoopInsert, Insert, fdVars
  <2>2. NoNewTasks
    BY <2>1 DEF NoNewTasks
  <2> QED
    BY <1>1, <1>2, <2>1, <2>2
<1>7. CASE LoopCancel \/ \E h \in Handler : LoopRemoveOrphan(h)
  <2>1. PICK R : RemoveMatching(R)
    BY <1>7 DEF LoopCancel, LoopRemoveOrphan, RemoveAllEvents, RemoveEvent, RemoveTask, RemoveOrphan
  <2>2. NoNewTasks /\ sending' = sending /\ now' = now
    BY <2>1, RecycledIsNoTask DEF RemoveMatching
  <2>3. UNCHANGED <<loop, epollResult>>
    BY <1>7 DEF LoopCancel, LoopRemoveOrphan, waitVars, fdVars
  <2> QED
    BY <1>1, <1>2, <2>2, <2>3
<1>8. CASE LoopTick \/ \E h \in Handler : LoopRelease(h)
  <2>1. /\ ev' = ev /\ sending' = sending /\ now' \in Nat /\ now <= now'
        /\ UNCHANGED <<loop, epollResult>>
    BY <1>1, <1>8 DEF LoopTick, LoopRelease, Tick, Release, queueVars, waitVars, fdVars
  <2>2. NoNewTasks
    BY <2>1 DEF NoNewTasks
  <2> QED
    BY <1>2, <2>1, <2>2
<1>9. ASSUME NEW f \in Fd, NEW h \in Handler, AddFileDescriptorListener(f, h)
      PROVE  TaskInv' /\ OneTaskPerFd'
    BY <1>3, <1>9 DEF AddFileDescriptorListener
<1>10. ASSUME NEW F, RemoveListeners(F) PROVE TaskInv' /\ OneTaskPerFd'
    BY <1>3, <1>10 DEF RemoveListeners, waitVars
<1>11. CASE \/ \E s \in sweeper : RemoveOrphanListeners(s)
            \/ \E f \in Fd : DataArrives(f)
            \/ Finish
            \/ UNCHANGED loopSpecVars
    BY <1>3, <1>11 DEF RemoveOrphanListeners, DataArrives, Finish, loopSpecVars, waitVars, fdVars
<1>12. CASE Others
    BY <1>5, <1>6, <1>7, <1>8, <1>9, <1>10, <1>11, <1>12
       DEF Others, RemoveAllFileDescriptorListeners, RemoveFileDescriptorListener
<1>13. CASE GetEvent
  <2>1. /\ loop = "looping" /\ stage = "get" /\ ev' = ev /\ sending' = sending /\ now' = now
        /\ epollResult' = epollResult
    BY <1>13 DEF GetEvent, GetExpiredEvent, fdVars
  <2>2. NoNewTasks
    BY <2>1 DEF NoNewTasks
  <2>3. CASE stage' = "taken"
    BY <1>1, <1>2, <1>13, <2>1, <2>2, <2>3 DEF GetEvent
  <2>4. CASE stage' # "taken"
    <3>1. Candidates = {}
      BY <1>13, <2>4 DEF GetEvent, GetExpiredEvent, FindEvent, FindNothing, EnterIdle, PickEvent,
            TakeIdleEvent, Take
    <3>2. \A f \in Fd : \A e \in Event : ev[e].body # FdTask(f)
      BY <2>1, <3>1, TasksAreFound
    <3> QED
      BY <1>1, <2>1, <2>2, <3>2, TasksAreKept
  <2> QED
    BY <2>3, <2>4
<1>14. CASE Prepare \/ BreakOut \/ NoneWakes
    BY <1>1, <1>4, <1>14 DEF Prepare, BreakOut, NoneWakes, vars, fdVars, TaskInv, InTime
<1>15. CASE EpollReturns \/ EpollUncounts \/ EpollFails \/ ResetWaiter
  <2>1. loop \in {"blocked", "returned", "failed"} /\ UNCHANGED vars
    BY <1>15 DEF EpollReturns, EpollUncounts, EpollFails, ResetWaiter
  <2>2. \A f \in Fd : \A e \in Event : ev[e].body # FdTask(f)
    BY <1>1, <2>1 DEF TaskInv
  <2> QED
    BY <1>4, <2>1, <2>2
<1>16. CASE Relock
  <2>1. /\ UNCHANGED vars /\ loop' = "looping" /\ CallbackSends = {}
    BY <1>16 DEF Relock
  <2>2. ASSUME NEW f \in Fd, NEW e \in Event, ev[e].body = FdTask(f) PROVE InTime(f, e)'
    <3>1. e \notin sending
      BY <2>1, <2>2 DEF CallbackSends, FdTasks
    <3> QED
      BY <2>1, <3>1 DEF InTime, vars
  <2> QED
    BY <1>4, <2>1, <2>2
<1>17. CASE LoopDistribute \/ LoopReleaseEvent
  <2>1. /\ UNCHANGED <<loop, epollResult, sending, now>>
        /\ ev' = ev \/ \E R : Recycle(R)
    BY <1>17 DEF LoopDistribute, LoopReleaseEvent, DistributeEvent, ReleaseEvent, queueVars, waitVars,
          fdVars
  <2>2. NoNewTasks
    <3>1. ev' = ev => NoNewTasks
      BY DEF NoNewTasks
    <3> QED
      BY <2>1, <3>1, RecycledIsNoTask
  <2> QED
    BY <1>1, <1>2, <2>1, <2>2
<1>18. CASE \E f \in Fd : HandleFileDescriptorEvent(f)
    BY <1>18, PostsOneTask
<1> QED
    BY <1>11, <1>12, <1>13, <1>14, <1>15, <1>16, <1>17, <1>18 DEF LoopNext, LoopThread

LEMMA TasksInvariant == LoopSpec => []TaskInvs
<1>1. LoopInit => TaskInvs
  <2> SUFFICES ASSUME LoopInit PROVE TaskInvs
    OBVIOUS
  <2>1. IInv /\ LoopVarTypes /\ WaitInv
    BY WakeInvInitially, ConstantsAssumption DEF WakeInv
  <2>2. \A e \in Event : ev[e].body \notin FdTasks
    BY LoopAssumption DEF LoopInit, Init, Blank
  <2>3. \A f \in Fd : FdTask(f) \in FdTasks
    BY DEF FdTasks
  <2> QED
    BY <2>1, <2>2, <2>3 DEF TaskInvs, TaskInv, OneTaskPerFd
<1>2. TaskInvs /\ [LoopNext]_loopSpecVars => TaskInvs'
    BY LoopStepsOfTheQueue, TypesAndWaits, TasksAreInductive, ConstantsAssumption, LoopAssumption
       DEF TaskInvs
<1> QED
    BY <1>1, <1>2, PTL DEF LoopSpec

\* However often epoll reports a descriptor, no two tasks for it are on their way: the scan
\* that would let the thread poll again has taken the first one.
THEOREM DescriptorsHaveOneTask == LoopSpec => []OneTaskPerFd
<1>1. TaskInvs => OneTaskPerFd
    BY DEF TaskInvs
<1> QED
    BY <1>1, TasksInvariant, PTL

-----------------------------------------------------------------------------
(* The queue in its loop.  HandleFileDescriptorEvent is the one step that is *)
(* no step of Spec: it posts for the owner of a listener, which may be the *)
(* last handler the loop ran and nobody else's any more.                   *)

(* Only such a post may be for a handler that nobody can call; its body is a *)
(* descriptor's task, and it is over before the loop runs another handler. *)
LoopSendersHoldOwner == \A e \in sending : Callable(ev[e].owner) \/ ev[e].body \in FdTasks
LoopOwnersInv == OwnersCore /\ LoopSendersHoldOwner

LEMMA SendersWhileLooping ==
    ASSUME TaskInvs, LoopSendersHoldOwner, stage # "get"
    PROVE  SendersHoldOwner
<1>1. loop = "looping"
  BY DEF TaskInvs, WaitInv
<1>2. sending \subseteq Event
  BY DEF TaskInvs, IInv, TypeOK
<1>3. \A e \in sending : ev[e].body \notin FdTasks
  BY <1>1, <1>2 DEF TaskInvs, TaskInv, FdTasks
<1> QED
  BY <1>3 DEF LoopSendersHoldOwner, SendersHoldOwner

(* What HandleFileDescriptorEvent leaves alone.                            *)
LEMMA CallbackLeavesTheQueue ==
    ASSUME ConstantsAssumption, IInv, NEW f \in Fd, HandleFileDescriptorEvent(f)
    PROVE  /\ UNCHANGED <<now, queue, stage, current, currentHandler, held, dtor>>
           /\ sending \subseteq sending'
           /\ \A e \in Event \ Free : ev'[e] = ev[e]
           /\ \A e \in sending' \ sending : /\ ev'[e].owner = listeners[f] /\ ev'[e].body = FdTask(f)
                                            /\ Alive(listeners[f])
<1>1. CASE ListenerIsThere(f)
  <2>1. PICK e \in FdEvent \cap Free :
            /\ ev' = [ev EXCEPT ![e] = [owner |-> listeners[f], body |-> FdTask(f), prio |-> HIGH,
                                        send |-> now, handle |-> now]]
            /\ sending' = sending \cup {e}
            /\ UNCHANGED <<now, queue, pickVars, loopVars, handlerVars>>
    BY <1>1 DEF HandleFileDescriptorEvent
  <2>2. ev \in [Event -> Fields] /\ e \in Event
    BY <2>1 DEF IInv, TypeOK, Free
  <2>3. /\ ev'[e].owner = listeners[f] /\ ev'[e].body = FdTask(f)
        /\ \A d \in Event : d # e => ev'[d] = ev[d]
    BY <2>1, <2>2
  <2> QED
    BY <1>1, <2>1, <2>3 DEF ListenerIsThere, loopVars, handlerVars
<1>2. CASE ~ListenerIsThere(f)
  BY <1>2 DEF HandleFileDescriptorEvent, vars, queueVars, loopVars, handlerVars
<1> QED
  BY <1>1, <1>2

LEMMA EventsInUse ==
    ASSUME IInv
    PROVE  /\ \A e \in Queued \cup sending : e \in Event \ Free
           /\ stage # "get" => current \in Event \ Free
<1>1. Queued \subseteq Event
  BY QueuedEvents DEF IInv, TypeOK
<1> QED
  BY <1>1 DEF IInv, TypeOK, OnePlace, Free

LEMMA LoopOwnersStep ==
    ASSUME ConstantsAssumption, LoopAssumption, TaskInvs, LoopOwnersInv, [LoopNext]_loopSpecVars
    PROVE  LoopOwnersInv'
<1>1. IInv
  BY DEF TaskInvs
<1>2. CASE [Next]_vars
  <2>1. OwnersCore'
    <3>1. DistributeEvent => SendersHoldOwner
      BY SendersWhileLooping DEF DistributeEvent, LoopOwnersInv
    <3> QED
      BY <1>1, <1>2, <3>1, NextOwnersCore DEF LoopOwnersInv
  <2>2. LoopSendersHoldOwner'
    <3> SUFFICES ASSUME NEW e \in sending'
                 PROVE  Callable(ev[e].owner)' \/ ev'[e].body \in FdTasks
      BY DEF LoopSendersHoldOwner, FdTasks, FdTask
    <3>1. CASE Callable(ev[e].owner)'
      BY <3>1
    <3>2. CASE e \in sending /\ ev'[e] = ev[e] /\ ~Callable(ev[e].owner)
      BY <3>2 DEF LoopOwnersInv, LoopSendersHoldOwner
    <3> QED
      BY <1>1, <1>2, <3>1, <3>2, SendersKeepOwner
  <2> QED
    BY <2>1, <2>2 DEF LoopOwnersInv
<1>3. ASSUME NEW f \in Fd, HandleFileDescriptorEvent(f) PROVE LoopOwnersInv'
  <2>1. /\ UNCHANGED <<queue, stage, current, currentHandler, held, dtor>>
        /\ \A e \in Event \ Free : ev'[e] = ev[e]
        /\ \A e \in sending' \ sending : /\ ev'[e].owner = listeners[f] /\ ev'[e].body = FdTask(f)
                                         /\ Alive(listeners[f])
    BY <1>1, <1>3, CallbackLeavesTheQueue
  <2>2. /\ Queued' = Queued
        /\ \A e \in Queued \cup sending : ev'[e] = ev[e]
        /\ stage = "running" => ev'[current] = ev[current]
    BY <1>1, <2>1, EventsInUse, QueuedStays
  <2>3. DyingIsUnreferenced' /\ RunningIsCurrent' /\ DoneLeavesNothing'
    BY <2>1, <2>2 DEF LoopOwnersInv, OwnersCore, DyingIsUnreferenced, RunningIsCurrent, DoneLeavesNothing
  <2>4. SendersReferToOwner'
    <3> SUFFICES ASSUME NEW e \in sending' PROVE Alive(ev[e].owner)'
      BY DEF SendersReferToOwner
    <3>1. Alive(ev'[e].owner)
      BY <2>1, <2>2 DEF LoopOwnersInv, OwnersCore, SendersReferToOwner
    <3> QED
      BY <2>1, <3>1 DEF Alive
  <2>5. LoopSendersHoldOwner'
    <3> SUFFICES ASSUME NEW e \in sending'
                 PROVE  Callable(ev[e].owner)' \/ ev'[e].body \in FdTasks
      BY DEF LoopSendersHoldOwner, FdTasks, FdTask
    <3>1. Callable(ev'[e].owner) \/ ev'[e].body \in FdTasks
      BY <2>1, <2>2 DEF LoopOwnersInv, LoopSendersHoldOwner, FdTasks
    <3> QED
      BY <2>1, <3>1 DEF Callable
  <2> QED
    BY <2>3, <2>4, <2>5 DEF LoopOwnersInv, OwnersCore
<1> QED
  BY <1>2, <1>3, LoopStepIsAQueueStep

LEMMA LoopOwnersInvariant == LoopSpec => []LoopOwnersInv
<1>1. LoopInit => LoopOwnersInv
  BY InitOwnersInv, ConstantsAssumption
     DEF LoopInit, OwnersInv, SendersHoldOwner, LoopOwnersInv, LoopSendersHoldOwner
<1>2. TaskInvs /\ LoopOwnersInv /\ [LoopNext]_loopSpecVars => LoopOwnersInv'
  BY LoopOwnersStep, ConstantsAssumption, LoopAssumption
<1> QED
  BY <1>1, <1>2, TasksInvariant, PTL DEF LoopSpec

\* In the loop too a destroyed handler has no event left and none of its events runs,
\* though a callback may post for the loop's last handler when the application has let go of it.
THEOREM NothingOutlivesInTheLoop == LoopSpec => []NothingOutlivesItsHandler
<1>1. TaskInvs /\ LoopOwnersInv => NothingOutlivesItsHandler
  BY OwnersCoreImplies, ConstantsAssumption DEF TaskInvs, LoopOwnersInv
<1> QED
  BY <1>1, TasksInvariant, LoopOwnersInvariant, PTL

\* The queue in its loop, with two kinds of waiters, descriptors, wake-ups and failures
\* of epoll, delivers as EventDelivery promises: the waiting changes nothing its users see.
THEOREM LoopDelivers == LoopSpec => ImplementsDelivery
<1>1. LoopInit => Delivery!Init
  BY DeliveryInit DEF LoopInit
<1>2. TaskInvs /\ LoopOwnersInv /\ [LoopNext]_loopSpecVars => [Delivery!Next]_(Delivery!vars)
  <2> SUFFICES ASSUME TaskInvs, LoopOwnersInv, [LoopNext]_loopSpecVars
               PROVE  [Delivery!Next]_(Delivery!vars)
    OBVIOUS
  <2>1. IInv /\ OwnersCore
    BY DEF TaskInvs, LoopOwnersInv
  <2>2. CASE [Next]_vars
    BY <2>1, <2>2, DeliveryStep, ConstantsAssumption
  <2>3. ASSUME NEW f \in Fd, HandleFileDescriptorEvent(f) PROVE UNCHANGED Delivery!vars
    <3>1. UNCHANGED <<now, queue, current, dtor>> /\ \A e \in Queued : ev'[e] = ev[e]
      BY <2>1, <2>3, CallbackLeavesTheQueue, EventsInUse, ConstantsAssumption
    <3> QED
      BY <3>1, DeliveryStutters
  <2> QED
    BY <2>2, <2>3, LoopStepIsAQueueStep
<1> QED
  BY <1>1, <1>2, TasksInvariant, LoopOwnersInvariant, PTL DEF LoopSpec, ImplementsDelivery, Delivery!Spec

\* Nor does the loop disturb the order within a priority: a descriptor's task is stamped
\* outside the lock like any other event, and passes none that is not later.
THEOREM NoneIsOvertakenInTheLoop == LoopSpec => NoOvertaking
<1>1. TaskInvs /\ [LoopNext]_loopSpecVars => [\A p \in Priority : NoneOvertakes(p)]_vars
  <2> SUFFICES ASSUME TaskInvs, [LoopNext]_loopSpecVars, ~UNCHANGED vars, NEW p \in Priority
               PROVE  NoneOvertakes(p)
    OBVIOUS
  <2>1. IInv
    BY DEF TaskInvs
  <2>2. CASE Next
    BY <2>1, <2>2, OvertakingStep, ConstantsAssumption
  <2>3. ASSUME NEW f \in Fd, HandleFileDescriptorEvent(f) PROVE NoneOvertakes(p)
    BY <2>1, <2>3, CallbackLeavesTheQueue, NoneMoves, ConstantsAssumption
  <2> QED
    BY <2>2, <2>3, LoopStepIsAQueueStep
<1> QED
  BY <1>1, TasksInvariant, PTL DEF LoopSpec, NoOvertaking, NoneOvertakes

\* In the loop too an overdue head is passed over only at the expense of the turns of the
\* higher priorities, of which the tasks of the descriptors are one.
THEOREM BypassesUseTurnsInTheLoop == LoopSpec => BypassUsesTurns
<1>1. TaskInvs /\ [LoopNext]_loopSpecVars =>
        [\A p \in Sub : Overdue(p) /\ stage = "get" /\ stage' = "taken" /\ current' # Head(queue[p])
                        => TurnsUsed(p)]_vars
  <2>1. \A f \in Fd : IInv /\ HandleFileDescriptorEvent(f) => stage' = stage
    BY CallbackLeavesTheQueue, ConstantsAssumption
  <2> QED
    BY <2>1, BypassStep, LoopStepIsAQueueStep DEF TaskInvs
<1> QED
  BY <1>1, TasksInvariant, PTL DEF LoopSpec, BypassUsesTurns
\* With the bypasses counted beside the loop: an overdue head of priority p is passed over
\* less than (MaxHandled + 1)^p times in a row, however many descriptors have data.
THEOREM BypassesAreBoundedInTheLoop == LoopSpec /\ CountsBypasses => []BypassBounded
<1>1. LoopInit /\ bypassed = [p \in Sub |-> 0] => TurnsInv
  BY TurnsInitially, ConstantsAssumption DEF LoopInit
<1>2. TaskInvs /\ TaskInvs' /\ TurnsInv /\ [LoopNext]_loopSpecVars /\ [Count]_turnsVars => TurnsInv'
  <2> SUFFICES ASSUME TaskInvs, TaskInvs', TurnsInv, [LoopNext]_loopSpecVars, [Count]_turnsVars
               PROVE  TurnsInv'
    OBVIOUS
  <2>1. IInv /\ IInv'
    BY DEF TaskInvs
  <2>2. CASE [Next]_vars
    BY <2>1, <2>2, CountedStep, ConstantsAssumption
  <2>3. ASSUME NEW f \in Fd, HandleFileDescriptorEvent(f) PROVE TurnsInv'
    <3>1. stage' = stage /\ handled' = handled
      BY <2>3 DEF HandleFileDescriptorEvent, vars, pickVars, loopVars
    <3> QED
      BY <3>1, NoTurn DEF EventTaken
  <2> QED
    BY <2>2, <2>3, LoopStepIsAQueueStep
<1>3. TaskInvs /\ TurnsInv => BypassBounded
  BY TurnsBound, ConstantsAssumption DEF TaskInvs
<1> QED
  BY <1>1, <1>2, <1>3, TasksInvariant, PTL DEF LoopSpec, CountsBypasses

-----------------------------------------------------------------------------
(* The listeners of the descriptors, their waiter and their handlers.      *)

\* A listener exists only while the queue's waiter is the one that polls descriptors:
\* the waiter is replaced before the first listener is added, and whoever goes back to the
\* NoneIoWaiter forgets every listener.
ListenersArePolled == (\E f \in Fd : listeners[f] # NoHandler) => ioWaiter = "epoll"

\* A destroyed handler listens to nothing, once the second half of its RemoveOrphan is over.
\* Events and listeners are removed under two locks, with the loop running in between.
ListenersAreSwept ==
    \A f \in Fd : listeners[f] \in Handler /\ dtor[listeners[f]] = "done" =>
        \E s \in sweeper : s[1] = listeners[f]

\* A task for a descriptor belongs to the handler that listens to it now, unless the
\* listener it was posted for has been removed since.
TasksAreTheListeners ==
    \A f \in Fd : \A e \in Event : ev[e].body = FdTask(f) /\ f \notin outdated =>
        listeners[f] = ev[e].owner

ListenerInv == ListenersArePolled /\ ListenersAreSwept /\ TasksAreTheListeners

(* No step of the queue's own makes a descriptor's task.                   *)
LEMMA TasksAreCallbacks ==
    ASSUME ConstantsAssumption, LoopAssumption, IInv, [LoopNext]_loopSpecVars
    PROVE  NoNewTasks \/ \E f \in Fd : HandleFileDescriptorEvent(f)
<1>1. ASSUME ev' = ev PROVE NoNewTasks
  BY <1>1 DEF NoNewTasks
<1>2. CASE LoopSend
  <2>1. PICK e \in Event, b \in Body \ FdTasks :
            \E h, p, t, u : ev' = [ev EXCEPT ![e] = [owner |-> h, body |-> b, prio |-> p,
                                                    send |-> t, handle |-> u]]
    BY <1>2 DEF LoopSend, SendEvent
  <2>2. ev'[e].body = b /\ \A d \in Event : d # e => ev'[d] = ev[d]
    BY <2>1 DEF IInv, TypeOK
  <2> QED
    BY <2>1, <2>2 DEF NoNewTasks
<1>3. CASE (\E e \in Event : LoopInsert(e)) \/ LoopTick \/ \E h \in Handler : LoopRelease(h)
  BY <1>1, <1>3 DEF LoopInsert, Insert, LoopTick, Tick, LoopRelease, Release, queueVars
<1>4. CASE LoopCancel \/ (\E h \in Handler : LoopRemoveOrphan(h)) \/ LoopReleaseEvent
  <2>1. \E R : Recycle(R)
    BY <1>4 DEF LoopCancel, RemoveAllEvents, RemoveEvent, RemoveTask, LoopRemoveOrphan, RemoveOrphan, RemoveMatching,
          LoopReleaseEvent, ReleaseEvent
  <2> QED
    BY <2>1, RecycledIsNoTask
<1>5. CASE \/ \E h \in Handler : RemoveAllFileDescriptorListeners(h)
           \/ \E s \in sweeper : RemoveOrphanListeners(s)
           \/ \E f \in Fd : \/ \E h \in Handler : AddFileDescriptorListener(f, h)
                            \/ RemoveFileDescriptorListener(f)
                            \/ DataArrives(f)
           \/ Finish \/ Prepare \/ UNCHANGED loopSpecVars
  BY <1>1, <1>5
     DEF RemoveAllFileDescriptorListeners, RemoveOrphanListeners, AddFileDescriptorListener,
         RemoveFileDescriptorListener, RemoveListeners, DataArrives, Finish, Prepare,
         loopSpecVars, vars, queueVars
<1>6. CASE GetEvent \/ LoopDistribute
  BY <1>1, <1>6 DEF GetEvent, GetExpiredEvent, LoopDistribute, DistributeEvent, queueVars
<1>7. CASE BreakOut \/ NoneWakes \/ EpollReturns \/ EpollUncounts \/ Relock \/ EpollFails \/ ResetWaiter
  BY <1>1, <1>7
     DEF BreakOut, NoneWakes, EpollReturns, EpollUncounts, Relock, EpollFails, ResetWaiter,
         vars, queueVars
<1> QED
  BY <1>2, <1>3, <1>4, <1>5, <1>6, <1>7 DEF LoopNext, Others, LoopThread

(* What the steps of the loop do to the listeners and to the destructors.  *)
LEMMA ListenerSteps ==
    ASSUME IInv, [LoopNext]_loopSpecVars
    PROVE  \/ /\ UNCHANGED <<listeners, outdated, ioWaiter, sweeper>>
              /\ \A h \in Handler : dtor'[h] = "done" => dtor[h] = "done"
           \/ \E h \in Handler : LoopRemoveOrphan(h)
           \/ \E f \in Fd, h \in Handler : AddFileDescriptorListener(f, h)
           \/ \E s \in sweeper : RemoveOrphanListeners(s)
           \/ \E F \in SUBSET Fd : RemoveListeners(F)
           \/ ResetWaiter
           \/ \E f \in Fd : HandleFileDescriptorEvent(f)
<1> DEFINE Same == /\ UNCHANGED <<listeners, outdated, ioWaiter, sweeper>>
                   /\ \A h \in Handler : dtor'[h] = "done" => dtor[h] = "done"
<1>1. dtor \in [Handler -> {"no", "app", "loop", "done"}]
  BY DEF IInv, TypeOK
<1>2. LoopSend \/ LoopCancel \/ LoopTick => Same
  BY DEF LoopSend, SendEvent, LoopCancel, RemoveAllEvents, RemoveEvent, RemoveTask, LoopTick, Tick, handlerVars, waitVars, fdVars
<1>3. \A e \in Event : LoopInsert(e) => Same
  BY DEF LoopInsert, Insert, handlerVars, fdVars
<1>4. \A h \in Handler : LoopRelease(h) => Same
  BY <1>1 DEF LoopRelease, Release, waitVars, fdVars
<1>5. Prepare \/ Finish \/ (\E f \in Fd : DataArrives(f)) \/ UNCHANGED loopSpecVars => Same
  BY DEF Prepare, Finish, DataArrives, loopSpecVars, vars, handlerVars, waitVars, fdVars
<1>6. GetEvent \/ LoopReleaseEvent => Same
  BY DEF GetEvent, GetExpiredEvent, LoopReleaseEvent, ReleaseEvent, handlerVars, waitVars, fdVars
<1>7. LoopDistribute => Same
  BY <1>1 DEF LoopDistribute, DistributeEvent, waitVars, fdVars
<1>8. BreakOut \/ NoneWakes \/ EpollReturns \/ EpollUncounts \/ Relock \/ EpollFails => Same
  BY DEF BreakOut, NoneWakes, EpollReturns, EpollUncounts, Relock, EpollFails, vars, handlerVars, fdVars
<1>9. \A h \in Handler : RemoveAllFileDescriptorListeners(h) => \E F \in SUBSET Fd : RemoveListeners(F)
  <2>1. \A h : {f \in Fd : listeners[f] = h} \in SUBSET Fd
    OBVIOUS
  <2> QED
    BY <2>1 DEF RemoveAllFileDescriptorListeners
<1>10. \A f \in Fd : RemoveFileDescriptorListener(f) => \E F \in SUBSET Fd : RemoveListeners(F)
  <2>1. \A f \in Fd : {f} \in SUBSET Fd
    OBVIOUS
  <2> QED
    BY <2>1 DEF RemoveFileDescriptorListener
<1> QED
  BY <1>2, <1>3, <1>4, <1>5, <1>6, <1>7, <1>8, <1>9, <1>10 DEF LoopNext, Others, LoopThread

(* Removing listeners makes their tasks outdated.                          *)
LEMMA ForgottenTasks ==
    ASSUME ConstantsAssumption, LoopAssumption, IInv, TasksAreTheListeners, ev' = ev,
           NEW F \in SUBSET Fd, Forget(F)
    PROVE  TasksAreTheListeners'
<1> SUFFICES ASSUME NEW f \in Fd, NEW e \in Event, ev[e].body = FdTask(f), f \notin outdated'
             PROVE  listeners'[f] = ev[e].owner
  BY DEF TasksAreTheListeners, FdTask
<1>1. f \notin outdated /\ (f \in F => listeners[f] = NoHandler)
  BY DEF Forget
<1>2. listeners[f] = ev[e].owner
  BY <1>1 DEF TasksAreTheListeners
<1>3. ev[e] # Blank
  BY DEF Blank, FdTasks, LoopAssumption
<1>4. ev[e].owner \in Handler
  BY <1>3, FieldTypes DEF IInv, TypeOK
<1> QED
  BY <1>1, <1>2, <1>4 DEF Forget, ConstantsAssumption

LEMMA ListenerStep ==
    ASSUME ConstantsAssumption, LoopAssumption, TaskInvs, LoopOwnersInv, ListenerInv,
           [LoopNext]_loopSpecVars
    PROVE  ListenerInv'
<1> USE DEF ListenersArePolled, ListenersAreSwept
<1>1. /\ IInv /\ ListenersArePolled /\ ListenersAreSwept /\ TasksAreTheListeners
      /\ listeners \in [Fd -> Handler \cup {NoHandler}] /\ NoHandler \notin Handler
      /\ dtor \in [Handler -> {"no", "app", "loop", "done"}]
      /\ \A f \in Fd : FdTask(f)' = FdTask(f) /\ FdTask(f) \in FdTasks
  BY DEF TaskInvs, LoopVarTypes, ListenerInv, ConstantsAssumption, IInv, TypeOK, FdTask, FdTasks
<1>2. \A h : Alive(h) => h \in Handler /\ dtor[h] # "done"
  BY DEF Alive, LoopOwnersInv, OwnersCore, DyingIsUnreferenced
<1>3. ASSUME UNCHANGED <<listeners, outdated>>, NoNewTasks PROVE TasksAreTheListeners'
  BY <1>1, <1>3 DEF TasksAreTheListeners, NoNewTasks
<1>4. CASE \E f \in Fd : HandleFileDescriptorEvent(f)
  <2>1. PICK f \in Fd : HandleFileDescriptorEvent(f)
    BY <1>4
  <2>2. /\ UNCHANGED <<listeners, ioWaiter, sweeper, dtor>>
        /\ \A e \in Event \ Free : ev'[e] = ev[e]
    BY <1>1, <2>1, CallbackLeavesTheQueue DEF HandleFileDescriptorEvent, waitVars
  <2>3. TasksAreTheListeners'
    <3>1. CASE ListenerIsThere(f)
      <4>1. PICK e \in FdEvent \cap Free :
                /\ ev' = [ev EXCEPT ![e] = [owner |-> listeners[f], body |-> FdTask(f), prio |-> HIGH,
                                            send |-> now, handle |-> now]]
                /\ outdated' = outdated \ {f}
        BY <2>1, <3>1 DEF HandleFileDescriptorEvent
      <4>2. /\ ev'[e].owner = listeners[f] /\ ev'[e].body = FdTask(f)
            /\ \A d \in Event : d # e => ev'[d] = ev[d]
        BY <4>1 DEF TaskInvs, IInv, TypeOK, LoopAssumption
      <4>3. \A d \in Event : ev[d].body # FdTask(f)
        BY <2>1 DEF TaskInvs, TaskInv, HandleFileDescriptorEvent
      <4>4. \A g \in Fd : FdTask(g) = FdTask(f) => g = f
        BY DEF FdTask
      <4> QED
        BY <1>1, <2>2, <4>1, <4>2, <4>3, <4>4 DEF TasksAreTheListeners
    <3>2. CASE ~ListenerIsThere(f)
      <4>1. UNCHANGED <<ev, outdated>>
        BY <2>1, <3>2 DEF HandleFileDescriptorEvent, vars, queueVars
      <4> QED
        BY <1>3, <2>2, <4>1 DEF NoNewTasks
    <3> QED
      BY <3>1, <3>2
  <2> QED
    BY <1>1, <2>2, <2>3 DEF ListenerInv
<1>5. ASSUME NEW h \in Handler, LoopRemoveOrphan(h), NoNewTasks PROVE ListenerInv'
  <2>1. /\ UNCHANGED <<listeners, outdated, ioWaiter>>
        /\ dtor' = [dtor EXCEPT ![h] = "done"]
        /\ sweeper' = sweeper \cup {<<h, dtor[h]>>}
    BY <1>5 DEF LoopRemoveOrphan, RemoveOrphan, waitVars
  <2>2. ListenersAreSwept'
    <3> SUFFICES ASSUME NEW f \in Fd, listeners[f] \in Handler, dtor'[listeners[f]] = "done"
                 PROVE  \E s \in sweeper' : s[1] = listeners[f]
      BY <2>1
    <3>1. CASE listeners[f] = h
      <4>1. <<h, dtor[h]>> \in sweeper' /\ <<h, dtor[h]>>[1] = h
        BY <2>1
      <4> QED
        BY <3>1, <4>1
    <3>2. CASE listeners[f] # h
      BY <1>1, <2>1, <3>2
    <3> QED
      BY <3>1, <3>2
  <2> QED
    BY <1>1, <1>3, <1>5, <2>1, <2>2 DEF ListenerInv
<1>6. ASSUME NEW f \in Fd, NEW h \in Handler, AddFileDescriptorListener(f, h) PROVE ListenerInv'
  <2>1. /\ UNCHANGED <<ev, dtor, outdated, sweeper>> /\ Callable(h) /\ listeners[f] = NoHandler
        /\ ioWaiter' = "epoll"
        /\ listeners' = [listeners EXCEPT ![f] = h] \/ listeners' = listeners
    BY <1>6 DEF AddFileDescriptorListener, SwapWaiter, vars, queueVars, handlerVars
  <2>2. dtor[h] # "done"
    BY <1>2, <2>1 DEF Callable, Alive
  <2>3. ListenersAreSwept'
    BY <1>1, <2>1, <2>2
  <2>4. TasksAreTheListeners'
    <3> SUFFICES ASSUME NEW g \in Fd, NEW e \in Event, ev[e].body = FdTask(g), g \notin outdated
                 PROVE  listeners'[g] = ev[e].owner
      BY <1>1, <2>1 DEF TasksAreTheListeners
    <3>1. listeners[g] = ev[e].owner
      BY <1>1 DEF TasksAreTheListeners
    <3>2. ev[e] # Blank
      BY <1>1 DEF Blank, LoopAssumption
    <3>3. ev[e].owner \in Handler
      BY <1>1, <3>2, FieldTypes DEF IInv, TypeOK
    <3> QED
      BY <1>1, <2>1, <3>1, <3>3
  <2> QED
    BY <2>1, <2>3, <2>4 DEF ListenerInv
<1>7. ASSUME NEW s \in sweeper, RemoveOrphanListeners(s) PROVE ListenerInv'
  <2> DEFINE F == {f \in Fd : ~Alive(listeners[f])}
  <2>1. /\ F \in SUBSET Fd /\ Forget(F)
        /\ UNCHANGED <<ev, dtor, ioWaiter>>
    BY <1>7 DEF RemoveOrphanListeners, vars, queueVars, handlerVars, waitVars
  <2>2. \A f \in Fd : listeners'[f] = IF f \in F THEN NoHandler ELSE listeners[f]
    BY <2>1 DEF Forget
  <2>3. TasksAreTheListeners'
    BY <1>1, <2>1, ForgottenTasks
  <2> QED
    BY <1>1, <1>2, <2>1, <2>2, <2>3 DEF ListenerInv
<1>8. ASSUME NEW F \in SUBSET Fd, RemoveListeners(F) PROVE ListenerInv'
  <2>1. Forget(F) /\ UNCHANGED <<ev, dtor, ioWaiter, sweeper>>
    BY <1>8 DEF RemoveListeners, vars, queueVars, handlerVars, waitVars
  <2>2. \A f \in Fd : listeners'[f] = IF f \in F THEN NoHandler ELSE listeners[f]
    BY <2>1 DEF Forget
  <2>3. TasksAreTheListeners'
    BY <1>1, <2>1, ForgottenTasks
  <2> QED
    BY <1>1, <2>1, <2>2, <2>3 DEF ListenerInv
<1>9. CASE ResetWaiter
  <2>1. Fd \in SUBSET Fd /\ Forget(Fd) /\ ev' = ev
    BY <1>9 DEF ResetWaiter, vars, queueVars
  <2>2. \A f \in Fd : listeners'[f] = NoHandler
    BY <2>1 DEF Forget
  <2>3. TasksAreTheListeners'
    BY <1>1, <2>1, ForgottenTasks
  <2> QED
    BY <1>1, <2>2, <2>3 DEF ListenerInv
<1>10. ASSUME UNCHANGED <<listeners, outdated, ioWaiter, sweeper>>, NoNewTasks,
              \A h \in Handler : dtor'[h] = "done" => dtor[h] = "done"
       PROVE  ListenerInv'
  BY <1>1, <1>3, <1>10 DEF ListenerInv
<1>11. NoNewTasks \/ \E f \in Fd : HandleFileDescriptorEvent(f)
  BY <1>1, TasksAreCallbacks
<1> HIDE DEF ListenersArePolled, ListenersAreSwept
<1> QED
  BY <1>1, <1>4, <1>5, <1>6, <1>7, <1>8, <1>9, <1>10, <1>11, ListenerSteps

LEMMA ListenerInvariant == LoopSpec => []ListenerInv
<1>1. LoopInit => ListenerInv
  <2> SUFFICES ASSUME LoopInit PROVE ListenerInv
    OBVIOUS
  <2>1. \A f \in Fd : listeners[f] = NoHandler
    BY DEF LoopInit
  <2>2. \A f \in Fd : \A e \in Event : ev[e].body # FdTask(f)
    BY LoopAssumption DEF LoopInit, Init, Blank, FdTasks
  <2>3. NoHandler \notin Handler
    BY ConstantsAssumption DEF ConstantsAssumption
  <2> QED
    BY <2>1, <2>2, <2>3 DEF ListenerInv, ListenersArePolled, ListenersAreSwept, TasksAreTheListeners
<1>2. TaskInvs /\ LoopOwnersInv /\ ListenerInv /\ [LoopNext]_loopSpecVars => ListenerInv'
  BY ListenerStep, ConstantsAssumption, LoopAssumption
<1> QED
  BY <1>1, <1>2, TasksInvariant, LoopOwnersInvariant, PTL DEF LoopSpec

\* Whatever listeners are added and removed, whatever fails, and whenever the loop goes back
\* to the NoneIoWaiter: there is no listener that nothing polls.
THEOREM NoListenerIsDeaf == LoopSpec => []ListenersArePolled
<1>1. ListenerInv => ListenersArePolled
  BY DEF ListenerInv
<1> QED
  BY <1>1, ListenerInvariant, PTL

\* Although RemoveOrphan locks twice and a callback may run in between, a listener whose
\* handler is destroyed is about to be removed.
THEOREM NoListenerOutlivesItsHandler == LoopSpec => []ListenersAreSwept
<1>1. ListenerInv => ListenersAreSwept
  BY DEF ListenerInv
<1> QED
  BY <1>1, ListenerInvariant, PTL

\* Although a listener may be removed, and another added for the same descriptor, while the
\* first one's task is queued: a task that no removal outdated reports to the present listener.
THEOREM TasksFindTheirListener == LoopSpec => []TasksAreTheListeners
<1>1. ListenerInv => TasksAreTheListeners
  BY DEF ListenerInv
<1> QED
  BY <1>1, ListenerInvariant, PTL
=============================================================================
