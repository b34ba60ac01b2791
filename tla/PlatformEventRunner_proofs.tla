--------------------- MODULE PlatformEventRunner_proofs ---------------------
(***************************************************************************)
(* The timer of the platform's main thread covers the queue unless a       *)
(* sender raced with SetTimer, and the thread's runner is an execution of  *)
(* the queue, for any number of events and handlers.                       *)
(***************************************************************************)
EXTENDS PlatformEventRunner, EventQueueOwners_proofs

\* The timer fires, or the next wake-up comes, in time for every queued event.
InTimeForAll(t) == \A p \in Sub : \A e \in Elems(queue[p]) : t <= ev[e].handle

(* Run takes events only in its loop.  In the looper the timer is set for   *)
(* the wake-up time of the last scan, which an insertion that does not set  *)
(* the timer respects; before SetTimer that time is still in time for all.  *)
RunnerInv ==
    /\ run \in {"looper", "run", "arm"} /\ timer \in Time /\ raced \in BOOLEAN
    /\ run # "run" => stage = "get"
    /\ run = "looper" /\ ~raced => timer <= wakeUpTime \/ timer <= now
    /\ run = "arm" /\ ~raced => InTimeForAll(wakeUpTime)

TimerInv == IInv /\ RunnerInv /\ TimerCoversTheQueue

(* The main thread's runner does to the queue what a loop thread does.      *)
LEMMA PlatStepsOfTheQueue == [PlatNext]_platSpecVars => [Next]_vars
<1>1. PlatNext => Next \/ UNCHANGED vars
  BY DEF PlatNext, PlatSend, PlatInsert, PlatCancel, PlatRelease, PlatRemoveOrphan, PlatTick, MainThread,
         TimerFires, RunGetExpiredEvent, RunDistribute, RunRelease, SetTimer, Next, Destroy, Consume
<1>2. UNCHANGED platSpecVars => UNCHANGED vars
  BY DEF platSpecVars
<1> QED
  BY <1>1, <1>2

(* No list gets another event, and the clock does not go back.              *)
LEMMA TimerStaysInTime ==
    ASSUME ConstantsAssumption, IInv, RunnerInv, TimerCoversTheQueue,
           UNCHANGED <<platVars, stage, wakeUpTime>>, now' \in Nat, now <= now',
           \A p \in Sub : \A e \in Elems(queue'[p]) : e \in Elems(queue[p]) /\ ev'[e] = ev[e]
    PROVE  RunnerInv' /\ TimerCoversTheQueue'
<1>1. now \in Nat /\ timer \in Nat
  BY Times DEF IInv, TypeOK, RunnerInv
<1>2. timer <= now => timer <= now'
  BY <1>1
<1>3. UNCHANGED <<run, timer, raced, stage, wakeUpTime>>
  BY DEF platVars
<1>4. RunnerInv'
  BY <1>2, <1>3 DEF RunnerInv, InTimeForAll
<1>5. TimerCoversTheQueue'
  BY <1>2, <1>3 DEF TimerCoversTheQueue
<1> QED
  BY <1>4, <1>5

LEMMA InsertIsInTime ==
    ASSUME ConstantsAssumption, TimerInv, NEW e \in Event, PlatInsert(e)
    PROVE  RunnerInv' /\ TimerCoversTheQueue'
<1>1. /\ Insert(e) /\ e \in sending
      /\ UNCHANGED <<now, ev, stage, wakeUpTime, run>>
      /\ now \in Nat /\ now \in Time /\ wakeUpTime \in Nat /\ timer \in Nat /\ ev[e].handle \in Nat
  BY Times, FieldTypes DEF PlatInsert, Insert, loopVars, pickVars, TimerInv, RunnerInv, IInv, TypeOK
<1>2. \A p \in Sub : \A d \in Elems(queue'[p]) :
          d \in Elems(queue[p]) \/ (d = e /\ ev[e].prio # IDLE)
  BY <1>1, InsertedEventOnly DEF TimerInv
<1>3. \A p \in Sub : \A d \in Elems(queue'[p]) : ev[d].handle \in Nat
  <2>1. ASSUME NEW p \in Sub, NEW d \in Elems(queue'[p]) PROVE ev[d].handle \in Nat
    <3>1. d \in Elems(queue[p]) => ev[d].handle \in Nat
      BY HeadIsEarliest, Times DEF TimerInv
    <3> QED
      BY <1>1, <1>2, <2>1, <3>1
  <2> QED
    BY <2>1
<1>4. CASE NeedNotify(e)
  <2>1. timer' = now /\ raced' = (raced \/ run = "arm")
    BY <1>4 DEF PlatInsert
  <2>2. timer' <= now'
    BY <1>1, <2>1
  <2>3. raced' \in BOOLEAN /\ (run = "arm" => raced')
    BY <2>1 DEF TimerInv, RunnerInv
  <2> QED
    BY <1>1, <2>1, <2>2, <2>3 DEF TimerInv, RunnerInv, TimerCoversTheQueue
<1>5. CASE ~NeedNotify(e)
  <2>1. UNCHANGED <<timer, raced>>
    BY <1>5 DEF PlatInsert
  <2>2. ev[e].prio # IDLE => wakeUpTime <= ev[e].handle
    BY <1>1, <1>5 DEF NeedNotify
  <2>3. run = "arm" /\ ~raced => InTimeForAll(wakeUpTime)'
    BY <1>1, <1>2, <2>2 DEF TimerInv, RunnerInv, InTimeForAll
  <2>4. RunnerInv'
    BY <1>1, <2>1, <2>3 DEF TimerInv, RunnerInv
  <2>5. TimerCoversTheQueue'
    <3> SUFFICES ASSUME run = "looper", ~raced, NEW p \in Sub, NEW d \in Elems(queue'[p])
                 PROVE  timer <= ev[d].handle \/ timer <= now
      BY <1>1, <2>1 DEF TimerCoversTheQueue
    <3>1. CASE d \in Elems(queue[p])
      BY <3>1 DEF TimerInv, TimerCoversTheQueue
    <3>2. CASE d = e /\ ev[e].prio # IDLE
      BY <1>1, <2>2, <3>2 DEF TimerInv, RunnerInv
    <3> QED
      BY <1>2, <3>1, <3>2
  <2> QED
    BY <2>4, <2>5
<1> QED
  BY <1>4, <1>5

LEMMA ScanIsInTime ==
    ASSUME ConstantsAssumption, TimerInv, RunGetExpiredEvent
    PROVE  RunnerInv' /\ TimerCoversTheQueue'
<1>1. /\ run = "run" /\ run' = (IF stage' = "taken" THEN "run" ELSE "arm")
      /\ UNCHANGED <<timer, raced, ev>> /\ GetExpiredEvent /\ stage = "get"
  BY DEF RunGetExpiredEvent, GetExpiredEvent
<1>2. CASE stage' = "taken"
  BY <1>1, <1>2 DEF TimerInv, RunnerInv, TimerCoversTheQueue
<1>3. CASE stage' # "taken"
  <2>1. FindNothing
    BY <1>1, <1>3 DEF GetExpiredEvent, FindEvent, PickEvent, TakeIdleEvent, Take
  <2>2. UNCHANGED <<queue, stage>> /\ wakeUpTime' = Earliest({HeadTime(j) : j \in NonEmpty})
    BY <2>1 DEF FindNothing, EnterIdle
  <2>3. InTimeForAll(wakeUpTime)'
    BY <1>1, <2>2, ScanSeesAll DEF TimerInv, InTimeForAll
  <2> QED
    BY <1>1, <1>3, <2>2, <2>3 DEF TimerInv, RunnerInv, TimerCoversTheQueue
<1> QED
  BY <1>2, <1>3

LEMMA SetTimerIsInTime ==
    ASSUME ConstantsAssumption, TimerInv, SetTimer
    PROVE  RunnerInv' /\ TimerCoversTheQueue'
<1>1. /\ run = "arm" /\ run' = "looper" /\ UNCHANGED <<now, ev, queue, stage, wakeUpTime, raced>>
      /\ timer' = IF wakeUpTime <= now THEN now ELSE wakeUpTime
  BY DEF SetTimer, vars, queueVars, loopVars, pickVars
<1>2. now \in Time /\ now \in Nat /\ wakeUpTime \in Time /\ wakeUpTime \in Nat
  BY Times DEF TimerInv, IInv, TypeOK
<1>3. RunnerInv'
  BY <1>1, <1>2 DEF TimerInv, RunnerInv
<1>4. TimerCoversTheQueue'
  BY <1>1, <1>2 DEF TimerInv, RunnerInv, TimerCoversTheQueue, InTimeForAll
<1> QED
  BY <1>3, <1>4

LEMMA TimerIsInTime ==
    ASSUME ConstantsAssumption, TimerInv, [PlatNext]_platSpecVars
    PROVE  RunnerInv' /\ TimerCoversTheQueue'
<1>0. IInv' /\ now \in Nat /\ now' \in Nat
  <2>1. IInv'
    BY PlatStepsOfTheQueue, NextIInv DEF TimerInv
  <2> QED
    BY <2>1, Times DEF TimerInv, IInv, TypeOK
<1> DEFINE Holds == RunnerInv' /\ TimerCoversTheQueue'
<1>1. ASSUME UNCHANGED <<platVars, stage, wakeUpTime>>, now <= now',
             \A p \in Sub : \A e \in Elems(queue'[p]) : e \in Elems(queue[p]) /\ ev'[e] = ev[e]
      PROVE  Holds
  BY <1>0, <1>1, TimerStaysInTime DEF TimerInv
<1>2. CASE PlatSend
  <2>1. PICK h \in Handler, e \in Event, b \in Body, p \in Used, d \in 0..MaxDelay : SendEvent(h, e, b, p, d)
    BY <1>2 DEF PlatSend, Send
  <2>2. /\ UNCHANGED <<now, queue, stage, wakeUpTime>> /\ e \in Free /\ UNCHANGED platVars
        /\ ev' = [ev EXCEPT ![e] = [owner |-> h, body |-> b, prio |-> p, send |-> now, handle |-> now + d]]
    BY <1>2, <2>1 DEF PlatSend, SendEvent, loopVars, pickVars
  <2>3. \A q \in Sub : \A x \in Elems(queue'[q]) : x \in Elems(queue[q]) /\ ev'[x] = ev[x]
    BY <2>2, StampedElsewhere DEF TimerInv
  <2> QED
    BY <1>0, <1>1, <2>2, <2>3
<1>3. ASSUME NEW e \in Event, PlatInsert(e) PROVE Holds
  BY <1>3, InsertIsInTime
<1>4. ASSUME NEW R, RemoveMatching(R), UNCHANGED platVars PROVE Holds
  <2>1. UNCHANGED <<now, stage, wakeUpTime>>
    BY <1>4 DEF RemoveMatching, loopVars, pickVars
  <2>2. \A p \in Sub : \A e \in Elems(queue'[p]) : e \in Elems(queue[p]) /\ ev'[e] = ev[e]
    BY <1>4, RemovedEventsOnly DEF TimerInv
  <2> QED
    BY <1>0, <1>1, <1>4, <2>1, <2>2
<1>5. CASE PlatCancel \/ \E h \in Handler : PlatRemoveOrphan(h)
  <2>1. \E R : RemoveMatching(R) /\ UNCHANGED platVars
    BY <1>5 DEF PlatCancel, PlatRemoveOrphan, Cancel, RemoveAllEvents, RemoveEvent, RemoveTask, RemoveOrphan
  <2> QED
    BY <1>4, <2>1
<1>6. CASE PlatTick \/ (\E h \in Handler : PlatRelease(h)) \/ UNCHANGED platSpecVars
  <2>1. UNCHANGED <<platVars, stage, wakeUpTime, queue, ev>> /\ now <= now'
    BY <1>0, <1>6 DEF PlatTick, Tick, PlatRelease, Release, platSpecVars, vars, queueVars, loopVars, pickVars
  <2> QED
    BY <1>1, <2>1 DEF Elems
<1>7. CASE TimerFires
  <2>1. run' = "run" /\ timer' = TimeMax /\ raced' = FALSE
    BY <1>7 DEF TimerFires
  <2> QED
    BY <2>1, Times DEF RunnerInv, TimerCoversTheQueue
<1>8. CASE RunDistribute \/ RunRelease
  <2>1. run = "run" /\ run' = run /\ UNCHANGED <<timer, raced>>
    BY <1>8 DEF RunDistribute, RunRelease, DistributeEvent, ReleaseEvent, platVars, TimerInv, RunnerInv
  <2> QED
    BY <2>1 DEF TimerInv, RunnerInv, TimerCoversTheQueue
<1> QED
  BY <1>2, <1>3, <1>5, <1>6, <1>7, <1>8, ScanIsInTime, SetTimerIsInTime DEF PlatNext, MainThread

LEMMA TimerInvariant == PlatSpec => []TimerInv
<1>1. PlatInit => TimerInv
  <2>1. ASSUME PlatInit PROVE TimerInv
    <3>1. IInv /\ \A p \in Sub : Elems(queue[p]) = {}
      BY <2>1, InitIInv, ConstantsAssumption, Times DEF PlatInit, Init, Elems
    <3>2. timer = TimeMax /\ wakeUpTime = TimeMax /\ run = "looper" /\ stage = "get" /\ raced = FALSE
      BY <2>1 DEF PlatInit, Init
    <3>3. TimeMax \in Time /\ TimeMax <= TimeMax
      BY Times, ConstantsAssumption
    <3>4. RunnerInv
      BY <3>2, <3>3 DEF RunnerInv
    <3>5. TimerCoversTheQueue
      BY <3>1 DEF TimerCoversTheQueue
    <3> QED
      BY <3>1, <3>4, <3>5 DEF TimerInv
  <2> QED
    BY <2>1
<1>2. TimerInv /\ [PlatNext]_platSpecVars => TimerInv'
  BY PlatStepsOfTheQueue, NextIInv, TimerIsInTime, ConstantsAssumption DEF TimerInv
<1> QED
  BY <1>1, <1>2, PTL DEF PlatSpec

\* The types of the runner, for any number of events and handlers.
THEOREM PlatTypes == PlatSpec => []PlatTypeOK
<1>1. TimerInv => PlatTypeOK
  BY DEF TimerInv, RunnerInv, IInv, PlatTypeOK
<1> QED
  BY <1>1, TimerInvariant, PTL

\* However sends, removals and the clock interleave with Run: in the looper the
\* timer fires no later than the earliest queued event is due, unless an Insert
\* came between GetExpiredEvent and SetTimer.
THEOREM TimerIsEarlyEnough == PlatSpec => []TimerCoversTheQueue
<1>1. TimerInv => TimerCoversTheQueue
  BY DEF TimerInv
<1> QED
  BY <1>1, TimerInvariant, PTL

-----------------------------------------------------------------------------
\* Whatever the looper, the timer and the race in SetTimer do, the main thread's
\* runner is an execution of the queue: GetExpiredEvent and DistributeEvent are called
\* in the order in which a loop thread calls them.
THEOREM PlatRunsTheQueue == PlatSpec => Spec
<1>1. PlatInit => Init
  BY DEF PlatInit
<1> QED
  BY <1>1, PlatStepsOfTheQueue, PTL DEF PlatSpec, Spec

\* So the queue's promise holds on the main thread: an event is delivered once, not
\* before it is due and in order, unless it is cancelled or its handler is destroyed.
THEOREM PlatDelivers == PlatSpec => ImplementsDelivery
BY PlatRunsTheQueue, QueueDelivers, PTL

\* A handler destroyed while the main thread runs has no event left and none of its
\* events is running.
THEOREM NothingOutlivesOnThePlatform == PlatSpec => []NothingOutlivesItsHandler
BY PlatRunsTheQueue, NothingOutlives, PTL

\* Within a priority the main thread takes events in the order of their handle times,
\* first come first served among equals.
THEOREM NoneIsOvertakenOnThePlatform == PlatSpec => NoOvertaking
BY PlatRunsTheQueue, NoneIsOvertaken, PTL

\* And what passes over an overdue event uses up turns of the higher priorities.
THEOREM BypassesUseTurnsOnThePlatform == PlatSpec => BypassUsesTurns
BY PlatRunsTheQueue, BypassesUseTurns, PTL

\* With the bypasses counted: on the main thread too an overdue head of priority p is passed
\* over less than (MaxHandled + 1)^p times in a row, whatever the timer does.
THEOREM BypassesAreBoundedOnThePlatform == PlatSpec /\ CountsBypasses => []BypassBounded
BY PlatRunsTheQueue, CountedBypassesAreBounded
=============================================================================
