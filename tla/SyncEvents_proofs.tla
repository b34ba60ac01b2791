-------------------------- MODULE SyncEvents_proofs ---------------------------
(***************************************************************************)
(* Run lets one thread in at a time, and a sender of SendSyncEvent is      *)
(* there exactly as long as its event, for every set of threads and        *)
(* runners.  A Stop that reaches a loop is not undone, and senders wait for *)
(* each other in circles only.                                             *)
(***************************************************************************)
EXTENDS SyncEvents, TLAPS

(* The inductive invariants: of the runners, and of the senders. An event is *)
(* in one place, and the flag of a Waiter is up only between the recycling   *)
(* and the return of its sender.                                             *)
RunnerInv == RunnerTypeOK /\ OneLoop

OneOfEach ==
    \A t \in Thread :
        /\ \A q, r \in Runner : t \in queue[q] /\ t \in queue[r] => q = r
        /\ \A r \in Runner, s \in Thread : ~(t \in queue[r] /\ serving[s] = t)
        /\ \A s, u \in Thread : serving[s] = t /\ serving[u] = t => s = u
        /\ \A r \in Runner : t \in tested[r] => call[t] = "none"
        /\ \A q, r \in Runner : t \in tested[q] /\ t \in tested[r] => q = r
        /\ t \in notified => call[t] \in {"sent", "awake"}

SenderInv ==
    /\ SyncTypeOK
    /\ OneOfEach
    /\ SenderOutlivesItsEvent

-----------------------------------------------------------------------------
(* The runners.                                                            *)

LEMMA RunIsExclusive ==
    ASSUME NEW r \in Runner, NEW t \in Thread, RunnerInv,
           Run(r, t) \/ Prepare(r, t) \/ LeaveLoop(r, t) \/ Return(r, t) \/ Stop(r, t) \/ FinishQueue(r, t)
    PROVE  RunnerInv'
<1> USE DEF RunnerInv, RunnerTypeOK, OneLoop
<1>1. CASE Run(r, t)
    BY <1>1 DEF Run, NotRunning, Move
<1>2. CASE Prepare(r, t)
  <2>1. RunnerTypeOK'
    BY <1>2 DEF Prepare, Move
  <2>2. \A q \in Runner, s \in Thread : run'[q][s] # "idle" <=> run[q][s] # "idle"
    BY <1>2 DEF Prepare, Move
  <2> QED
    BY <1>2, <2>1, <2>2 DEF Prepare
<1>3. CASE LeaveLoop(r, t)
  <2>1. RunnerTypeOK'
    BY <1>3 DEF LeaveLoop, LoopEnds, Move
  <2>2. \A q \in Runner, s \in Thread : run'[q][s] # "idle" <=> run[q][s] # "idle"
    BY <1>3 DEF LeaveLoop, LoopEnds, Move
  <2> QED
    BY <1>3, <2>1, <2>2 DEF LeaveLoop
<1>4. CASE Return(r, t)
    BY <1>4 DEF Return, Move
<1>5. CASE Stop(r, t)
    BY <1>5 DEF Stop
<1>6. CASE FinishQueue(r, t)
    BY <1>6 DEF FinishQueue, FinishClears
<1> QED
    BY <1>1, <1>2, <1>3, <1>4, <1>5, <1>6

LEMMA RunnerStep == RunnerInv /\ [Next]_vars => RunnerInv'
<1> SUFFICES ASSUME RunnerInv, [Next]_vars PROVE RunnerInv'
    OBVIOUS
<1>1. ASSUME UNCHANGED runnerVars PROVE RunnerInv'
    BY <1>1 DEF runnerVars, RunnerInv, RunnerTypeOK, OneLoop
<1>2. ASSUME NEW t \in Thread, GoesOn(t) PROVE RunnerInv'
    BY <1>1, <1>2, RunIsExclusive DEF GoesOn, Wait, WakeUp, Insert
<1>3. ASSUME NEW t \in Thread, Loops(t) PROVE RunnerInv'
    BY <1>1, <1>3, RunIsExclusive DEF Loops, HandlerReturns, Take
<1>4. ASSUME NEW t \in Thread, Calls(t) PROVE RunnerInv'
    BY <1>1, <1>4, RunIsExclusive DEF Calls, SendSync, RemoveEvents
<1> QED
    BY <1>1, <1>2, <1>3, <1>4 DEF Next, vars

(* At most one thread is inside Run of a runner and running_ says whether one *)
(* is: the test of running_ and its setting are one exchange, and only Run    *)
(* clears it.                                                                 *)
THEOREM OneThreadRuns == Spec => []OneLoop
<1>1. Init => RunnerInv
    BY DEF Init, RunnerInit, RunnerInv, RunnerTypeOK, OneLoop
<1>2. RunnerInv => OneLoop
    BY DEF RunnerInv
<1> QED
    BY <1>1, <1>2, RunnerStep, PTL DEF Spec

-----------------------------------------------------------------------------
(* The senders.                                                            *)

LEMMA SenderStep == RunnerInv /\ RunnerInv' /\ SenderInv /\ [Next]_vars => SenderInv'
<1> SUFFICES ASSUME RunnerInv, RunnerInv', SenderInv, [Next]_vars PROVE SenderInv'
    OBVIOUS
<1> USE NobodyAssumption
<1> USE DEF SenderInv, SyncTypeOK, OneOfEach, SenderOutlivesItsEvent, InFlight, QueuedIn, HandledBy
<1>0. RunnerTypeOK'
    BY DEF RunnerInv
<1>1. ASSUME UNCHANGED syncVars PROVE SenderInv'
    BY <1>0, <1>1 DEF syncVars
<1>2. ASSUME NEW t \in Thread, Wait(t) PROVE SenderInv'
    BY <1>0, <1>2 DEF Wait, MustSleep
<1>3. ASSUME NEW t \in Thread, WakeUp(t) PROVE SenderInv'
    BY <1>0, <1>3 DEF WakeUp
<1>4. ASSUME NEW r \in Runner, NEW t \in Thread, Insert(r, t) PROVE SenderInv'
    BY <1>0, <1>4 DEF Insert
<1>5. ASSUME NEW r \in Runner, NEW t \in Thread, NEW e \in Thread, Take(r, t, e) PROVE SenderInv'
    BY <1>0, <1>5 DEF Take, InHandler
<1>6. ASSUME NEW t \in Thread, HandlerReturns(t) PROVE SenderInv'
    BY <1>0, <1>6 DEF HandlerReturns, Recycle
<1>7. ASSUME NEW r \in Runner, NEW t \in Thread, RemoveEvents(r, t) PROVE SenderInv'
    BY <1>0, <1>7 DEF RemoveEvents, Recycle
<1>8. ASSUME NEW r \in Runner, NEW t \in Thread, SendSync(r, t) PROVE SenderInv'
    BY <1>0, <1>8 DEF SendSync, Blocked, Waits
<1> HIDE DEF SenderInv, SyncTypeOK, OneOfEach, SenderOutlivesItsEvent, InFlight, QueuedIn, HandledBy
<1> QED
    BY <1>1, <1>2, <1>3, <1>4, <1>5, <1>6, <1>7, <1>8 DEF Next, GoesOn, Loops, Calls, vars

LEMMA SenderInvariant == Spec => [](RunnerInv /\ SenderInv)
<1>1. Init => RunnerInv /\ SenderInv
    BY NobodyAssumption DEF Init, RunnerInit, RunnerInv, RunnerTypeOK, OneLoop, SenderInv, SyncTypeOK,
        OneOfEach, SenderOutlivesItsEvent, InFlight, QueuedIn, HandledBy
<1> QED
    BY <1>1, RunnerStep, SenderStep, PTL DEF Spec

(* Types, and that the queue of a runner that does not run is finished.      *)
THEOREM SyncTypes == Spec => []SyncTypeOK
<1>1. SenderInv => SyncTypeOK
    BY DEF SenderInv
<1> QED
    BY <1>1, SenderInvariant, PTL

(* A sender neither returns before its event has been recycled nor sleeps     *)
(* past it: Notify sets the flag that Wait tests under the Waiter's mutex,    *)
(* and an event is in one place, so it is recycled once.                      *)
THEOREM SendersOutliveEvents == Spec => []SenderOutlivesItsEvent
<1>1. SenderInv => SenderOutlivesItsEvent
    BY DEF SenderInv
<1> QED
    BY <1>1, SenderInvariant, PTL

-----------------------------------------------------------------------------
(* What a Stop and a sender may rely on.                                   *)

\* A Stop that has finished the queue of a runner is not undone while a thread is in
\* the loop: only Prepare clears finished_, and no second caller of Run gets to it.
StopIsNotUndone ==
    [][\A r \in Runner, t \in Thread : run[r][t] = "looping" /\ finished[r] => finished'[r]]_vars

Sleepers == {t \in Thread : call[t] = "asleep"}

\* A thread that does not sleep has the event of s, or loops for the queue it is in.
ServedAwake(s) ==
    \E u \in Thread \ Sleepers :
        HandledBy(s, u) \/ \E r \in Runner : QueuedIn(s, r) /\ u \in Looping(r)

\* Unless a sleeper is stuck, not all of them wait for sleepers: the chain of those
\* who wait for one another ends at a thread that goes on.
SleepersAreServed == (\E t \in Sleepers : ~Stuck(t)) => \E s \in Sleepers : ServedAwake(s)

(* That the loop ends after a Stop (LoopIsStopped) rests on this: Run admits  *)
(* one thread, and the one that is in the loop is past its Prepare.           *)
THEOREM StopsStay == Spec => StopIsNotUndone
<1>1. ASSUME RunnerInv, [Next]_vars, NEW r \in Runner, NEW t \in Thread,
             run[r][t] = "looping", finished[r]
      PROVE  finished'[r]
  <2> USE DEF RunnerInv, RunnerTypeOK
  <2>1. ASSUME UNCHANGED finished PROVE finished'[r]
    BY <1>1, <2>1
  <2>2. ASSUME NEW q \in Runner, NEW s \in Thread, Prepare(q, s) PROVE finished'[r]
    <3>1. q # r
      <4> SUFFICES ASSUME q = r PROVE FALSE
        OBVIOUS
      <4>1. run[r][s] = "entered"
        BY <2>2 DEF Prepare, Move
      <4> QED
        BY <1>1, <4>1 DEF OneLoop
    <3> QED
      BY <1>1, <2>2, <3>1 DEF Prepare
  <2>3. ASSUME NEW q \in Runner, NEW s \in Thread, FinishQueue(q, s) PROVE finished'[r]
    BY <1>1, <2>3 DEF FinishQueue
  <2>4. UNCHANGED vars => UNCHANGED finished
    BY DEF vars, runnerVars
  <2> QED
    BY <1>1, <2>1, <2>2, <2>3, <2>4 DEF Next, GoesOn, Loops, Calls, Wait, WakeUp, Insert, Return, HandlerReturns,
         Take, LeaveLoop, SendSync, RemoveEvents, Run, Stop, runnerVars
<1>2. RunnerInv /\ [Next]_vars
          => [\A r \in Runner, t \in Thread : run[r][t] = "looping" /\ finished[r] => finished'[r]]_vars
  BY <1>1
<1> QED
  BY <1>2, SenderInvariant, PTL DEF Spec, StopIsNotUndone

(* SendSyncEvent does not deadlock by itself: a sleeper's event is queued or  *)
(* in somebody's hands, so sleepers that all wait for sleepers are a set in   *)
(* the sense of Stuck, which is what the senders are warned of.               *)
THEOREM SleepersDoNotDeadlock == Spec => []SleepersAreServed
<1>1. ASSUME RunnerInv, SenderInv PROVE SleepersAreServed
  <2> SUFFICES ASSUME NEW t \in Sleepers, \A s \in Sleepers : ~ServedAwake(s)
               PROVE  Stuck(t)
    BY DEF SleepersAreServed
  <2>1. ASSUME NEW s \in Sleepers
        PROVE  \/ \E r \in Runner : QueuedIn(s, r) /\ Looping(r) \subseteq Sleepers
               \/ \E u \in Sleepers : HandledBy(s, u)
    <3>1. s \in Thread /\ InFlight(s)
      BY <1>1 DEF SenderInv, SenderOutlivesItsEvent, Sleepers
    <3>2. \A r \in Runner : QueuedIn(s, r) => Looping(r) \subseteq Sleepers
      BY DEF ServedAwake, Looping
    <3>3. \A u \in Thread : HandledBy(s, u) => u \in Sleepers
      BY DEF ServedAwake
    <3> QED
      BY <3>1, <3>2, <3>3 DEF InFlight
  <2>2. t \in Thread /\ Sleepers \in SUBSET Thread
    BY DEF Sleepers
  <2> QED
    BY <2>1, <2>2 DEF Stuck
<1> QED
  BY <1>1, SenderInvariant, PTL
===============================================================================
