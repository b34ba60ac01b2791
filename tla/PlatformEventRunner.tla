------------------------- MODULE PlatformEventRunner ------------------------
(***************************************************************************)
(* The event runner of the platform's main thread (Android's ALooper; the  *)
(* iOS one has the same structure).  It does not block in GetEvent: the     *)
(* platform's looper owns the thread, and PlatformEventRunner::Run is the   *)
(* callback of a timer descriptor in it.  Run distributes what is due and   *)
(* sets the timer to the next wake-up time; a sender whose event is earlier *)
(* than wakeUpTime_ sets the timer to fire at once (NotifyAll).             *)
(*                                                                         *)
(* GetExpiredEvent returns with queueLock_ released, so the timer is set in *)
(* a step of its own, with a wake-up time that may be stale by then.        *)
(***************************************************************************)
EXTENDS EventQueue

VARIABLES
    run,     \* "looper": in the platform's looper; "run": in Run; "arm": before SetTimer
    timer,   \* when timerFd_ fires; TimeMax when disarmed
    raced    \* history: an Insert set the timer while Run was about to set it

platVars     == <<run, timer, raced>>
platSpecVars == <<vars, platVars>>

PlatSend == Send /\ UNCHANGED platVars

\* NotifyAll outside a wait: SetTimer(0).
PlatInsert(e) ==
    /\ Insert(e)
    /\ IF NeedNotify(e)
       THEN timer' = now /\ raced' = (raced \/ run = "arm")
       ELSE UNCHANGED <<timer, raced>>
    /\ UNCHANGED run

PlatCancel          == Cancel /\ UNCHANGED platVars
PlatRelease(h)      == Release(h) /\ UNCHANGED platVars
PlatRemoveOrphan(h) == RemoveOrphan(h) /\ UNCHANGED platVars
PlatTick            == Tick /\ UNCHANGED platVars

\* The looper finds the timer readable, ResetTimerFileDescriptor, timerCallback_.
TimerFires ==
    /\ run = "looper" /\ timer <= now
    /\ run' = "run"
    /\ timer' = TimeMax
    /\ raced' = FALSE
    /\ UNCHANGED vars

RunGetExpiredEvent ==
    /\ run = "run"
    /\ GetExpiredEvent
    /\ run' = IF stage' = "taken" THEN "run" ELSE "arm"
    /\ UNCHANGED <<timer, raced>>

RunDistribute == DistributeEvent /\ UNCHANGED platVars
RunRelease    == ReleaseEvent /\ UNCHANGED platVars

\* Faulty: the time point is taken for a time-out.
SetTimer_ToTimePoint ==
    run = "arm" /\ timer' = now + wakeUpTime /\ run' = "looper" /\ UNCHANGED <<vars, raced>>

\* SetTimer(TimePointToTimeOut(wakeUpTime)): in the past means at once.  No
\* other thread changes wakeUpTime_ between GetExpiredEvent and here.
SetTimer ==
    /\ run = "arm"
    /\ timer' = IF wakeUpTime <= now THEN now ELSE wakeUpTime
    /\ run' = "looper"
    /\ UNCHANGED <<vars, raced>>

\* Before the first event the timer is created and disarmed (StartTimer).
PlatInit == Init /\ run = "looper" /\ timer = TimeMax /\ raced = FALSE

MainThread == TimerFires \/ RunGetExpiredEvent \/ RunDistribute \/ RunRelease \/ SetTimer

PlatNext ==
    \/ PlatSend \/ (\E e \in Event : PlatInsert(e)) \/ PlatCancel
    \/ \E h \in Handler : PlatRelease(h) \/ PlatRemoveOrphan(h)
    \/ MainThread \/ PlatTick

PlatSpec == PlatInit /\ [][PlatNext]_platSpecVars

PlatFairness ==
    /\ WF_platSpecVars(PlatTick)
    /\ \A e \in Event : WF_platSpecVars(PlatInsert(e))
    /\ \A h \in Handler : WF_platSpecVars(PlatRemoveOrphan(h))
    /\ WF_platSpecVars(MainThread)
    /\ SF_platSpecVars(RunRelease)

PlatFairSpec == PlatSpec /\ PlatFairness

-----------------------------------------------------------------------------
\* The types of the runner's variables.
PlatTypeOK ==
    /\ TypeOK
    /\ run \in {"looper", "run", "arm"} /\ timer \in Time /\ raced \in BOOLEAN

\* While the main thread is in the looper the timer fires no later than the
\* earliest queued event, unless a sender set the timer in the window between
\* GetExpiredEvent and SetTimer: that race is the only way to lose a wake-up.
TimerCoversTheQueue ==
    run = "looper" /\ ~raced =>
        \A p \in Sub : \A e \in Elems(queue[p]) : timer <= ev[e].handle \/ timer <= now

\* "Process the event after 'delayTime' milliseconds" (event_handler.h:87),
\* which NotifyAll is there to ensure ("Trigger timer at once").
DueEventsAreProcessed ==
    \A e \in Event : (e \in Queued /\ ev[e].prio # IDLE /\ ev[e].handle < MaxNow) ~> (e \notin Queued)
=============================================================================
