----------------------------- MODULE SyncEvents ------------------------------
(***************************************************************************)
(* EventHandler::SendSyncEvent between the threads and loops of            *)
(* EventRunner: the sender tests that the runner is running, inserts the   *)
(* event and sleeps on the event's Waiter until the event is recycled,     *)
(* which happens when a loop has distributed it or somebody removes it.    *)
(* Any of that may fall between the test, the insertion and the sleep.     *)
(*                                                                         *)
(* An event is named by its sender, who has no other: it is blocked.       *)
(* Which event goes first is EventQueue's business, and that everyone gets *)
(* its turn is what DueEventLeaves shows there: here it is fairness.       *)
(* Other events are left out but for what their handlers do: a looping     *)
(* thread may call Stop or SendSyncEvent at any time.                      *)
(***************************************************************************)
EXTENDS EventRunner

CONSTANT Nobody     \* no thread

ASSUME NobodyAssumption == Nobody \notin Thread

VARIABLES
    tested,     \* per runner, the senders that have found it running
    call,       \* where each thread is in SendSyncEvent after that
    queue,      \* the sync events of each runner's queue
    serving,    \* the event that each thread is distributing, or Nobody
    notified    \* the senders whose Waiter has finished_ set

syncVars == <<tested, call, queue, serving, notified>>
vars     == <<runnerVars, syncVars>>

Waits(t)   == call[t] # "none"
Blocked(t) == Waits(t) \/ \E r \in Runner : t \in tested[r]

-----------------------------------------------------------------------------
(* The sender.                                                             *)

\* Into the runner that the thread itself loops for, the event is distributed at
\* once: no step.
SendSync(r, t) ==
    /\ running[r] /\ MayCall(t) /\ ~Blocked(t) /\ run[r][t] = "idle"
    /\ tested' = [tested EXCEPT ![r] = @ \cup {t}]
    /\ UNCHANGED <<runnerVars, call, queue, serving, notified>>

\* CreateWaiter and the insertion.
Insert(r, t) ==
    /\ t \in tested[r]
    /\ tested' = [tested EXCEPT ![r] = @ \ {t}]
    /\ call' = [call EXCEPT ![t] = "sent"]
    /\ queue' = [queue EXCEPT ![r] = @ \cup {t}]
    /\ UNCHANGED <<runnerVars, serving, notified>>

\* Faulty: Wait sleeps before it looks.
MustSleep_Always(t) == TRUE

MustSleep(t) == t \notin notified

Wait(t) ==
    /\ call[t] = "sent"
    /\ call' = [call EXCEPT ![t] = IF MustSleep(t) THEN "asleep" ELSE "none"]
    /\ notified' = notified \ {t}
    /\ UNCHANGED <<runnerVars, tested, queue, serving>>

WakeUp(t) ==
    /\ call[t] = "awake"
    /\ call' = [call EXCEPT ![t] = "none"]
    /\ notified' = notified \ {t}
    /\ UNCHANGED <<runnerVars, tested, queue, serving>>

-----------------------------------------------------------------------------
(* The loop, and those who remove events.                                  *)

\* ClearEvent: Notify sets finished_ and wakes a sleeper.
Recycle(e) ==
    /\ notified' = notified \cup {e}
    /\ call' = [call EXCEPT ![e] = IF @ = "asleep" THEN "awake" ELSE @]

\* Not between two events: the thread is in a handler.
InHandler(t) == serving[t] # Nobody \/ Blocked(t) \/ ~InNoStop(t)

Take(r, t, e) ==
    /\ run[r][t] = "looping" /\ ~InHandler(t) /\ ~finished[r] /\ e \in queue[r]
    /\ serving' = [serving EXCEPT ![t] = e]
    /\ queue' = [queue EXCEPT ![r] = @ \ {e}]
    /\ UNCHANGED <<runnerVars, tested, call, notified>>

HandlerReturns(t) ==
    /\ serving[t] # Nobody /\ ~Blocked(t) /\ InNoStop(t)
    /\ serving' = [serving EXCEPT ![t] = Nobody]
    /\ Recycle(serving[t])
    /\ UNCHANGED <<runnerVars, tested, queue>>

\* RemoveEvent and RemoveAllEvents.
RemoveEvents(r, t) ==
    /\ MayCall(t) /\ ~Blocked(t)
    /\ \E e \in queue[r] :
        /\ queue' = [queue EXCEPT ![r] = @ \ {e}]
        /\ Recycle(e)
    /\ UNCHANGED <<runnerVars, tested, serving>>

-----------------------------------------------------------------------------
Init ==
    /\ RunnerInit
    /\ tested = [r \in Runner |-> {}] /\ queue = [r \in Runner |-> {}]
    /\ call = [t \in Thread |-> "none"] /\ serving = [t \in Thread |-> Nobody]
    /\ notified = {}

(* What the threads do of themselves: go on inside Run, Stop or SendSyncEvent, *)
(* take events in the loop, return from a handler; and the calls they may make. *)
GoesOn(t) ==
    \/ Wait(t) \/ WakeUp(t)
    \/ \E r \in Runner :
        \/ Insert(r, t)
        \/ (Prepare(r, t) \/ Return(r, t) \/ FinishQueue(r, t)) /\ UNCHANGED syncVars

Loops(t) ==
    \/ HandlerReturns(t)
    \/ \E r \in Runner :
        \/ \E e \in Thread : Take(r, t, e)
        \/ LeaveLoop(r, t) /\ ~InHandler(t) /\ UNCHANGED syncVars

Calls(t) ==
    \E r \in Runner :
        \/ SendSync(r, t) \/ RemoveEvents(r, t)
        \/ ~Blocked(t) /\ (Run(r, t) \/ Stop(r, t)) /\ UNCHANGED syncVars

Next == \E t \in Thread : GoesOn(t) \/ Loops(t) \/ Calls(t)

Spec == Init /\ [][Next]_vars

(* A thread inside Run, Stop or SendSyncEvent goes on, and nobody has to call *)
(* any of them.  A handler may call Stop and SendSyncEvent again and again   *)
(* but returns, and the loop then takes an event, or leaves: SF; and every   *)
(* queued event gets its turn.                                               *)
Fairness ==
    /\ \A t \in Thread : WF_vars(GoesOn(t)) /\ SF_vars(Loops(t))
    /\ \A e \in Thread : SF_vars(\E r \in Runner, t \in Thread : Take(r, t, e))

FairSpec == Spec /\ Fairness

-----------------------------------------------------------------------------
\* Where the event of t is: in a queue, or in the hands of a thread.
QueuedIn(t, r)  == t \in queue[r]
HandledBy(t, s) == serving[s] = t
InFlight(t)     == (\E r \in Runner : QueuedIn(t, r)) \/ \E s \in Thread : HandledBy(t, s)

Looping(r) == {t \in Thread : run[r][t] = "looping"}

\* A sender is stuck if nobody loops for the runner that has its event, or the
\* thread that loops or that distributes the event is a stuck sender itself.
Stuck(t) ==
    \E S \in SUBSET Thread : t \in S /\ \A s \in S :
        \/ \E r \in Runner : QueuedIn(s, r) /\ Looping(r) \subseteq S
        \/ \E u \in S : HandledBy(s, u)

SyncTypeOK ==
    /\ RunnerTypeOK
    /\ tested \in [Runner -> SUBSET Thread]
    /\ call \in [Thread -> {"none", "sent", "asleep", "awake"}]
    /\ queue \in [Runner -> SUBSET Thread]
    /\ serving \in [Thread -> Thread \cup {Nobody}]
    /\ notified \subseteq Thread

\* "Send an event, and wait until this event has been handled" (event_handler.h:549):
\* the sender does not return while its event is queued or being distributed, and it
\* sleeps only while it is: whoever recycles the event finds the sleeper.
SenderOutlivesItsEvent ==
    \A t \in Thread :
        /\ InFlight(t) <=> call[t] \in {"sent", "asleep"} /\ t \notin notified
        /\ call[t] = "asleep" => t \notin notified

\* A sender that waits comes back, unless its event is stuck: in the queue of a
\* runner that has stopped, or behind a loop that is itself waiting on a stuck one.
SendersReturn == \A t \in Thread : Waits(t) ~> (~Waits(t) \/ Stuck(t))

\* A Stop that passes its test while a thread is in the loop ends that loop, whether
\* it comes from a handler of the loop or from another thread: no Prepare can undo
\* it, and only a handler that waits for a stuck event keeps the loop.
LoopIsStopped ==
    \A r \in Runner :
        (Looping(r) # {} /\ stopping[r] # {}) ~> (\A t \in Looping(r) : Stuck(t))
=============================================================================
