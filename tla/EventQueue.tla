----------------------------- MODULE EventQueue -----------------------------
(***************************************************************************)
(* OHOS::AppExecFwk::EventQueue together with the code that feeds and      *)
(* drains it: EventHandler::SendEvent / RemoveEvent / ~EventHandler on any *)
(* thread, and the one thread that takes events out and distributes them   *)
(* (EventRunnerImpl::Run).                                                 *)
(*                                                                         *)
(* Every action that touches the lists is one critical section of          *)
(* queueLock_.  SendEvent is two steps because the clock is read and the   *)
(* event stamped before the lock is taken (event_handler.cpp:65-76), so    *)
(* stamped events may enter the lists in another order than their stamps.  *)
(* How the consumer blocks and is woken is in EventLoop, which extends     *)
(* this module; here GetExpiredEvent is called as often as one likes.      *)
(***************************************************************************)
EXTENDS Integers, Sequences, SequencesExt, FiniteSets

CONSTANTS
    Event,        \* the InnerEvent objects: slots of the pool, used again and again
    Handler,      \* the EventHandler objects
    Body,         \* what an event carries: [task : BOOLEAN, key : Key, param : Param]
    StringKey,    \* the keys of Body that are ids of type std::string
    Used,         \* the priorities the senders use
    MaxHandled,   \* DEFAULT_MAX_HANDLED_EVENT_COUNT
    MaxDelay,     \* bound: the longest delay of a send
    MaxNow,       \* bound: the clock stops here
    NoEvent, NoHandler

Sub      == 0..3          \* VIP, IMMEDIATE, HIGH, LOW: subEventQueues_
IDLE     == 4             \* idleEvents_
Priority == Sub \cup {IDLE}
TimeMax  == MaxNow + MaxDelay + 1     \* TimePoint::max()
Time     == 0..TimeMax

ASSUME ConstantsAssumption ==
    /\ IsFiniteSet(Event) /\ NoEvent \notin Event
    /\ NoHandler \notin Handler
    /\ Used \subseteq Priority
    /\ MaxHandled \in Nat \ {0}
    /\ MaxDelay \in Nat /\ MaxNow \in Nat

VARIABLES
    now,            \* InnerEvent::Clock::now()
    ev,             \* the fields of each InnerEvent; Blank after ClearEvent
    sending,        \* events stamped by SendEvent and not yet in Insert's critical section
    queue,          \* the five lists of events
    handled,        \* handledEventsCount of the four sub queues
    wakeUpTime, idleTimeStamp, isIdle,
    stage,          \* where the loop thread is: "get", "taken" or "running"
    current,        \* the event the loop thread took and has not released
    currentHandler, \* EventHandler::currentEventHandler of the loop thread
    held,           \* handlers of which the application holds a shared_ptr
    dtor            \* ~EventHandler: "no", in progress on the "app" or "loop" thread, "done"

queueVars   == <<queue, ev>>
pickVars    == <<handled, wakeUpTime, idleTimeStamp, isIdle>>
loopVars    == <<stage, current, currentHandler>>
handlerVars == <<held, dtor>>
vars == <<now, sending, queueVars, pickVars, loopVars, handlerVars>>

Blank == [owner |-> NoHandler, body |-> NoEvent, prio |-> IDLE, send |-> 0, handle |-> 0]

Fields == {Blank} \cup
    [owner : Handler, body : Body, prio : Used, send : 0..MaxNow, handle : 0..(MaxNow + MaxDelay)]

-----------------------------------------------------------------------------
(* Reading the lists.                                                      *)

Elems(s)      == {s[i] : i \in DOMAIN s}
Queued        == UNION {Elems(queue[p]) : p \in Priority}
Free          == Event \ (Queued \cup sending \cup {current})
HeadTime(p)   == ev[Head(queue[p])].handle
NonEmpty      == {p \in Sub : queue[p] # <<>>}
Earliest(T)   == CHOOSE t \in T \cup {TimeMax} : \A u \in T : t <= u

(* weak_ptr::lock succeeds while the application or the loop thread's       *)
(* thread-local currentEventHandler still refers to the handler.            *)
Alive(h)    == h \in Handler /\ (h \in held \/ h = currentHandler)
(* A handler somebody can call: its own distributed event may use it too.   *)
Callable(h) == h \in held \/ (stage = "running" /\ h = currentHandler)
LoopIsFree == \A h \in Handler : dtor[h] # "loop"
SendsOf(h) == {e \in sending : ev[e].owner = h}

(* std::upper_bound over handle times: the end of the events not later.     *)
UpperBound(s, t) ==
    CHOOSE n \in 0..Len(s) : /\ \A i \in 1..n : ev[s[i]].handle <= t
                             /\ \A i \in (n + 1)..Len(s) : ev[s[i]].handle > t

\* Faulty: lower_bound instead of upper_bound; push_back.
InsertEvent_BeforeEquals(s, e) ==
    InsertAt(s, Cardinality({i \in DOMAIN s : ev[s[i]].handle < ev[e].handle}) + 1, e)
InsertEvent_AtTheEnd(s, e) == Append(s, e)

InsertEvent(s, e) == InsertAt(s, UpperBound(s, ev[e].handle) + 1, e)

(* The rank of position i among the positions K.                            *)
Rank(K, i) == Cardinality({j \in K : j <= i})

(* list::remove_if: what is not in R, in the same order.                    *)
Without(s, R) ==
    LET kept   == {i \in DOMAIN s : s[i] \notin R}
        nth(k) == CHOOSE i \in kept : Rank(kept, i) = k
    IN  [k \in 1..Cardinality(kept) |-> s[nth(k)]]

(* A released InnerEvent is cleared and goes back to the pool.              *)
Recycle(R) == ev' = [e \in Event |-> IF e \in R THEN Blank ELSE ev[e]]

-----------------------------------------------------------------------------
(* Senders and removers, on any thread.                                    *)

(* Once the application has let go of h, only h itself can be sending.       *)
SendEvent(h, e, b, p, d) ==
    /\ Callable(h) /\ e \in Free
    /\ h \in held \/ SendsOf(h) = {}
    /\ now + d <= MaxNow + MaxDelay
    /\ ev' = [ev EXCEPT ![e] = [owner |-> h, body |-> b, prio |-> p, send |-> now, handle |-> now + d]]
    /\ sending' = sending \cup {e}
    /\ UNCHANGED <<now, queue, pickVars, loopVars, handlerVars>>

Insert(e) ==
    /\ e \in sending
    /\ sending' = sending \ {e}
    /\ queue' = [queue EXCEPT ![ev[e].prio] = InsertEvent(@, e)]
    /\ UNCHANGED <<now, ev, pickVars, loopVars, handlerVars>>

\* Faulty: an event that becomes the head of a list that was not empty.
NeedNotify_FirstOfItsList(e) == ev[e].prio # IDLE /\ queue[ev[e].prio] = <<>>

(* An idle event never wakes the consumer.                                  *)
NeedNotify(e) == ev[e].prio # IDLE /\ ev[e].handle < wakeUpTime

RemoveMatching(R) ==
    /\ queue' = [p \in Priority |-> Without(queue[p], R)]
    /\ Recycle(Queued \cap R)
    /\ UNCHANGED <<now, sending, pickVars, loopVars>>

(* GetInnerEventId of an event whose id is a string is 0.                   *)
InnerEventId(e) == IF ev[e].body.key \in StringKey THEN 0 ELSE ev[e].body.key

\* Faulty: the owner is not compared; the idle list is forgotten.
WithId_OfAnyOwner(h, id)  == {e \in Queued : ~ev[e].body.task /\ InnerEventId(e) = id}
Orphans_InSubQueuesOnly   == {e \in Queued : ev[e].prio # IDLE /\ ~Alive(ev[e].owner)}

OwnedBy(h)             == {e \in Queued : ev[e].owner = h}
WithId(h, id)          == {e \in OwnedBy(h) : ~ev[e].body.task /\ InnerEventId(e) = id}
WithParam(h, id, arg)  == {e \in WithId(h, id) : ev[e].body.param = arg}
WithName(h, name)      == {e \in OwnedBy(h) : ev[e].body.task /\ ev[e].body.key = name}
Orphans                == {e \in Queued : ~Alive(ev[e].owner)}

RemoveAllEvents(h) ==
    /\ Callable(h)
    /\ RemoveMatching(OwnedBy(h))
    /\ UNCHANGED handlerVars

RemoveEvent(h, b) ==
    /\ Callable(h) /\ ~b.task /\ b.key \notin StringKey
    /\ \/ RemoveMatching(WithId(h, b.key))
       \/ RemoveMatching(WithParam(h, b.key, b.param))
    /\ UNCHANGED handlerVars

RemoveTask(h, b) ==
    /\ Callable(h) /\ b.task
    /\ RemoveMatching(WithName(h, b.key))
    /\ UNCHANGED handlerVars

(* The application drops its last shared_ptr; a thread inside SendEvent     *)
(* holds one, but for the loop thread, whose currentHandler does.           *)
(* ~EventHandler starts unless the loop thread keeps the handler alive.     *)
Release(h) ==
    /\ h \in held
    /\ \/ SendsOf(h) = {}
       \/ stage = "running" /\ h = currentHandler /\ Cardinality(SendsOf(h)) = 1
    /\ held' = held \ {h}
    /\ dtor' = IF h = currentHandler THEN dtor ELSE [dtor EXCEPT ![h] = "app"]
    /\ UNCHANGED <<now, sending, queueVars, pickVars, loopVars>>

RemoveOrphan(h) ==
    /\ dtor[h] \in {"app", "loop"}
    /\ RemoveMatching(Orphans)
    /\ dtor' = [dtor EXCEPT ![h] = "done"]
    /\ UNCHANGED held

-----------------------------------------------------------------------------
(* The consumer: GetExpiredEventLocked.                                    *)

(* The sub queues for which CheckEventInListLocked answers true: the head   *)
(* is due and strictly earlier than the head of every higher priority.      *)
Candidates == {i \in NonEmpty : /\ HeadTime(i) <= now
                                /\ \A j \in NonEmpty : j < i => HeadTime(i) < HeadTime(j)}

HasLower(i) == \E j \in Candidates : j > i

\* Faulty: the highest priority always goes first.
Picked_Highest(i) == i \in Candidates /\ \A j \in Candidates : j >= i

(* The first candidate that has not used up its turns, or else the last.    *)
Picked(i) ==
    /\ i \in Candidates
    /\ HasLower(i) => handled[i] < MaxHandled
    /\ \A j \in Candidates : j < i => handled[j] >= MaxHandled

(* nextWakeUpTime where the scan stopped: at the next candidate, if any.    *)
ScanTime(i) ==
    IF HasLower(i)
    THEN LET next == CHOOSE j \in Candidates :
                        j > i /\ \A k \in Candidates : k > i => j <= k
         IN  HeadTime(next)
    ELSE Earliest({HeadTime(j) : j \in NonEmpty})

\* Faulty: the event is not erased from the list.
Take_WithoutErase(p) ==
    current' = Head(queue[p]) /\ stage' = "taken" /\ UNCHANGED queue

Take(p) ==
    /\ current' = Head(queue[p])
    /\ queue' = [queue EXCEPT ![p] = Tail(@)]
    /\ stage' = "taken"

\* Faulty: i <= priorityIndex in the loop that resets the counters.
CountTurn_ResetsItself(i) ==
    handled' = [j \in Sub |-> IF j <= i THEN 0 ELSE handled[j]]

(* One more turn of i while a lower priority waits; those above start anew. *)
CountTurn(i) ==
    handled' = [j \in Sub |-> IF j < i THEN 0
                              ELSE IF j = i /\ HasLower(i) THEN handled[j] + 1
                              ELSE handled[j]]

PickEvent(i) ==
    /\ Picked(i)
    /\ CountTurn(i)
    /\ wakeUpTime' = ScanTime(i)
    /\ isIdle' = FALSE
    /\ Take(i)
    /\ UNCHANGED idleTimeStamp

(* Nothing to distribute: idle mode starts now unless it already has.       *)
EnterIdle ==
    /\ Candidates = {}
    /\ wakeUpTime' = Earliest({HeadTime(j) : j \in NonEmpty})
    /\ isIdle' = TRUE
    /\ idleTimeStamp' = IF isIdle THEN idleTimeStamp ELSE now
    /\ UNCHANGED handled

IdleEventReady(stamp) ==
    /\ queue[IDLE] # <<>>
    /\ ev[Head(queue[IDLE])].send <= stamp
    /\ ev[Head(queue[IDLE])].handle <= now

TakeIdleEvent == EnterIdle /\ IdleEventReady(idleTimeStamp') /\ Take(IDLE)

FindEvent   == (\E i \in Sub : PickEvent(i)) \/ TakeIdleEvent
FindNothing == EnterIdle /\ ~IdleEventReady(idleTimeStamp') /\ UNCHANGED <<queue, stage, current>>

GetExpiredEvent ==
    /\ stage = "get" /\ LoopIsFree
    /\ FindEvent \/ FindNothing
    /\ UNCHANGED <<now, ev, sending, currentHandler, handlerVars>>

-----------------------------------------------------------------------------
(* The consumer: the body of EventRunnerImpl::Run's loop.                  *)

(* DistributeEvent first makes the owner the thread's current handler; the  *)
(* one it replaces is destroyed here when nobody else refers to it.         *)
DistributeEvent ==
    /\ stage = "taken" /\ Alive(ev[current].owner)
    /\ stage' = "running"
    /\ currentHandler' = ev[current].owner
    /\ dtor' = IF currentHandler \in Handler \ (held \cup {currentHandler'})
               THEN [dtor EXCEPT ![currentHandler] = "loop"] ELSE dtor
    /\ UNCHANGED <<now, sending, queueVars, pickVars, current, held>>

(* event.reset(), after the event was distributed or when its owner is gone.*)
(* A send the handler started inside ProcessEvent is over by then.          *)
ReleaseEvent ==
    /\ \/ stage = "running" /\ LoopIsFree /\ \A e \in sending : ev[e].owner \in held
       \/ stage = "taken" /\ ~Alive(ev[current].owner)
    /\ stage' = "get"
    /\ current' = NoEvent
    /\ Recycle({current})
    /\ UNCHANGED <<now, sending, queue, pickVars, currentHandler, handlerVars>>

Tick ==
    /\ now < MaxNow
    /\ now' = now + 1
    /\ UNCHANGED <<sending, queueVars, pickVars, loopVars, handlerVars>>

-----------------------------------------------------------------------------
Init ==
    /\ now = 0
    /\ ev = [e \in Event |-> Blank]
    /\ sending = {}
    /\ queue = [p \in Priority |-> <<>>]
    /\ handled = [i \in Sub |-> 0]
    /\ wakeUpTime = TimeMax
    /\ idleTimeStamp = 0
    /\ isIdle = TRUE
    /\ stage = "get" /\ current = NoEvent /\ currentHandler = NoHandler
    /\ held = Handler
    /\ dtor = [h \in Handler |-> "no"]

Send   == \E h \in Handler, e \in Event, b \in Body, p \in Used, d \in 0..MaxDelay :
              SendEvent(h, e, b, p, d)
Cancel == \E h \in Handler :
              \/ RemoveAllEvents(h)
              \/ \E b \in Body : RemoveEvent(h, b) \/ RemoveTask(h, b)
Destroy == \E h \in Handler : Release(h) \/ RemoveOrphan(h)
Consume == GetExpiredEvent \/ DistributeEvent \/ ReleaseEvent

Next == Send \/ (\E e \in Event : Insert(e)) \/ Cancel \/ Destroy \/ Consume \/ Tick

Spec == Init /\ [][Next]_vars

(* The clock advances, a sender that has stamped an event gets the lock, a  *)
(* started destructor ends, the loop thread keeps running, and a handler's  *)
(* ProcessEvent returns although it may send for a while (SF).              *)
Fairness ==
    /\ WF_vars(Tick)
    /\ \A e \in Event : WF_vars(Insert(e))
    /\ \A h \in Handler : WF_vars(RemoveOrphan(h))
    /\ WF_vars(Consume)
    /\ SF_vars(ReleaseEvent)

FairSpec == Spec /\ Fairness

-----------------------------------------------------------------------------
(* Properties.                                                             *)

\* Every variable keeps its type; the turns counter never exceeds its maximum.
TypeOK ==
    /\ now \in 0..MaxNow
    /\ ev \in [Event -> Fields]
    /\ sending \subseteq Event
    /\ queue \in [Priority -> Seq(Event)]
    /\ handled \in [Sub -> 0..MaxHandled]
    /\ wakeUpTime \in Time /\ idleTimeStamp \in 0..MaxNow /\ isIdle \in BOOLEAN
    /\ stage \in {"get", "taken", "running"}
    /\ current \in Event \cup {NoEvent}
    /\ currentHandler \in Handler \cup {NoHandler}
    /\ held \subseteq Handler
    /\ dtor \in [Handler -> {"no", "app", "loop", "done"}]

\* An InnerEvent is in one place only: stamped by its sender, once in the one
\* list of its priority, held by the loop thread, or back in the pool and blank.
\* (Nothing is distributed twice, recycled while queued, or lost.)
OnePlace ==
    /\ \A p \in Priority : /\ IsInjective(queue[p])
                           /\ \A e \in Elems(queue[p]) : ev[e].prio = p
    /\ sending \cap (Queued \cup {current}) = {}
    /\ current \notin Queued
    /\ (stage = "get") <=> (current = NoEvent)
    /\ \A e \in Event : (e \in Free) <=> (ev[e] = Blank)

Sorted(s) == \A i, j \in 1..Len(s) : i < j => ev[s[i]].handle <= ev[s[j]].handle

\* Each list is sorted by handle time although senders stamp events outside
\* the lock and enter in any order.
SortedByHandleTime == \A p \in Priority : Sorted(queue[p])

\* Once a handler's destructor has finished, none of its events is queued or
\* about to be, and the loop never runs an event of a destroyed handler.
NothingOutlivesItsHandler ==
    /\ \A h \in Handler : dtor[h] = "done" => \A e \in Queued \cup sending : ev[e].owner # h
    /\ stage = "running" => dtor[ev[current].owner] = "no"

Ahead(p, e, f) == \E i, j \in DOMAIN queue[p] : i < j /\ queue[p][i] = e /\ queue[p][j] = f

\* Within a priority events leave in the order of their handle times, first
\* come first served among equals: no step changes the order of two queued
\* events, takes one out from behind another, or lets a new event pass one
\* that is not later.
NoOvertaking ==
    [][\A p \in Priority :
        /\ \A e, f \in Elems(queue[p]) : Ahead(p, e, f) /\ f \in Elems(queue'[p])
               => e \notin Elems(queue'[p]) \/ Ahead(p, e, f)'
        /\ \A e, f \in Elems(queue[p]) : Ahead(p, e, f) /\ current' = f => e \notin Elems(queue'[p])
        /\ \A e \in sending \cap Elems(queue'[p]) : \A f \in Elems(queue[p]) :
               ev[f].handle <= ev[e].handle => Ahead(p, f, e)'
      ]_vars

\* The head of p is due, earlier than every head of a higher priority, and no
\* head of a lower priority is earlier still.
Overdue(p) ==
    /\ p \in Candidates
    /\ ~HasLower(p)

\* handled' is lexicographically greater than handled below p, the counter of
\* the lower priority counting more.
TurnsUsed(p) ==
    \E i \in Sub : /\ i < p /\ handled'[i] > handled[i]
                   /\ \A j \in Sub : i < j /\ j < p => handled'[j] = handled[j]

\* "To avoid starvation of lower priority event queue" (event_queue.h:212):
\* whenever another event is taken while the head of p is overdue, the turns
\* the higher priorities have used grow lexicographically.  They are bounded by
\* MaxHandled each, so this happens less than (MaxHandled + 1)^p times in a row.
BypassUsesTurns ==
    [][\A p \in Sub : Overdue(p) /\ stage = "get" /\ stage' = "taken" /\ current' # Head(queue[p])
                      => TurnsUsed(p)]_vars

\* An event that is due before the clock stops is distributed, cancelled or
\* orphaned in the end, however many events of higher priority keep arriving.
\* (At MaxNow later sends would tie with it for ever: the bound's artefact.)
DueEventLeaves ==
    \A e \in Event : (e \in Queued /\ ev[e].prio # IDLE /\ ev[e].handle < MaxNow) ~> (e \notin Queued)

-----------------------------------------------------------------------------
(* The queue implements the delivery promised in EventDelivery.            *)

Pending == {[event |-> e, owner |-> ev[e].owner, prio |-> ev[e].prio, due |-> ev[e].handle] : e \in Queued}
Gone    == {h \in Handler : dtor[h] # "no"}

Delivery == INSTANCE EventDelivery WITH
    Owner <- Handler, Nothing <- NoEvent, pending <- Pending, processing <- current, gone <- Gone

\* Every step of senders, cancellers, destructors and the loop thread is a step
\* the promise of EventDelivery allows, or changes nothing its users can see.
ImplementsDelivery == Delivery!Spec

=============================================================================
