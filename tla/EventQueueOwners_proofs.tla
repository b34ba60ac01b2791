---------------------- MODULE EventQueueOwners_proofs -----------------------
(***************************************************************************)
(* Handlers and their events: what ~EventHandler, the senders and the loop *)
(* thread owe each other.  What the turn counters owe the events of lower  *)
(* priority, the order of events, and that the queue implements the        *)
(* delivery EventDelivery promises.  All rest on EventQueue_proofs.        *)
(***************************************************************************)
EXTENDS EventQueue_proofs, EventQueueTurns

(* A destructor has started exactly if nobody refers to the handler; a send *)
(* under way means that somebody does; the running event keeps its owner;   *)
(* and a finished destructor has left nothing in the queue.                 *)
DyingIsUnreferenced == \A h \in Handler : dtor[h] # "no" <=> h \notin held /\ h # currentHandler
SendersReferToOwner == \A e \in sending : Alive(ev[e].owner)
RunningIsCurrent    == stage = "running" => currentHandler = ev[current].owner
DoneLeavesNothing   == \A h \in Handler : dtor[h] = "done" => \A e \in Queued : ev[e].owner # h

OwnersCore == DyingIsUnreferenced /\ SendersReferToOwner /\ RunningIsCurrent /\ DoneLeavesNothing

(* What keeps the owner of a send alive when the loop thread turns to another *)
(* handler: the sender holds it.  Where the loop thread itself posts for the  *)
(* last handler it ran (EventLoop_proofs), this is false and the rest is true.*)
SendersHoldOwner == \A e \in sending : Callable(ev[e].owner)

OwnersInv == OwnersCore /\ SendersHoldOwner

LEMMA OwnersCoreImplies ==
    ASSUME IInv, OwnersCore, ConstantsAssumption
    PROVE  NothingOutlivesItsHandler
<1>1. ASSUME NEW h \in Handler, dtor[h] = "done", NEW e \in Queued \cup sending
      PROVE  ev[e].owner # h
  <2>1. CASE e \in Queued
    BY <1>1, <2>1 DEF OwnersCore, DoneLeavesNothing
  <2>2. CASE e \in sending
    BY <1>1, <2>2 DEF OwnersCore, SendersReferToOwner, DyingIsUnreferenced, Alive
  <2> QED
    BY <1>1, <2>1, <2>2
<1>2. ASSUME stage = "running" PROVE dtor[ev[current].owner] = "no"
  <2>1. current \in Event /\ current \notin Free
    BY <1>2 DEF IInv, TypeOK, OnePlace, Free
  <2>2. ev[current] \in Fields /\ ev[current] # Blank
    BY <2>1 DEF IInv, TypeOK, OnePlace
  <2>3. ev[current].owner \in Handler
    BY <2>2, FieldTypes
  <2> QED
    BY <1>2, <2>3 DEF OwnersCore, DyingIsUnreferenced, RunningIsCurrent
<1> QED
  BY <1>1, <1>2 DEF NothingOutlivesItsHandler

LEMMA InitOwnersInv == ASSUME ConstantsAssumption, Init PROVE OwnersInv
<1>1. Queued = {}
  BY DEF Init, Queued, Elems
<1> QED
  BY <1>1 DEF Init, OwnersInv, OwnersCore, DyingIsUnreferenced, SendersReferToOwner, SendersHoldOwner,
              RunningIsCurrent, DoneLeavesNothing, ConstantsAssumption

(* An event in use keeps its fields when others are recycled.               *)
LEMMA RemoveMatchingKeepsFields ==
    ASSUME IInv, NEW R, RemoveMatching(R)
    PROVE  /\ \A e \in sending : ev'[e] = ev[e]
           /\ stage = "running" => ev'[current] = ev[current]
           /\ Queued' \subseteq Queued \ R
           /\ \A e \in Queued' : ev'[e] = ev[e]
           /\ sending' = sending /\ stage' = stage /\ current' = current
           /\ currentHandler' = currentHandler
<1>1. /\ ev' = [e \in Event |-> IF e \in Queued \cap R THEN Blank ELSE ev[e]]
      /\ queue' = [p \in Priority |-> Without(queue[p], R)]
      /\ sending' = sending /\ stage' = stage /\ current' = current
      /\ currentHandler' = currentHandler
  BY DEF RemoveMatching, Recycle, loopVars
<1>2. \A p \in Priority : queue[p] \in Seq(Event)
  BY DEF IInv, TypeOK
<1>3. \A p \in Priority : Elems(queue'[p]) = Elems(queue[p]) \ R
  BY <1>1, <1>2, WithoutElems
<1>4. Queued' \subseteq Queued \ R
  <2>1. \A e : e \in Queued <=> \E p \in Priority : e \in Elems(queue[p])
    BY DEF Queued
  <2>2. \A e : e \in Queued' <=> \E p \in Priority : e \in Elems(queue'[p])
    BY DEF Queued, Elems
  <2> QED
    BY <1>3, <2>1, <2>2
<1>5. Queued \subseteq Event
  BY QueuedEvents DEF IInv, TypeOK
<1>6. \A e \in sending : e \in Event /\ e \notin Queued
  BY DEF IInv, TypeOK, OnePlace
<1>7. stage = "running" => current \in Event /\ current \notin Queued
  BY DEF IInv, TypeOK, OnePlace
<1> QED
  BY <1>1, <1>4, <1>5, <1>6, <1>7

LEMMA NextOwnersCore ==
    ASSUME ConstantsAssumption, IInv, OwnersCore, DistributeEvent => SendersHoldOwner, [Next]_vars
    PROVE  OwnersCore'
<1> USE DEF OwnersCore, DyingIsUnreferenced, SendersReferToOwner, RunningIsCurrent, DoneLeavesNothing
<1>0. Queued \subseteq Event /\ current \notin Queued /\ sending \cap Queued = {}
  BY QueuedEvents DEF IInv, TypeOK, OnePlace
<1>1. CASE Send
  <2>1. PICK h \in Handler, e \in Event, b \in Body, p \in Used, d \in 0..MaxDelay : SendEvent(h, e, b, p, d)
    BY <1>1 DEF Send
  <2>2. /\ e \in Free /\ Callable(h) /\ sending' = sending \cup {e} /\ queue' = queue
        /\ ev'[e].owner = h /\ \A x \in Event : x # e => ev'[x] = ev[x]
        /\ UNCHANGED <<stage, current, currentHandler, held, dtor>>
    BY <2>1 DEF SendEvent, loopVars, handlerVars, IInv, TypeOK
  <2>3. e \notin Queued /\ e \notin sending /\ e # current
    BY <2>2 DEF Free
  <2>4. Queued' = Queued
    BY <2>2 DEF Queued, Elems
  <2>5. stage = "running" => current \in Event
    BY DEF IInv, TypeOK, OnePlace
  <2>6. \A x \in sending : x \in Event
    BY DEF IInv, TypeOK
  <2> QED
    BY <1>0, <2>2, <2>3, <2>4, <2>5, <2>6 DEF Callable, Alive
<1>2. CASE \E e \in Event : Insert(e)
  <2>1. PICK e \in Event : Insert(e)
    BY <1>2
  <2>2. /\ e \in sending /\ sending' = sending \ {e} /\ ev' = ev
        /\ queue' = [queue EXCEPT ![ev[e].prio] = InsertEvent(queue[ev[e].prio], e)]
        /\ UNCHANGED <<stage, current, currentHandler, held, dtor>>
    BY <2>1 DEF Insert, loopVars, handlerVars
  <2>3. Queued' \subseteq Queued \cup {e}
    <3> DEFINE p == ev[e].prio
    <3>1. p \in Priority
      BY FieldTypes DEF IInv, TypeOK
    <3>2. queue[p] \in Seq(Event) /\ IsInjective(queue[p]) /\ Sorted(queue[p]) /\ e \notin Elems(queue[p])
      BY <3>1, <2>2 DEF IInv, TypeOK, OnePlace, SortedByHandleTime, Queued
    <3>3. Elems(InsertEvent(queue[p], e)) = Elems(queue[p]) \cup {e}
      BY <3>2, InsertElems DEF IInv, TypeOK
    <3> HIDE DEF p
    <3>4. queue' = [queue EXCEPT ![p] = InsertEvent(queue[p], e)] /\ queue \in [Priority -> Seq(Event)]
      BY <2>2 DEF p, IInv, TypeOK
    <3>5. \A q \in Priority : Elems(queue'[q]) \subseteq Elems(queue[q]) \cup {e}
      BY <3>1, <3>3, <3>4
    <3>6. \A x : x \in Queued <=> \E q \in Priority : x \in Elems(queue[q])
      BY DEF Queued
    <3>7. \A x : x \in Queued' <=> \E q \in Priority : x \in Elems(queue'[q])
      BY DEF Queued, Elems
    <3> QED
      BY <3>5, <3>6, <3>7
  <2>4. dtor[ev[e].owner] = "no"
    BY <2>2 DEF Alive
  <2> QED
    BY <2>2, <2>3, <2>4 DEF Alive
<1>3. CASE Cancel
  <2>1. \E R : RemoveMatching(R) /\ UNCHANGED handlerVars
    BY <1>3 DEF Cancel, RemoveAllEvents, RemoveEvent, RemoveTask
  <2>2. PICK R : RemoveMatching(R)
    BY <2>1
  <2>3. held' = held /\ dtor' = dtor
    BY <2>1 DEF handlerVars
  <2> QED
    BY <2>2, <2>3, RemoveMatchingKeepsFields DEF Alive
<1>4. ASSUME NEW h \in Handler, RemoveOrphan(h) PROVE OwnersCore'
  <2>1. RemoveMatching(Orphans) /\ dtor' = [dtor EXCEPT ![h] = "done"] /\ held' = held /\ dtor[h] # "no"
    BY <1>4 DEF RemoveOrphan
  <2>2. /\ \A e \in sending : ev'[e] = ev[e]
        /\ stage = "running" => ev'[current] = ev[current]
        /\ Queued' \subseteq Queued \ Orphans
        /\ \A e \in Queued' : ev'[e] = ev[e]
        /\ sending' = sending /\ stage' = stage /\ current' = current
        /\ currentHandler' = currentHandler
    BY <2>1, RemoveMatchingKeepsFields
  <2>3. dtor \in [Handler -> {"no", "app", "loop", "done"}]
    BY DEF IInv, TypeOK
  <2>4. ~Alive(h)
    BY <2>1 DEF Alive
  <2>5. \A e \in Queued' : ev'[e].owner # h
    BY <2>2, <2>4 DEF Orphans
  <2> QED
    BY <2>1, <2>2, <2>3, <2>5 DEF Alive
<1>5. ASSUME NEW h \in Handler, Release(h) PROVE OwnersCore'
  <2>1. /\ held' = held \ {h}
        /\ dtor' = IF h = currentHandler THEN dtor ELSE [dtor EXCEPT ![h] = "app"]
        /\ UNCHANGED <<sending, queue, ev, stage, current, currentHandler>>
        /\ SendsOf(h) = {} \/ (stage = "running" /\ h = currentHandler)
        /\ h \in held
    BY <1>5 DEF Release, queueVars, loopVars
  <2>2. Queued' = Queued
    BY <2>1 DEF Queued, Elems
  <2>3. dtor \in [Handler -> {"no", "app", "loop", "done"}]
    BY DEF IInv, TypeOK
  <2>4. DyingIsUnreferenced' /\ DoneLeavesNothing'
    BY <2>1, <2>2, <2>3
  <2>5. SendersReferToOwner'
    BY <2>1 DEF SendsOf, Alive
  <2> QED
    BY <2>1, <2>4, <2>5
<1>6. CASE GetExpiredEvent
  <2>1. /\ stage = "get" /\ stage' # "running"
        /\ UNCHANGED <<ev, sending, currentHandler, held, dtor>>
    BY <1>6 DEF GetExpiredEvent, FindEvent, PickEvent, TakeIdleEvent, FindNothing, Take, handlerVars
  <2>2. Queued' \subseteq Queued
    <3>1. CASE \E p \in Priority : Take(p) /\ queue[p] # <<>>
      <4>1. PICK p \in Priority : Take(p) /\ queue[p] # <<>>
        BY <3>1
      <4>2. queue \in [Priority -> Seq(Event)] /\ IsInjective(queue[p])
        BY DEF IInv, TypeOK, OnePlace
      <4>3. Elems(Tail(queue[p])) \subseteq Elems(queue[p])
        BY <4>1, <4>2, PopFrontElems
      <4>4. \A q \in Priority : Elems(queue'[q]) \subseteq Elems(queue[q])
        BY <4>1, <4>2, <4>3 DEF Take
      <4>5. \A x : x \in Queued <=> \E q \in Priority : x \in Elems(queue[q])
        BY DEF Queued
      <4>6. \A x : x \in Queued' <=> \E q \in Priority : x \in Elems(queue'[q])
        BY DEF Queued, Elems
      <4> QED
        BY <4>4, <4>5, <4>6
    <3>2. CASE queue' = queue
      BY <3>2 DEF Queued, Elems
    <3>3. ASSUME NEW i \in Sub, PickEvent(i) PROVE Take(i) /\ i \in Priority /\ queue[i] # <<>>
      BY <3>3, Times DEF PickEvent, Picked, Candidates, NonEmpty
    <3>4. TakeIdleEvent => Take(IDLE) /\ IDLE \in Priority /\ queue[IDLE] # <<>>
      BY Times DEF TakeIdleEvent, IdleEventReady
    <3>5. FindNothing => queue' = queue
      BY DEF FindNothing
    <3> QED
      BY <1>6, <3>1, <3>2, <3>3, <3>4, <3>5 DEF GetExpiredEvent, FindEvent
  <2> QED
    BY <2>1, <2>2 DEF Alive
<1>7. CASE DistributeEvent
  <2>1. /\ stage = "taken" /\ Alive(ev[current].owner) /\ stage' = "running"
        /\ currentHandler' = ev[current].owner
        /\ dtor' = IF currentHandler \in Handler \ (held \cup {currentHandler'})
                   THEN [dtor EXCEPT ![currentHandler] = "loop"] ELSE dtor
        /\ UNCHANGED <<sending, queue, ev, current, held>>
    BY <1>7 DEF DistributeEvent, queueVars
  <2>2. Queued' = Queued
    BY <2>1 DEF Queued, Elems
  <2>3. dtor \in [Handler -> {"no", "app", "loop", "done"}]
    BY DEF IInv, TypeOK
  <2>4. DyingIsUnreferenced'
    BY <2>1, <2>3 DEF Alive
  <2>5. SendersReferToOwner'
    BY <1>7, <2>1 DEF SendersHoldOwner, Callable, Alive
  <2>6. DoneLeavesNothing'
    BY <2>1, <2>2, <2>3
  <2> QED
    BY <2>1, <2>4, <2>5, <2>6
<1>8. CASE ReleaseEvent
  <2>1. /\ stage' = "get" /\ UNCHANGED <<sending, queue, currentHandler, held, dtor>>
        /\ ev' = [e \in Event |-> IF e \in {current} THEN Blank ELSE ev[e]]
        /\ (stage = "running" /\ \A e \in sending : ev[e].owner \in held) \/ stage = "taken"
    BY <1>8 DEF ReleaseEvent, Recycle, handlerVars
  <2>2. Queued' = Queued
    BY <2>1 DEF Queued, Elems
  <2>3. current \notin sending /\ sending \subseteq Event
    BY DEF IInv, TypeOK, OnePlace
  <2> QED
    BY <1>0, <2>1, <2>2, <2>3 DEF Alive
<1>9. CASE Tick \/ UNCHANGED vars
  <2>1. UNCHANGED <<sending, queue, ev, stage, current, currentHandler, held, dtor>>
    BY <1>9 DEF Tick, vars, queueVars, loopVars, handlerVars
  <2>2. Queued' = Queued
    BY <2>1 DEF Queued, Elems
  <2> QED
    BY <2>1, <2>2 DEF Alive
<1> QED
  BY <1>1, <1>2, <1>3, <1>4, <1>5, <1>6, <1>7, <1>8, <1>9 DEF Next, Destroy, Consume

(* A send that is under way and that somebody can call for stays so until it *)
(* is over, and a new one is such.                                         *)
LEMMA SendersKeepOwner ==
    ASSUME ConstantsAssumption, IInv, [Next]_vars, NEW e \in sending'
    PROVE  \/ e \notin sending /\ Callable(ev[e].owner)'
           \/ /\ e \in sending /\ ev'[e] = ev[e]
              /\ Callable(ev[e].owner) => Callable(ev[e].owner)'
<1> DEFINE Kept == /\ e \in sending /\ ev'[e] = ev[e]
                   /\ Callable(ev[e].owner) => Callable(ev[e].owner)'
<1>1. CASE Send
  <2>1. PICK h \in Handler, d \in Event, b \in Body, p \in Used, t \in 0..MaxDelay : SendEvent(h, d, b, p, t)
    BY <1>1 DEF Send
  <2>2. /\ d \in Free /\ Callable(h) /\ sending' = sending \cup {d} /\ sending \subseteq Event
        /\ ev'[d].owner = h /\ \A x \in Event : x # d => ev'[x] = ev[x]
        /\ UNCHANGED <<stage, currentHandler, held>>
    BY <2>1 DEF SendEvent, loopVars, handlerVars, IInv, TypeOK
  <2>3. d \notin sending
    BY <2>2 DEF Free
  <2> QED
    BY <2>2, <2>3 DEF Callable
<1>2. ASSUME e \in sending, ev'[e] = ev[e], UNCHANGED <<stage, currentHandler, held>> PROVE Kept
  BY <1>2 DEF Callable
<1>3. CASE \E d \in Event : Insert(d)
  BY <1>2, <1>3 DEF Insert, loopVars, handlerVars
<1>4. CASE Cancel \/ \E h \in Handler : RemoveOrphan(h)
  <2>1. PICK R : RemoveMatching(R)
    BY <1>4 DEF Cancel, RemoveAllEvents, RemoveEvent, RemoveTask, RemoveOrphan
  <2>2. held' = held
    BY <1>4 DEF Cancel, RemoveAllEvents, RemoveEvent, RemoveTask, RemoveOrphan, handlerVars
  <2> QED
    BY <1>2, <2>1, <2>2, RemoveMatchingKeepsFields
<1>5. ASSUME NEW h \in Handler, Release(h) PROVE Kept
  <2>1. /\ held' = held \ {h} /\ UNCHANGED <<sending, ev, stage, currentHandler>>
        /\ SendsOf(h) = {} \/ (stage = "running" /\ h = currentHandler)
    BY <1>5 DEF Release, queueVars, loopVars
  <2> QED
    BY <2>1 DEF SendsOf, Callable
<1>6. CASE GetExpiredEvent \/ DistributeEvent
  <2>1. stage # "running" /\ UNCHANGED <<ev, sending, held>>
    BY <1>6 DEF GetExpiredEvent, DistributeEvent, queueVars, handlerVars
  <2> QED
    BY <2>1 DEF Callable
<1>7. CASE ReleaseEvent
  <2>1. /\ UNCHANGED <<sending, held>>
        /\ ev' = [x \in Event |-> IF x \in {current} THEN Blank ELSE ev[x]]
        /\ (stage = "running" /\ \A x \in sending : ev[x].owner \in held) \/ stage = "taken"
    BY <1>7 DEF ReleaseEvent, Recycle, handlerVars
  <2>2. current \notin sending /\ sending \subseteq Event
    BY DEF IInv, TypeOK, OnePlace
  <2> QED
    BY <2>1, <2>2 DEF Callable
<1>8. CASE Tick \/ UNCHANGED vars
  BY <1>2, <1>8 DEF Tick, vars, queueVars, loopVars, handlerVars
<1> QED
  BY <1>1, <1>3, <1>4, <1>5, <1>6, <1>7, <1>8 DEF Next, Destroy, Consume

LEMMA NextOwnersInv ==
    ASSUME ConstantsAssumption, IInv, OwnersInv, [Next]_vars
    PROVE  OwnersInv'
<1>1. OwnersCore'
  BY NextOwnersCore DEF OwnersInv
<1>2. SendersHoldOwner'
  BY SendersKeepOwner DEF OwnersInv, SendersHoldOwner
<1> QED
  BY <1>1, <1>2 DEF OwnersInv

LEMMA OwnersInvariant == Spec => []OwnersInv
<1>1. Init => OwnersInv
  BY InitOwnersInv, ConstantsAssumption
<1>2. IInv /\ OwnersInv /\ [Next]_vars => OwnersInv'
  BY NextOwnersInv, ConstantsAssumption
<1> QED
  BY <1>1, <1>2, QueueInvariant, PTL DEF Spec

\* Whatever thread drops the last reference and whatever sends are under way,
\* a destroyed handler has no event left and none of its events is running.
THEOREM NothingOutlives == Spec => []NothingOutlivesItsHandler
<1>1. IInv /\ OwnersInv => NothingOutlivesItsHandler
  BY OwnersCoreImplies, ConstantsAssumption DEF OwnersInv
<1> QED
  BY <1>1, QueueInvariant, OwnersInvariant, PTL

-----------------------------------------------------------------------------
(* A step that takes an event is PickEvent or TakeIdleEvent.                *)
LEMMA TakingStep ==
    ASSUME Next, stage = "get", stage' = "taken"
    PROVE  (\E i \in Sub : PickEvent(i)) \/ TakeIdleEvent
BY DEF Next, Send, SendEvent, Insert, Cancel, RemoveAllEvents, RemoveEvent, RemoveTask, RemoveMatching,
       Destroy, Release, RemoveOrphan, Consume, GetExpiredEvent, FindEvent, FindNothing,
       DistributeEvent, ReleaseEvent, Tick, loopVars

LEMMA BypassStep ==
    ASSUME IInv, Next, NEW p \in Sub, Overdue(p), stage = "get", stage' = "taken",
           current' # Head(queue[p])
    PROVE  TurnsUsed(p)
<1>1. ~TakeIdleEvent
  BY DEF TakeIdleEvent, EnterIdle, Overdue
<1>2. PICK i \in Sub : PickEvent(i)
  BY <1>1, TakingStep
<1>3. i \in Candidates /\ (HasLower(i) => handled[i] < MaxHandled) /\ current' = Head(queue[i])
  BY <1>2 DEF PickEvent, Picked, Take
<1>4. i < p /\ HasLower(i)
  <2>1. p \in Candidates /\ ~(i > p) /\ i # p
    BY <1>3 DEF Overdue, HasLower
  <2> QED
    BY <2>1 DEF HasLower, Sub
<1>5. /\ handled' = [j \in Sub |-> IF j < i THEN 0
                                ELSE IF j = i /\ HasLower(i) THEN handled[j] + 1
                                ELSE handled[j]]
      /\ handled \in [Sub -> 0..MaxHandled]
  BY <1>2 DEF PickEvent, CountTurn, IInv, TypeOK
<1>6. handled'[i] = handled[i] + 1 /\ handled[i] \in Int
  BY <1>4, <1>5 DEF Sub
<1>7. \A j \in Sub : i < j => handled'[j] = handled[j]
  BY <1>5 DEF Sub
<1> QED
  BY <1>4, <1>6, <1>7 DEF TurnsUsed

\* With any maximum and any number of events and senders: every time an overdue
\* head of priority p is passed over, the turns used by the priorities above p
\* grow lexicographically, and TypeCorrect bounds each of them by MaxHandled.
THEOREM BypassesUseTurns == Spec => BypassUsesTurns
<1>1. IInv /\ [Next]_vars =>
        [\A p \in Sub : Overdue(p) /\ stage = "get" /\ stage' = "taken" /\ current' # Head(queue[p])
                        => TurnsUsed(p)]_vars
  BY BypassStep
<1> QED
  BY <1>1, QueueInvariant, PTL DEF Spec, BypassUsesTurns

-----------------------------------------------------------------------------
(* EventQueue implements EventDelivery: the queued events, with what users  *)
(* know of them, are the pending messages.                                 *)
Msg(e) == [event |-> e, owner |-> ev[e].owner, prio |-> ev[e].prio, due |-> ev[e].handle]

LEMMA MessageFields ==
    ASSUME NEW e
    PROVE  /\ Msg(e).event = e /\ Msg(e).owner = ev[e].owner
           /\ Msg(e).prio = ev[e].prio /\ Msg(e).due = ev[e].handle
BY DEF Msg

LEMMA PendingMessages == Pending = {Msg(e) : e \in Queued}
BY DEF Pending, Msg

LEMMA QueuedMessages ==
    ASSUME ConstantsAssumption, IInv, NEW e \in Queued
    PROVE  /\ e \in Event /\ e \notin sending /\ e # current
           /\ ev[e].owner \in Handler /\ ev[e].prio \in Priority
           /\ ev[e].handle \in Time /\ ev[e].handle \in Nat
<1>1. e \in Event /\ e \notin Free
  BY QueuedEvents DEF IInv, TypeOK, Free
<1>2. ev[e] \in Fields /\ ev[e] # Blank
  BY <1>1 DEF IInv, TypeOK, OnePlace
<1>3. e \notin sending /\ e # current
  BY DEF IInv, OnePlace
<1> QED
  BY <1>1, <1>2, <1>3, FieldTypes

(* What happens to Pending when events leave the lists, or none does.       *)
LEMMA PendingShrinks ==
    ASSUME NEW R \in SUBSET Queued, Queued' = Queued \ R, \A e \in Queued' : ev'[e] = ev[e]
    PROVE  Pending' = Pending \ {Msg(e) : e \in R}
<1>1. \A e \in Queued' : Msg(e)' = Msg(e)
  BY DEF Msg
<1>2. Pending' = {Msg(e)' : e \in Queued'}
  BY DEF Pending, Msg
<1>3. Pending' = {Msg(e) : e \in Queued \ R}
  BY <1>1, <1>2
<1>4. \A e, f : Msg(e) = Msg(f) => e = f
  BY MessageFields
<1> HIDE DEF Msg
<1> QED
  BY <1>3, <1>4, PendingMessages

LEMMA PendingStays ==
    ASSUME Queued' = Queued, \A e \in Queued : ev'[e] = ev[e]
    PROVE  Pending' = Pending
<1>1. \A e \in Queued : Msg(e)' = Msg(e)
  BY DEF Msg
<1>2. Pending' = {Msg(e)' : e \in Queued}
  BY DEF Pending, Msg
<1> QED
  BY <1>1, <1>2, PendingMessages

LEMMA QueuedStays == ASSUME queue' = queue PROVE Queued' = Queued
BY DEF Queued, Elems

LEMMA PostStep ==
    ASSUME ConstantsAssumption, IInv, OwnersCore, NEW e \in Event, Insert(e)
    PROVE  \E m \in Delivery!Message : Delivery!Post(m)
<1> DEFINE p == ev[e].prio
<1>1. /\ e \in sending /\ ev' = ev
      /\ queue' = [queue EXCEPT ![p] = InsertEvent(queue[p], e)]
      /\ UNCHANGED <<now, current, dtor>>
  BY DEF Insert, loopVars, handlerVars
<1>2. e \notin Queued /\ e # current /\ e \notin Free
  BY <1>1 DEF IInv, OnePlace, Free
<1>3. ev[e] \in Fields /\ ev[e] # Blank
  BY <1>2 DEF IInv, TypeOK, OnePlace
<1>4. ev[e].owner \in Handler /\ p \in Priority /\ ev[e].handle \in Time
  BY <1>3, FieldTypes
<1>5. Elems(InsertEvent(queue[p], e)) = Elems(queue[p]) \cup {e}
  <2>1. queue[p] \in Seq(Event) /\ IsInjective(queue[p]) /\ Sorted(queue[p]) /\ e \notin Elems(queue[p])
    BY <1>2, <1>4 DEF IInv, TypeOK, OnePlace, SortedByHandleTime, Queued
  <2> QED
    BY <2>1, InsertElems DEF IInv, TypeOK
<1> HIDE DEF p
<1>6. Queued' = Queued \cup {e}
  <2>1. \A q \in Priority : Elems(queue'[q]) = IF q = p THEN Elems(queue[q]) \cup {e} ELSE Elems(queue[q])
    BY <1>1, <1>5 DEF IInv, TypeOK
  <2>2. \A x : x \in Queued <=> \E q \in Priority : x \in Elems(queue[q])
    BY DEF Queued
  <2>3. \A x : x \in Queued' <=> \E q \in Priority : x \in Elems(queue'[q])
    BY DEF Queued, Elems
  <2>4. p \in Priority
    BY <1>4 DEF p
  <2> QED
    BY <2>1, <2>2, <2>3, <2>4
<1>7. Pending' = Pending \cup {Msg(e)}
  <2>1. \A x : Msg(x)' = Msg(x)
    BY <1>1 DEF Msg
  <2>2. Pending' = {Msg(x)' : x \in Queued'}
    BY DEF Pending, Msg
  <2> QED
    BY <1>6, <2>1, <2>2, PendingMessages
<1>8. Msg(e) \in Delivery!Message
  BY <1>4 DEF Msg, Delivery!Message, p
<1>9. \A n \in Pending : n.event # e
  BY <1>2, PendingMessages, MessageFields
<1>10. ev[e].owner \notin Gone
  BY <1>1 DEF OwnersCore, SendersReferToOwner, DyingIsUnreferenced, Alive, Gone
<1>11. Gone' = Gone
  BY <1>1 DEF Gone
<1>12. Msg(e).event = e /\ Msg(e).owner = ev[e].owner
  BY MessageFields
<1>13. Delivery!Post(Msg(e))
  BY <1>1, <1>2, <1>7, <1>9, <1>10, <1>11, <1>12 DEF Delivery!Post
<1> QED
  BY <1>8, <1>13

LEMMA CancelStep ==
    ASSUME ConstantsAssumption, IInv, NEW R, RemoveMatching(R), Gone' = Gone,
           \/ \E h \in Handler : \A e \in R \cap Queued : ev[e].owner = h
           \/ \A e \in R \cap Queued : ev[e].owner \in Gone
    PROVE  \E S \in SUBSET Pending : Delivery!Cancel(S)
<1> DEFINE S == {Msg(e) : e \in R \cap Queued}
<1>1. S \in SUBSET Pending
  BY PendingMessages
<1>2. Queued' = Queued \ (R \cap Queued) /\ \A e \in Queued' : ev'[e] = ev[e]
  <2>1. \A p \in Priority : Elems(queue'[p]) = Elems(queue[p]) \ R
    BY WithoutElems DEF RemoveMatching, IInv, TypeOK
  <2>2. \A e : e \in Queued <=> \E p \in Priority : e \in Elems(queue[p])
    BY DEF Queued
  <2>3. \A e : e \in Queued' <=> \E p \in Priority : e \in Elems(queue'[p])
    BY DEF Queued, Elems
  <2>4. Queued' = Queued \ (R \cap Queued)
    BY <2>1, <2>2, <2>3
  <2> QED
    BY <2>4, RemoveMatchingKeepsFields
<1>3. Pending' = Pending \ S
  BY <1>2, PendingShrinks
<1>4. \/ \E h \in Handler : \A m \in S : m.owner = h
      \/ \A m \in S : m.owner \in Gone
  BY MessageFields
<1>5. UNCHANGED <<now, current>>
  BY DEF RemoveMatching, loopVars
<1> HIDE DEF S
<1>6. Delivery!Cancel(S)
  BY <1>3, <1>4, <1>5 DEF Delivery!Cancel
<1> QED
  BY <1>1, <1>6

(* While no sub queue is a candidate, the head of none is due: the highest  *)
(* one that is would be.                                                   *)
LEMMA NothingDue ==
    ASSUME ConstantsAssumption, IInv, Candidates = {}, NEW p \in NonEmpty
    PROVE  now < HeadTime(p)
<1> DEFINE D == {i \in NonEmpty : HeadTime(i) <= now}
<1>1. NonEmpty \subseteq Nat /\ \A i \in NonEmpty : HeadTime(i) \in Nat
  BY CandidateHeads, ListsOfIInv, Times DEF Sub
<1>2. now \in Nat
  BY Times DEF IInv, TypeOK, Time
<1>3. ASSUME D # {} PROVE FALSE
  <2>1. PICK i \in D : \A j \in D : i <= j
    BY <1>1, <1>3, LeastElement
  <2>2. \A j \in NonEmpty : j < i => HeadTime(i) < HeadTime(j)
    BY <1>1, <1>2, <2>1
  <2> QED
    BY <2>1, <2>2 DEF Candidates
<1> QED
  BY <1>1, <1>2, <1>3

LEMMA DeliverStep ==
    ASSUME ConstantsAssumption, IInv, GetExpiredEvent, FindEvent
    PROVE  \E m \in Pending : Delivery!Deliver(m)
<1>1. PICK p \in Priority :
        /\ queue[p] # <<>> /\ Take(p) /\ HeadTime(p) <= now
        /\ \/ p \in Candidates
           \/ p = IDLE /\ Candidates = {}
  <2>1. ASSUME NEW i \in Sub, PickEvent(i)
        PROVE  i \in Priority /\ queue[i] # <<>> /\ Take(i) /\ HeadTime(i) <= now /\ i \in Candidates
    BY <2>1, Times DEF PickEvent, Picked, Candidates, NonEmpty
  <2>2. ASSUME TakeIdleEvent
        PROVE  /\ IDLE \in Priority /\ queue[IDLE] # <<>> /\ Take(IDLE) /\ HeadTime(IDLE) <= now
               /\ Candidates = {}
    BY <2>2, Times DEF TakeIdleEvent, IdleEventReady, EnterIdle, HeadTime
  <2> QED
    BY <2>1, <2>2 DEF FindEvent
<1> DEFINE e == Head(queue[p])
<1>2. /\ current' = e /\ queue' = [queue EXCEPT ![p] = Tail(queue[p])]
      /\ UNCHANGED <<now, ev, dtor>> /\ current = NoEvent
  BY <1>1 DEF GetExpiredEvent, Take, handlerVars, IInv, OnePlace
<1>3. queue[p] \in Seq(Event) /\ IsInjective(queue[p])
  BY DEF IInv, TypeOK, OnePlace
<1>4. e \in Elems(queue[p]) /\ Elems(Tail(queue[p])) = Elems(queue[p]) \ {e}
  BY <1>1, <1>3, PopFrontElems
<1>5. ev[e].handle = HeadTime(p)
  BY DEF HeadTime
<1> HIDE DEF e
<1>6. e \in Queued /\ ev[e].prio = p
  BY <1>4 DEF Queued, IInv, OnePlace
<1>7. Queued' = Queued \ {e}
  <2>1. \A q \in Priority : Elems(queue'[q]) = IF q = p THEN Elems(queue[q]) \ {e} ELSE Elems(queue[q])
    BY <1>2, <1>4 DEF IInv, TypeOK
  <2>2. \A q \in Priority : e \in Elems(queue[q]) => q = p
    BY <1>6 DEF IInv, OnePlace
  <2>3. \A x : x \in Queued <=> \E q \in Priority : x \in Elems(queue[q])
    BY DEF Queued
  <2>4. \A x : x \in Queued' <=> \E q \in Priority : x \in Elems(queue'[q])
    BY DEF Queued, Elems
  <2> QED
    BY <2>1, <2>2, <2>3, <2>4
<1>8. Pending' = Pending \ {Msg(e)}
  <2>1. Pending' = Pending \ {Msg(x) : x \in {e}}
    BY <1>2, <1>6, <1>7, PendingShrinks
  <2> QED
    BY <2>1
<1>9. ASSUME NEW x \in Queued PROVE Delivery!Precedes(Msg(e), Msg(x))
  <2> DEFINE q == ev[x].prio
  <2>1. q \in Priority /\ x \in Elems(queue[q])
    <3>1. PICK r \in Priority : x \in Elems(queue[r])
      BY DEF Queued
    <3> QED
      BY <3>1 DEF IInv, OnePlace
  <2>2. queue[q] # <<>> /\ HeadTime(q) <= ev[x].handle
    BY <2>1, HeadIsEarliest
  <2> HIDE DEF q
  <2>3. HeadTime(p) \in Nat /\ HeadTime(q) \in Nat /\ ev[x].handle \in Nat /\ now \in Nat
    BY <1>1, <2>1, <2>2, HeadTimes, ListsOfIInv, Times, QueuedMessages DEF IInv, TypeOK
  <2>4. p = q => ev[e].handle <= ev[x].handle
    BY <1>5, <2>2
  <2>5. p # IDLE /\ q # IDLE /\ q < p => ev[e].handle < ev[x].handle
    <3> SUFFICES ASSUME p # IDLE, q # IDLE, q < p PROVE HeadTime(p) < HeadTime(q)
      BY <1>5, <2>2, <2>3
    <3>1. q \in NonEmpty
      BY <2>1, <2>2 DEF NonEmpty, Priority
    <3> QED
      BY <1>1, <3>1 DEF Candidates
  <2>6. p = IDLE /\ q # IDLE => now < ev[x].handle
    <3> SUFFICES ASSUME p = IDLE, q # IDLE PROVE now < HeadTime(q)
      BY <2>2, <2>3
    <3>1. q \in NonEmpty /\ Candidates = {}
      BY <1>1, <2>1, <2>2 DEF NonEmpty, Priority, Candidates, Sub, IDLE
    <3> QED
      BY <3>1, NothingDue
  <2>7. /\ Msg(e).prio = p /\ Msg(x).prio = q
        /\ Msg(e).due = ev[e].handle /\ Msg(x).due = ev[x].handle
    BY <1>6, MessageFields DEF q
  <2>8. ~(ev[x].handle <= now) <=> now < ev[x].handle
    BY <2>3
  <2> QED
    BY <2>4, <2>5, <2>6, <2>7, <2>8 DEF Delivery!Precedes, Delivery!Due, Delivery!Urgent
<1>10. \A n \in Pending : Delivery!Precedes(Msg(e), n)
  BY <1>9, PendingMessages
<1>11. Msg(e) \in Pending /\ Msg(e).event = e /\ Delivery!Due(Msg(e))
  BY <1>1, <1>5, <1>6, PendingMessages, MessageFields DEF Delivery!Due
<1>12. Gone' = Gone
  BY <1>2 DEF Gone
<1>13. Delivery!Deliver(Msg(e))
  BY <1>2, <1>8, <1>10, <1>11, <1>12 DEF Delivery!Deliver
<1> QED
  BY <1>11, <1>13

(* ~EventHandler begins when the application or the loop thread drops the   *)
(* last reference.                                                         *)
LEMMA DestroyStep ==
    ASSUME ConstantsAssumption, IInv, OwnersCore, UNCHANGED <<now, queue, ev, current>>,
           NEW h \in Handler, NEW where, h \in held \/ h = currentHandler,
           where \in {"app", "loop"}, dtor' = [dtor EXCEPT ![h] = where]
    PROVE  Delivery!Destroy(h)
<1>1. h \notin Gone
  BY DEF OwnersCore, DyingIsUnreferenced, Gone
<1>2. Gone' = Gone \cup {h}
  BY DEF Gone, IInv, TypeOK
<1>3. Pending' = Pending
  BY QueuedStays, PendingStays
<1> QED
  BY <1>1, <1>2, <1>3 DEF Delivery!Destroy

(* A step that no user of the queue sees.                                   *)
LEMMA DeliveryStutters ==
    ASSUME UNCHANGED <<now, queue, current, dtor>>, \A e \in Queued : ev'[e] = ev[e]
    PROVE  UNCHANGED Delivery!vars
<1>1. Pending' = Pending
  BY QueuedStays, PendingStays
<1>2. Gone' = Gone
  BY DEF Gone
<1> QED
  BY <1>1, <1>2 DEF Delivery!vars

LEMMA DeliveryStep ==
    ASSUME ConstantsAssumption, IInv, OwnersCore, [Next]_vars
    PROVE  [Delivery!Next]_(Delivery!vars)
<1>1. ASSUME UNCHANGED <<now, queue, current, dtor>>, \A e \in Queued : ev'[e] = ev[e]
      PROVE  UNCHANGED Delivery!vars
  BY <1>1, DeliveryStutters
<1>2. CASE Send
  <2>1. PICK h \in Handler, e \in Event, b \in Body, p \in Used, d \in 0..MaxDelay : SendEvent(h, e, b, p, d)
    BY <1>2 DEF Send
  <2>2. /\ UNCHANGED <<now, queue, current, dtor>> /\ e \notin Queued
        /\ \A x \in Event : x # e => ev'[x] = ev[x]
    BY <2>1 DEF SendEvent, loopVars, handlerVars, IInv, TypeOK, Free
  <2>3. Queued \subseteq Event
    BY QueuedEvents DEF IInv, TypeOK
  <2> QED
    BY <1>1, <2>2, <2>3
<1>3. CASE \E e \in Event : Insert(e)
  BY <1>3, PostStep DEF Delivery!Next
<1>4. CASE Cancel
  <2>1. PICK h \in Handler : RemoveAllEvents(h) \/ \E b \in Body : RemoveEvent(h, b) \/ RemoveTask(h, b)
    BY <1>4 DEF Cancel
  <2>2. PICK R : RemoveMatching(R) /\ R \subseteq OwnedBy(h) /\ UNCHANGED handlerVars
    <3>1. /\ \A b : WithId(h, b) \subseteq OwnedBy(h) /\ WithName(h, b) \subseteq OwnedBy(h)
          /\ \A b, a : WithParam(h, b, a) \subseteq OwnedBy(h)
      BY DEF WithId, WithParam, WithName
    <3> HIDE DEF OwnedBy, WithId, WithParam, WithName
    <3> QED
      BY <2>1, <3>1 DEF RemoveAllEvents, RemoveEvent, RemoveTask
  <2>3. \A e \in R \cap Queued : ev[e].owner = h
    BY <2>2 DEF OwnedBy
  <2>4. Gone' = Gone
    BY <2>2 DEF handlerVars, Gone
  <2> QED
    BY <2>2, <2>3, <2>4, CancelStep DEF Delivery!Next
<1>5. ASSUME NEW h \in Handler, RemoveOrphan(h) PROVE [Delivery!Next]_(Delivery!vars)
  <2>1. RemoveMatching(Orphans) /\ dtor' = [dtor EXCEPT ![h] = "done"] /\ dtor[h] # "no"
    BY <1>5 DEF RemoveOrphan
  <2>2. Gone' = Gone
    BY <2>1 DEF Gone, IInv, TypeOK
  <2>3. \A e \in Orphans \cap Queued : ev[e].owner \in Gone
    BY QueuedMessages DEF Orphans, Alive, Gone, OwnersCore, DyingIsUnreferenced
  <2> QED
    BY <2>1, <2>2, <2>3, CancelStep DEF Delivery!Next
<1>6. ASSUME NEW h \in Handler, Release(h) PROVE [Delivery!Next]_(Delivery!vars)
  <2>1. /\ h \in held /\ UNCHANGED <<now, queue, ev, current>>
        /\ dtor' = IF h = currentHandler THEN dtor ELSE [dtor EXCEPT ![h] = "app"]
    BY <1>6 DEF Release, queueVars, loopVars
  <2>2. CASE h = currentHandler
    BY <1>1, <2>1, <2>2
  <2>3. CASE h # currentHandler
    <3>1. Delivery!Destroy(h)
      BY <2>1, <2>3, DestroyStep
    <3> QED
      BY <3>1 DEF Delivery!Next
  <2> QED
    BY <2>2, <2>3
<1>7. CASE GetExpiredEvent
  <2>1. CASE FindEvent
    BY <1>7, <2>1, DeliverStep DEF Delivery!Next
  <2>2. CASE FindNothing
    BY <1>1, <1>7, <2>2 DEF GetExpiredEvent, FindNothing, handlerVars
  <2> QED
    BY <1>7, <2>1, <2>2 DEF GetExpiredEvent
<1>8. CASE DistributeEvent
  <2>1. /\ UNCHANGED <<now, queue, ev, current>>
        /\ dtor' = IF currentHandler \in Handler \ (held \cup {currentHandler'})
                   THEN [dtor EXCEPT ![currentHandler] = "loop"] ELSE dtor
    BY <1>8 DEF DistributeEvent, queueVars
  <2>2. CASE dtor' = dtor
    BY <1>1, <2>1, <2>2
  <2>3. CASE currentHandler \in Handler /\ dtor' = [dtor EXCEPT ![currentHandler] = "loop"]
    <3>1. Delivery!Destroy(currentHandler)
      BY <2>1, <2>3, DestroyStep
    <3> QED
      BY <2>3, <3>1 DEF Delivery!Next
  <2> QED
    BY <2>1, <2>2, <2>3
<1>9. CASE ReleaseEvent
  <2>1. /\ current' = NoEvent /\ UNCHANGED <<now, queue, dtor>>
        /\ ev' = [e \in Event |-> IF e \in {current} THEN Blank ELSE ev[e]]
    BY <1>9 DEF ReleaseEvent, Recycle, handlerVars
  <2>2. \A e \in Queued : ev'[e] = ev[e]
    BY <2>1, QueuedMessages
  <2>3. Pending' = Pending
    BY <2>1, <2>2, QueuedStays, PendingStays
  <2>4. Gone' = Gone
    BY <2>1 DEF Gone
  <2>5. Delivery!Finish
    BY <2>1, <2>3, <2>4 DEF Delivery!Finish
  <2> QED
    BY <2>5 DEF Delivery!Next
<1>10. CASE Tick
  <2>1. /\ now < MaxNow /\ now' = now + 1 /\ UNCHANGED <<queue, ev, current, dtor>>
    BY <1>10 DEF Tick, queueVars, loopVars, handlerVars
  <2>2. Pending' = Pending /\ Gone' = Gone
    BY <2>1, QueuedStays, PendingStays DEF Gone
  <2>3. Delivery!Tick
    BY <2>1, <2>2 DEF Delivery!Tick
  <2> QED
    BY <2>3 DEF Delivery!Next
<1>11. CASE UNCHANGED vars
  BY <1>1, <1>11 DEF vars, queueVars, loopVars, handlerVars
<1> QED
  BY <1>2, <1>3, <1>4, <1>5, <1>6, <1>7, <1>8, <1>9, <1>10, <1>11 DEF Next, Destroy, Consume

LEMMA DeliveryInit == ASSUME Init PROVE Delivery!Init
<1>1. Queued = {}
  BY DEF Init, Queued, Elems
<1>2. Pending = {}
  BY <1>1, PendingMessages
<1>3. Gone = {}
  BY DEF Init, Gone
<1> QED
  BY <1>2, <1>3 DEF Init, Delivery!Init

\* With any number of events, handlers, senders and turns: whatever lists,
\* counters and idle mode do, what they deliver, in which order and how often, is
\* what EventDelivery promises.
THEOREM QueueDelivers == Spec => ImplementsDelivery
<1>1. Init => Delivery!Init
  BY DeliveryInit
<1>2. IInv /\ OwnersInv /\ [Next]_vars => [Delivery!Next]_(Delivery!vars)
  BY DeliveryStep, ConstantsAssumption DEF OwnersInv
<1> QED
  BY <1>1, <1>2, QueueInvariant, OwnersInvariant, PTL DEF Spec, ImplementsDelivery, Delivery!Spec

-----------------------------------------------------------------------------
(* The order of two events in a list, and what the list operations do to it.*)
Before(s, e, f) == \E i, j \in DOMAIN s : i < j /\ s[i] = e /\ s[j] = f

LEMMA WithoutKeepsBefore ==
    ASSUME NEW s \in Seq(Event), IsInjective(s), NEW R, NEW e, NEW f, Before(s, e, f),
           e \in Elems(Without(s, R)), f \in Elems(Without(s, R))
    PROVE  Before(Without(s, R), e, f)
<1> DEFINE w == Without(s, R)
<1>1. w \in Seq(Event)
  BY WithoutElems
<1>2. PICK m \in [1..Len(w) -> 1..Len(s)] :
         /\ \A k \in 1..Len(w) : w[k] = s[m[k]]
         /\ \A k, l \in 1..Len(w) : k < l => m[k] < m[l]
  BY WithoutKeepsOrder
<1> HIDE DEF w
<1>3. DOMAIN s = 1..Len(s) /\ DOMAIN w = 1..Len(w) /\ Len(s) \in Nat /\ Len(w) \in Nat
  BY <1>1, LenProperties
<1>4. PICK i \in 1..Len(s), j \in 1..Len(s) : i < j /\ s[i] = e /\ s[j] = f
  BY <1>3 DEF Before
<1>5. PICK k \in 1..Len(w), l \in 1..Len(w) : w[k] = e /\ w[l] = f
  BY <1>3 DEF Elems, w
<1>6. m[k] = i /\ m[l] = j
  <2>1. m[k] \in DOMAIN s /\ m[l] \in DOMAIN s /\ s[m[k]] = e /\ s[m[l]] = f
    BY <1>2, <1>3, <1>5
  <2>2. i \in DOMAIN s /\ j \in DOMAIN s
    BY <1>3
  <2> QED
    BY <1>4, <2>1, <2>2 DEF IsInjective
<1>7. k < l
  <2>1. k < l \/ k = l \/ l < k
    BY <1>3, <1>5
  <2>2. ~(m[l] < m[k]) /\ m[k] # m[l]
    BY <1>3, <1>4, <1>6
  <2> QED
    BY <1>2, <2>1, <2>2
<1> QED
  BY <1>3, <1>5, <1>7 DEF Before, w

LEMMA TailKeepsBefore ==
    ASSUME NEW s \in Seq(Event), IsInjective(s), s # <<>>, NEW e, NEW f, Before(s, e, f)
    PROVE  /\ e \in Elems(Tail(s)) => Before(Tail(s), e, f)
           /\ f = Head(s) => FALSE
<1>1. /\ Tail(s) \in Seq(Event) /\ Len(Tail(s)) = Len(s) - 1
      /\ \A i \in 1..Len(Tail(s)) : Tail(s)[i] = s[i + 1]
  BY HeadTailProperties
<1>2. Head(s) = s[1] /\ Len(s) \in Nat \ {0}
  BY EmptySeq, LenProperties
<1>3. DOMAIN s = 1..Len(s) /\ DOMAIN Tail(s) = 1..(Len(s) - 1)
  BY <1>1, LenProperties
<1>4. PICK i \in 1..Len(s), j \in 1..Len(s) : i < j /\ s[i] = e /\ s[j] = f
  BY <1>3 DEF Before
<1>5. f # Head(s)
  BY <1>2, <1>3, <1>4 DEF IsInjective
<1>6. ASSUME e \in Elems(Tail(s)) PROVE Before(Tail(s), e, f)
  <2>1. e # Head(s)
    BY <1>6, PopFrontElems
  <2>2. i - 1 \in 1..(Len(s) - 1) /\ j - 1 \in 1..(Len(s) - 1) /\ i - 1 < j - 1
    BY <1>2, <1>4, <2>1
  <2>3. (i - 1) + 1 = i /\ (j - 1) + 1 = j
    BY <1>4
  <2>4. Tail(s)[i - 1] = e /\ Tail(s)[j - 1] = f
    BY <1>1, <1>4, <2>2, <2>3
  <2> QED
    BY <1>3, <2>2, <2>4 DEF Before
<1> QED
  BY <1>5, <1>6

LEMMA InsertKeepsBefore ==
    ASSUME ev \in [Event -> Fields], NEW s \in Seq(Event), Sorted(s), NEW e \in Event,
           ConstantsAssumption
    PROVE  /\ \A f, g : Before(s, f, g) => Before(InsertEvent(s, e), f, g)
           /\ \A f \in Elems(s) : ev[f].handle <= ev[e].handle => Before(InsertEvent(s, e), f, e)
<1> DEFINE r == InsertEvent(s, e)
<1>1. r \in Seq(Event) /\ Len(r) = Len(s) + 1
  BY InsertEventPositions
<1>2. PICK n \in 0..Len(s) :
         /\ \A i \in 1..n : r[i] = s[i]
         /\ r[n + 1] = e
         /\ \A i \in (n + 2)..(Len(s) + 1) : r[i] = s[i - 1]
         /\ \A i \in (n + 1)..Len(s) : ev[s[i]].handle > ev[e].handle
  BY InsertEventPositions
<1> HIDE DEF r
<1>3. DOMAIN s = 1..Len(s) /\ DOMAIN r = 1..(Len(s) + 1) /\ Len(s) \in Nat
  BY <1>1, LenProperties
<1> DEFINE to(i) == IF i <= n THEN i ELSE i + 1
<1>4. \A i \in 1..Len(s) : to(i) \in 1..(Len(s) + 1) /\ r[to(i)] = s[i]
  <2> SUFFICES ASSUME NEW i \in 1..Len(s) PROVE to(i) \in 1..(Len(s) + 1) /\ r[to(i)] = s[i]
    OBVIOUS
  <2>1. CASE i <= n
    BY <1>2, <1>3, <2>1
  <2>2. CASE ~(i <= n)
    <3>1. i + 1 \in (n + 2)..(Len(s) + 1) /\ (i + 1) - 1 = i
      BY <1>3, <2>2
    <3> QED
      BY <1>2, <1>3, <2>2, <3>1
  <2> QED
    BY <2>1, <2>2
<1>5. \A i, j \in 1..Len(s) : i < j => to(i) < to(j)
  BY <1>3
<1>6. ASSUME NEW f, NEW g, Before(s, f, g) PROVE Before(r, f, g)
  <2>1. PICK i \in 1..Len(s), j \in 1..Len(s) : i < j /\ s[i] = f /\ s[j] = g
    BY <1>3, <1>6 DEF Before
  <2> HIDE DEF to
  <2> QED
    BY <1>3, <1>4, <1>5, <2>1 DEF Before
<1>7. ASSUME NEW f \in Elems(s), ev[f].handle <= ev[e].handle PROVE Before(r, f, e)
  <2>1. PICK i \in 1..Len(s) : s[i] = f
    BY <1>3 DEF Elems
  <2>2. f \in Event
    BY <2>1, ElementOfSeq
  <2>3. ev[f].handle \in Nat /\ ev[e].handle \in Nat
    BY <2>2, FieldTypes
  <2>4. ~(ev[s[i]].handle > ev[e].handle)
    BY <1>7, <2>1, <2>3
  <2>5. i <= n
    BY <1>2, <1>3, <2>4
  <2>6. i \in DOMAIN r /\ n + 1 \in DOMAIN r /\ i < n + 1 /\ r[i] = f
    BY <1>2, <1>3, <2>1, <2>5
  <2> QED
    BY <1>2, <2>6 DEF Before
<1> QED
  BY <1>6, <1>7 DEF r

LEMMA AheadIsBefore ==
    ASSUME NEW p \in Priority
    PROVE  /\ \A e, f : Ahead(p, e, f) <=> Before(queue[p], e, f)
           /\ \A e, f : Ahead(p, e, f)' <=> Before(queue'[p], e, f)
BY DEF Ahead, Before

NoneOvertakes(p) ==
    /\ \A e, f \in Elems(queue[p]) : Ahead(p, e, f) /\ f \in Elems(queue'[p])
           => e \notin Elems(queue'[p]) \/ Ahead(p, e, f)'
    /\ \A e, f \in Elems(queue[p]) : Ahead(p, e, f) /\ current' = f => e \notin Elems(queue'[p])
    /\ \A e \in sending \cap Elems(queue'[p]) : \A f \in Elems(queue[p]) :
           ev[f].handle <= ev[e].handle => Ahead(p, f, e)'

LEMMA NoneMoves ==
    ASSUME ConstantsAssumption, IInv, UNCHANGED <<queue, current>>, NEW p \in Priority
    PROVE  NoneOvertakes(p)
<1>1. \A e \in Elems(queue[p]) : e \in Queued /\ e \notin sending /\ e # current
  <2>1. \A e \in Elems(queue[p]) : e \in Queued
    BY DEF Queued
  <2> QED
    BY <2>1, QueuedMessages
<1> QED
  BY <1>1, AheadIsBefore DEF NoneOvertakes

LEMMA OvertakingStep ==
    ASSUME ConstantsAssumption, IInv, Next, NEW p \in Priority
    PROVE  NoneOvertakes(p)
<1>1. /\ queue \in [Priority -> Seq(Event)] /\ queue[p] \in Seq(Event)
      /\ IsInjective(queue[p]) /\ Sorted(queue[p])
  BY DEF IInv, TypeOK, OnePlace, SortedByHandleTime
<1>2. \A e \in Elems(queue[p]) : e \in Queued /\ e \in Event /\ e \notin sending /\ e # current
  <2>1. \A e \in Elems(queue[p]) : e \in Queued
    BY DEF Queued
  <2> QED
    BY <2>1, QueuedMessages
<1>3. ASSUME queue'[p] = queue[p], current' \notin Elems(queue[p]) PROVE NoneOvertakes(p)
  BY <1>2, <1>3, AheadIsBefore DEF NoneOvertakes
<1>4. ASSUME UNCHANGED <<queue, current>> PROVE NoneOvertakes(p)
  BY <1>4, NoneMoves
<1>5. ASSUME NEW R, RemoveMatching(R) PROVE NoneOvertakes(p)
  <2>1. queue'[p] = Without(queue[p], R) /\ current' = current
    BY <1>5 DEF RemoveMatching, loopVars
  <2>2. Elems(queue'[p]) \subseteq Elems(queue[p])
    BY <1>1, <2>1, WithoutElems
  <2>3. \A e, f \in Elems(queue'[p]) : Before(queue[p], e, f) => Before(queue'[p], e, f)
    BY <1>1, <2>1, WithoutKeepsBefore
  <2> QED
    BY <1>2, <2>1, <2>2, <2>3, AheadIsBefore DEF NoneOvertakes
<1>6. ASSUME NEW q \in Priority, Take(q), queue[q] # <<>> PROVE NoneOvertakes(p)
  <2>1. current' = Head(queue[q]) /\ queue' = [queue EXCEPT ![q] = Tail(queue[q])]
    BY <1>6 DEF Take
  <2>2. CASE p = q
    <3>1. queue'[p] = Tail(queue[p]) /\ current' = Head(queue[p]) /\ queue[p] # <<>>
      BY <1>1, <1>6, <2>1, <2>2
    <3>2. Elems(queue'[p]) \subseteq Elems(queue[p])
      BY <1>1, <3>1, PopFrontElems
    <3>3. \A e, f : Before(queue[p], e, f) =>
              (e \in Elems(queue'[p]) => Before(queue'[p], e, f)) /\ f # current'
      BY <1>1, <3>1, TailKeepsBefore
    <3> QED
      BY <1>2, <3>2, <3>3, AheadIsBefore DEF NoneOvertakes
  <2>3. CASE p # q
    <3>1. queue'[p] = queue[p]
      BY <1>1, <2>1, <2>3
    <3>2. Head(queue[q]) \in Elems(queue[q])
      BY <1>6, PopFrontElems DEF IInv, TypeOK
    <3>3. current' \notin Elems(queue[p])
      BY <2>1, <2>3, <3>2 DEF IInv, OnePlace
    <3> QED
      BY <1>3, <3>1, <3>3
  <2> QED
    BY <2>2, <2>3
<1>7. ASSUME NEW e \in Event, Insert(e) PROVE NoneOvertakes(p)
  <2>1. /\ e \in sending /\ current' = current
        /\ queue' = [queue EXCEPT ![ev[e].prio] = InsertEvent(queue[ev[e].prio], e)]
    BY <1>7 DEF Insert, loopVars
  <2>2. CASE ev[e].prio # p
    BY <1>1, <1>2, <1>3, <2>1, <2>2
  <2>3. CASE ev[e].prio = p
    <3>1. queue'[p] = InsertEvent(queue[p], e)
      BY <1>1, <2>1, <2>3
    <3>2. /\ \A f, g : Before(queue[p], f, g) => Before(queue'[p], f, g)
          /\ \A f \in Elems(queue[p]) : ev[f].handle <= ev[e].handle => Before(queue'[p], f, e)
      BY <1>1, <3>1, InsertKeepsBefore DEF IInv, TypeOK
    <3>3. e \notin Elems(queue[p])
      BY <1>2, <2>1
    <3>4. Elems(queue'[p]) = Elems(queue[p]) \cup {e}
      BY <1>1, <3>1, <3>3, InsertElems DEF IInv, TypeOK
    <3>5. \A f \in sending \cap Elems(queue'[p]) : f = e
      BY <1>2, <3>4
    <3> QED
      BY <1>2, <2>1, <3>2, <3>5, AheadIsBefore DEF NoneOvertakes
  <2> QED
    BY <2>2, <2>3
<1>8. CASE Send \/ Tick \/ DistributeEvent \/ \E h \in Handler : Release(h)
  BY <1>4, <1>8 DEF Send, SendEvent, Tick, DistributeEvent, Release, queueVars, loopVars
<1>9. CASE Cancel \/ \E h \in Handler : RemoveOrphan(h)
  BY <1>5, <1>9 DEF Cancel, RemoveAllEvents, RemoveEvent, RemoveTask, RemoveOrphan
<1>10. CASE ReleaseEvent
  <2>1. queue' = queue /\ current' = NoEvent
    BY <1>10 DEF ReleaseEvent
  <2>2. NoEvent \notin Event
    BY DEF ConstantsAssumption
  <2> QED
    BY <1>2, <1>3, <2>1, <2>2
<1>11. CASE GetExpiredEvent
  <2>1. ASSUME NEW i \in Sub, PickEvent(i) PROVE Take(i) /\ i \in Priority /\ queue[i] # <<>>
    BY <2>1, Times DEF PickEvent, Picked, Candidates, NonEmpty
  <2>2. TakeIdleEvent => Take(IDLE) /\ IDLE \in Priority /\ queue[IDLE] # <<>>
    BY Times DEF TakeIdleEvent, IdleEventReady
  <2>3. CASE FindNothing
    BY <1>4, <2>3 DEF FindNothing
  <2> QED
    BY <1>6, <1>11, <2>1, <2>2, <2>3 DEF GetExpiredEvent, FindEvent
<1> QED
  BY <1>7, <1>8, <1>9, <1>10, <1>11 DEF Next, Destroy, Consume

\* With any number of events and senders, stamped outside the lock in any order:
\* within a priority no event passes one that is not later.
THEOREM NoneIsOvertaken == Spec => NoOvertaking
<1>1. IInv /\ [Next]_vars => [\A p \in Priority : NoneOvertakes(p)]_vars
  BY OvertakingStep, ConstantsAssumption
<1> QED
  BY <1>1, QueueInvariant, PTL DEF Spec, NoOvertaking, NoneOvertakes

-----------------------------------------------------------------------------
(* Starvation.  The turns the priorities above p have used, read as a number*)
(* with digits up to MaxHandled, bound the times p was passed over.         *)
Base == MaxHandled + 1
TurnsTaken(p) ==
    <<0, handled[0], handled[0] + handled[1] * Base,
      handled[0] + handled[1] * Base + handled[2] * (Base * Base)>>[p + 1]

TurnsInv == bypassed \in [Sub -> Nat] /\ \A p \in Sub : bypassed[p] <= TurnsTaken(p)

LEMMA LargerDigit ==
    ASSUME NEW u \in Nat, NEW v \in Nat, u > v, NEW c \in Nat
    PROVE  u * c >= v * c + c /\ v * c \in Nat /\ u * c \in Nat
<1>1. PICK d \in Nat : u = v + 1 + d
  <2>1. u - v - 1 \in Nat /\ u = v + 1 + (u - v - 1)
    OBVIOUS
  <2> QED
    BY <2>1
<1>2. u * c = v * c + c + d * c
  BY <1>1
<1>3. d * c \in Nat /\ v * c \in Nat /\ u * c \in Nat
  OBVIOUS
<1> QED
  BY <1>2, <1>3

LEMMA Digits ==
    ASSUME NEW b \in Nat \ {0}, NEW x \in 0..(b - 1), NEW y \in 0..(b - 1), NEW z \in 0..(b - 1)
    PROVE  /\ x < b
           /\ y * b \in Nat /\ x + y * b < b * b
           /\ z * (b * b) \in Nat /\ x + y * b + z * (b * b) < b * b * b
<1>1. b > y /\ b > z /\ b * b \in Nat
  OBVIOUS
<1>2. b * b >= y * b + b /\ y * b \in Nat
  BY <1>1, LargerDigit
<1>3. b * (b * b) >= z * (b * b) + b * b /\ z * (b * b) \in Nat
  BY <1>1, LargerDigit
<1>4. b * (b * b) = b * b * b
  OBVIOUS
<1> QED
  BY <1>1, <1>2, <1>3, <1>4

LEMMA Turns ==
    ASSUME ConstantsAssumption, handled \in [Sub -> 0..MaxHandled]
    PROVE  /\ Base \in Nat \ {0}
           /\ \A i \in Sub : handled[i] \in 0..(Base - 1) /\ handled[i] \in Nat
           /\ TurnsTaken(0) = 0 /\ TurnsTaken(1) = handled[0]
           /\ TurnsTaken(2) = handled[0] + handled[1] * Base
           /\ TurnsTaken(3) = handled[0] + handled[1] * Base + handled[2] * (Base * Base)
           /\ \A p \in Sub : TurnsTaken(p) \in Nat /\ Patience(p) \in Nat /\ TurnsTaken(p) < Patience(p)
<1>1. Base \in Nat \ {0} /\ \A i \in Sub : handled[i] \in 0..(Base - 1)
  BY DEF ConstantsAssumption, Base
<1>2. \A i \in Sub : handled[i] \in Nat
  BY <1>1
<1>3. 0 \in Sub /\ 1 \in Sub /\ 2 \in Sub /\ 3 \in Sub
  BY DEF Sub
<1>4. /\ TurnsTaken(0) = 0 /\ TurnsTaken(1) = handled[0]
      /\ TurnsTaken(2) = handled[0] + handled[1] * Base
      /\ TurnsTaken(3) = handled[0] + handled[1] * Base + handled[2] * (Base * Base)
  BY DEF TurnsTaken
<1>5. /\ Patience(0) = 1 /\ Patience(1) = Base
      /\ Patience(2) = Base * Base /\ Patience(3) = Base * Base * Base
  BY DEF Patience, Base
<1>6. /\ handled[0] < Base
      /\ handled[1] * Base \in Nat /\ handled[0] + handled[1] * Base < Base * Base
      /\ handled[2] * (Base * Base) \in Nat
      /\ handled[0] + handled[1] * Base + handled[2] * (Base * Base) < Base * Base * Base
  BY <1>1, <1>3, Digits
<1>7. Base * Base \in Nat /\ Base * Base * Base \in Nat
  BY <1>1
<1>8. ASSUME NEW p \in Sub
      PROVE  TurnsTaken(p) \in Nat /\ Patience(p) \in Nat /\ TurnsTaken(p) < Patience(p)
  <2>1. p = 0 \/ p = 1 \/ p = 2 \/ p = 3
    BY DEF Sub
  <2> DEFINE a == handled[1] * Base
             d == handled[2] * (Base * Base)
             bb == Base * Base
             bbb == Base * Base * Base
  <2>2. /\ TurnsTaken(2) = handled[0] + a /\ TurnsTaken(3) = handled[0] + a + d
        /\ a \in Nat /\ d \in Nat /\ handled[0] \in Nat /\ bb \in Nat /\ bbb \in Nat
        /\ handled[0] + a < bb /\ handled[0] + a + d < bbb
        /\ Patience(2) = bb /\ Patience(3) = bbb
    BY <1>2, <1>3, <1>4, <1>5, <1>6, <1>7
  <2> HIDE DEF a, d, bb, bbb
  <2> QED
    BY <1>1, <1>4, <1>5, <1>6, <2>1, <2>2
<1> QED
  BY <1>1, <1>2, <1>4, <1>8

(* A lexicographically greater string of digits is a larger number.         *)
LEMMA MoreTurns ==
    ASSUME ConstantsAssumption, handled \in [Sub -> 0..MaxHandled], handled' \in [Sub -> 0..MaxHandled],
           NEW p \in Sub, TurnsUsed(p)
    PROVE  TurnsTaken(p)' >= TurnsTaken(p) + 1
<1> DEFINE b == Base
           x == handled[0]
           y == handled[1]
           z == handled[2]
           u == handled'[0]
           v == handled'[1]
           w == handled'[2]
<1>1. /\ b \in Nat \ {0} /\ TurnsTaken(0) = 0 /\ TurnsTaken(1) = x
      /\ TurnsTaken(2) = x + y * b /\ TurnsTaken(3) = x + y * b + z * (b * b)
      /\ x \in 0..(b - 1) /\ y \in 0..(b - 1) /\ z \in 0..(b - 1)
  BY Turns DEF Sub
<1>2. /\ TurnsTaken(1)' = u /\ TurnsTaken(2)' = u + v * b /\ TurnsTaken(3)' = u + v * b + w * (b * b)
  BY DEF TurnsTaken, Base
<1>3. u \in Nat /\ v \in Nat /\ w \in Nat /\ x \in Nat /\ y \in Nat /\ z \in Nat
  BY Turns DEF Sub, ConstantsAssumption
<1>4. PICK i \in Sub : /\ i < p /\ handled'[i] > handled[i]
                       /\ \A j \in Sub : i < j /\ j < p => handled'[j] = handled[j]
  BY DEF TurnsUsed
<1>5. \/ p = 1 /\ u > x
      \/ p = 2 /\ u > x /\ v = y
      \/ p = 2 /\ v > y
      \/ p = 3 /\ u > x /\ v = y /\ w = z
      \/ p = 3 /\ v > y /\ w = z
      \/ p = 3 /\ w > z
  BY <1>4 DEF Sub
<1> HIDE DEF b, x, y, z, u, v, w
<1>6. x < b /\ x + y * b < b * b /\ y * b \in Nat /\ z * (b * b) \in Nat /\ b * b \in Nat
  BY <1>1, Digits
<1>7. v * b \in Nat /\ w * (b * b) \in Nat /\ (v > y => v * b >= y * b + b)
      /\ (w > z => w * (b * b) >= z * (b * b) + b * b)
  BY <1>1, <1>3, <1>6, LargerDigit
<1> DEFINE yb == y * b
           zb == z * (b * b)
           vb == v * b
           wb == w * (b * b)
           bb == b * b
<1>8. /\ TurnsTaken(1)' = u /\ TurnsTaken(2)' = u + vb /\ TurnsTaken(3)' = u + vb + wb
      /\ TurnsTaken(1) = x /\ TurnsTaken(2) = x + yb /\ TurnsTaken(3) = x + yb + zb
      /\ x < b /\ x + yb < bb /\ b \in Nat
      /\ yb \in Nat /\ zb \in Nat /\ vb \in Nat /\ wb \in Nat /\ bb \in Nat
      /\ (v = y => vb = yb) /\ (w = z => wb = zb)
      /\ (v > y => vb >= yb + b) /\ (w > z => wb >= zb + bb)
  BY <1>1, <1>2, <1>6, <1>7
<1> HIDE DEF yb, zb, vb, wb, bb
<1> QED
  BY <1>3, <1>5, <1>8

(* The turns change only when an event is taken.                            *)
LEMMA TurnsChange ==
    ASSUME Next, ~EventTaken
    PROVE  handled' = handled
BY DEF Next, Send, SendEvent, Insert, Cancel, RemoveAllEvents, RemoveEvent, RemoveTask, RemoveMatching,
       Destroy, Release, RemoveOrphan, Consume, GetExpiredEvent, FindEvent, FindNothing, PickEvent,
       TakeIdleEvent, EnterIdle, Take, DistributeEvent, ReleaseEvent, Tick, pickVars, EventTaken

LEMMA SmallerOfTwo ==
    ASSUME NEW a \in Nat, NEW b \in Nat
    PROVE  Min({a, b}) \in Nat /\ Min({a, b}) <= a
<1>1. \E x \in {a, b} : \A y \in {a, b} : x <= y
  OBVIOUS
<1> QED
  BY <1>1 DEF Min

LEMMA CountStep ==
    ASSUME ConstantsAssumption, IInv, IInv', TurnsInv, Next, Count
    PROVE  TurnsInv'
<1>1. handled \in [Sub -> 0..MaxHandled] /\ handled' \in [Sub -> 0..MaxHandled]
  BY DEF IInv, TypeOK
<1>2. \A p \in Sub : TurnsTaken(p) \in Nat /\ Patience(p) \in Nat
  BY <1>1, Turns
<1>3. \A p \in Sub : TurnsTaken(p)' \in Nat
  <2>1. ASSUME NEW h \in [Sub -> 0..MaxHandled], NEW p \in Sub
        PROVE  <<0, h[0], h[0] + h[1] * Base, h[0] + h[1] * Base + h[2] * (Base * Base)>>[p + 1] \in Nat
    <3>1. h[0] \in Nat /\ h[1] \in Nat /\ h[2] \in Nat /\ Base \in Nat
      BY DEF Sub, ConstantsAssumption, Base
    <3>2. h[1] * Base \in Nat /\ h[2] * (Base * Base) \in Nat
      BY <3>1
    <3>3. p = 0 \/ p = 1 \/ p = 2 \/ p = 3
      BY DEF Sub
    <3> QED
      BY <3>1, <3>2, <3>3
  <2> QED
    BY <1>1, <2>1 DEF TurnsTaken, Base
<1>4. ASSUME NEW p \in Sub PROVE bypassed'[p] \in Nat /\ bypassed'[p] <= TurnsTaken(p)'
  <2>1. bypassed[p] \in Nat /\ bypassed[p] <= TurnsTaken(p)
    BY DEF TurnsInv
  <2>2. CASE ~EventTaken
    <3>1. bypassed'[p] = bypassed[p] /\ TurnsTaken(p)' = TurnsTaken(p)
      BY <2>2, TurnsChange DEF Count, TurnsTaken, Base
    <3> QED
      BY <2>1, <3>1
  <2>3. CASE EventTaken /\ Overdue(p) /\ current' # Head(queue[p])
    <3>1. bypassed'[p] = Min({bypassed[p] + 1, Patience(p)})
      BY <2>3 DEF Count
    <3>2. bypassed'[p] \in Nat /\ bypassed'[p] <= bypassed[p] + 1
      BY <1>2, <2>1, <3>1, SmallerOfTwo
    <3>3. TurnsUsed(p)
      BY <2>3, BypassStep DEF EventTaken
    <3>4. TurnsTaken(p)' >= TurnsTaken(p) + 1
      BY <1>1, <3>3, MoreTurns
    <3> QED
      BY <1>2, <1>3, <2>1, <3>2, <3>4
  <2>4. CASE EventTaken /\ ~(Overdue(p) /\ current' # Head(queue[p]))
    <3>1. bypassed'[p] = 0
      BY <2>4 DEF Count
    <3> QED
      BY <1>3, <3>1
  <2> QED
    BY <2>2, <2>3, <2>4
<1>5. bypassed' = [p \in Sub |-> bypassed'[p]]
  BY DEF Count
<1> QED
  BY <1>4, <1>5 DEF TurnsInv

\* For any MaxHandled, any number of events and any senders: an overdue head of
\* priority p is passed over less than (MaxHandled + 1)^p times in a row.
THEOREM BypassesAreBounded == TurnsSpec => []BypassBounded
<1>1. Init => IInv
  BY InitIInv, ConstantsAssumption
<1>2. Init /\ bypassed = [p \in Sub |-> 0] => TurnsInv
  <2>1. ASSUME Init, bypassed = [p \in Sub |-> 0] PROVE TurnsInv
    <3>1. handled \in [Sub -> 0..MaxHandled]
      BY <1>1, <2>1 DEF IInv, TypeOK
    <3>2. \A p \in Sub : TurnsTaken(p) \in Nat
      BY <3>1, Turns, ConstantsAssumption
    <3> QED
      BY <2>1, <3>2 DEF TurnsInv
  <2> QED
    BY <2>1
<1>3. IInv /\ [Next /\ Count]_turnsVars => IInv'
  BY NextIInv, ConstantsAssumption DEF turnsVars
<1>4. IInv /\ IInv' /\ TurnsInv /\ [Next /\ Count]_turnsVars => TurnsInv'
  <2>1. ASSUME TurnsInv, UNCHANGED turnsVars PROVE TurnsInv'
    BY <2>1 DEF TurnsInv, TurnsTaken, Base, turnsVars, vars, pickVars
  <2> QED
    BY <2>1, CountStep, ConstantsAssumption
<1>5. IInv /\ TurnsInv => BypassBounded
  <2>1. ASSUME IInv, TurnsInv, NEW p \in Sub PROVE bypassed[p] < Patience(p)
    <3>1. TurnsTaken(p) \in Nat /\ Patience(p) \in Nat /\ TurnsTaken(p) < Patience(p)
      BY <2>1, Turns, ConstantsAssumption DEF IInv, TypeOK
    <3> QED
      BY <2>1, <3>1 DEF TurnsInv
  <2> QED
    BY <2>1 DEF BypassBounded
<1> QED
  BY <1>1, <1>2, <1>3, <1>4, <1>5, PTL DEF TurnsSpec

(* The same bound where other modules run the queue: bypassed is a history  *)
(* variable, which may be added to any behaviour and restricts none.        *)
CountsBypasses == bypassed = [p \in Sub |-> 0] /\ [][Count]_turnsVars

LEMMA TurnsInitially ==
    ASSUME ConstantsAssumption, Init, bypassed = [p \in Sub |-> 0]
    PROVE  TurnsInv
<1>1. handled \in [Sub -> 0..MaxHandled]
  BY InitIInv DEF IInv, TypeOK
<1>2. \A p \in Sub : TurnsTaken(p) \in Nat
  BY <1>1, Turns
<1> QED
  BY <1>2 DEF TurnsInv

LEMMA NoTurn ==
    ASSUME TurnsInv, [Count]_turnsVars, ~EventTaken, handled' = handled
    PROVE  TurnsInv'
<1>1. \A p \in Sub : TurnsTaken(p)' = TurnsTaken(p)
  BY DEF TurnsTaken, Base
<1>2. bypassed' = bypassed
  BY DEF Count, turnsVars, TurnsInv
<1> QED
  BY <1>1, <1>2 DEF TurnsInv

LEMMA CountedStep ==
    ASSUME ConstantsAssumption, IInv, IInv', TurnsInv, [Next]_vars, [Count]_turnsVars
    PROVE  TurnsInv'
<1>1. CASE UNCHANGED vars
  BY <1>1, NoTurn DEF vars, pickVars, loopVars, EventTaken
<1>2. CASE Next /\ Count
  BY <1>2, CountStep
<1>3. CASE UNCHANGED turnsVars
  BY <1>1, <1>3 DEF turnsVars
<1> QED
  BY <1>1, <1>2, <1>3

LEMMA TurnsBound ==
    ASSUME ConstantsAssumption, IInv, TurnsInv
    PROVE  BypassBounded
<1>1. ASSUME NEW p \in Sub PROVE bypassed[p] < Patience(p)
  <2>1. TurnsTaken(p) \in Nat /\ Patience(p) \in Nat /\ TurnsTaken(p) < Patience(p)
    BY Turns DEF IInv, TypeOK
  <2> QED
    BY <2>1 DEF TurnsInv
<1> QED
  BY <1>1 DEF BypassBounded

LEMMA CountedBypassesAreBounded == Spec /\ CountsBypasses => []BypassBounded
<1>1. Init /\ bypassed = [p \in Sub |-> 0] => TurnsInv
  BY TurnsInitially, ConstantsAssumption
<1>2. IInv /\ IInv' /\ TurnsInv /\ [Next]_vars /\ [Count]_turnsVars => TurnsInv'
  BY CountedStep, ConstantsAssumption
<1>3. IInv /\ TurnsInv => BypassBounded
  BY TurnsBound, ConstantsAssumption
<1> QED
  BY <1>1, <1>2, <1>3, QueueInvariant, PTL DEF Spec, CountsBypasses
=============================================================================
