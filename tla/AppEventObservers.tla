-------------------------- MODULE AppEventObservers --------------------------
(***************************************************************************)
(* HiAppEvent: writers put an event into AppEventStore and map it to every *)
(* registered watcher (AppEventObserverMgr::HandleEvents); a watcher with  *)
(* onReceive is sent the event, any other counts it and is triggered by    *)
(* its row count or by the manager's periodic WATCHER_TIMEOUT event.       *)
(* Callbacks are tasks of the JS thread, which also adds and removes       *)
(* watchers, takes events through a holder, and clears the store.          *)
(*                                                                         *)
(* A writer holds observerMutex_ from the first of its steps to the last,  *)
(* but each insertion of it is a storeMutex_ section of its own; the JS    *)
(* thread reads and deletes in between.  DeleteData is one step: what its  *)
(* three sections do is not changed by a mapping inserted between them.    *)
(* Whether an event passes a watcher's filters is any choice.  The size    *)
(* condition works as the row condition does and is left out, as are       *)
(* custom parameters, and napi_send_event that fails.                      *)
(* The application context exists, so the running id is not empty.         *)
(***************************************************************************)
EXTENDS Naturals, Sequences, FiniteSets, FiniteSetsExt, SequencesExt

CONSTANTS
    Watcher, NoWatcher,  \* watcher objects, each given to addWatcher once
    Name,
    Receiver,            \* the watchers with onReceive
    Row, Timeout,        \* triggerCond of each; Timeout in steps of TIMEOUT_STEP
    MaxInit,             \* MAX_SIZE_OF_INIT
    MaxEvents            \* bound: events written

Event == 1 .. MaxEvents
Seqs  == 1 .. Cardinality(Watcher)

ASSUME ObserversAssumption ==
    /\ IsFiniteSet(Watcher) /\ NoWatcher \notin Watcher /\ Receiver \subseteq Watcher
    /\ Row \in [Watcher -> Nat] /\ Timeout \in [Watcher -> Nat]
    /\ MaxEvents \in Nat /\ MaxInit \in Nat \ {0}

VARIABLES
    eventMap,         \* eventMap_: an event, an entry without one, or nothing
    lastEvent,        \* g_eventSeq
    mapping,          \* appEventObserverMapping_: the events mapped to each sequence
    observerSeq,      \* appEventObserverMap_: the sequence of each name, 0 if none
    lastSeq,          \* g_observerSeq
    watchers,         \* watchers_
    seqOf,            \* seq_ of each watcher object, 0 before it is added
    row, timeout,     \* currCond_ of each
    hasHandleTimeout, timeouts,  \* the flag, and WATCHER_TIMEOUT events sent and not handled
    handling,         \* HandleEvents between storing and sending: its event, the sequences
                      \* that accept it, and those it is not mapped to yet; it holds observerMutex_
    batch,            \* receiveContext->events of each watcher
    contexts,         \* the watchers whose WatcherContext exists
    tasks,            \* tasks posted to the JS thread
    receiving,        \* the watcher whose onReceive runs
    adding, clearing, \* the JS thread is inside addWatcher or clearData
    aborted,          \* a null event was dereferenced
    owed,             \* history: <<event, sequence>> accepted and not given to the application yet
    overwritten,      \* history: what was owed in a batch replaced before its task ended
    orphans           \* history: <<event, sequence>> whose event DeleteData of another
                      \* sequence, or clearData, took away

storeVars   == <<eventMap, mapping>>
seqVars     == <<observerSeq, lastSeq, seqOf>>
condVars    == <<row, timeout>>
timerVars   == <<hasHandleTimeout, timeouts>>
contextVars == <<batch, contexts, tasks>>
jsVars      == <<receiving, adding, clearing, aborted>>
history     == <<owed, overwritten, orphans>>
vars == <<storeVars, lastEvent, seqVars, watchers, condVars, timerVars, handling,
          contextVars, jsVars, history>>

Task       == [kind : {"receive", "trigger", "delete"}, watcher : Watcher]
NoEvents   == [event |-> 0, seqs |-> {}, unmapped |-> {}]
Registered == {s \in Seqs : watchers[s] # NoWatcher}
IsRegistered(w) == \E s \in Registered : watchers[s] = w

\* observerMutex_ is free; while events are handled it is not.
\* Faulty: nobody waits for it.
IsFree_Always == TRUE

IsFree  == handling = NoEvents
Running == ~aborted

-----------------------------------------------------------------------------
(* AppEventObserver and NapiAppEventWatcher.                               *)

\* MeetNumberCondition.
Meets(value, limit) == limit > 0 /\ value >= limit

HasTimeoutCondition(w, r) == Timeout[w] > 0 /\ r > 0

\* ProcessEvent for n events: how often it triggers, and the row that is left.
Triggers(w, n) == IF Row[w] = 0 THEN 0 ELSE (row[w] + n) \div Row[w]
RowAfter(w, n) == IF Row[w] = 0 THEN row[w] + n ELSE (row[w] + n) % Row[w]

TriggerTask(w) == [kind |-> "trigger", watcher |-> w]
ReceiveTask(w) == [kind |-> "receive", watcher |-> w]
DeleteTask(w)  == [kind |-> "delete", watcher |-> w]

\* A task of w that reads its batch has not ended.
Unfinished(w) == receiving = w \/ \E i \in DOMAIN tasks : tasks[i] = ReceiveTask(w)

\* ~NapiAppEventWatcher: the tasks posted before hold the context's address, so
\* its deletion is a task as well.
\* Faulty: the destructor deletes the context.  Faulty: it cancels the tasks.
Destroy_AtOnce(w) ==
    IF w = NoWatcher THEN UNCHANGED <<tasks, contexts>>
    ELSE contexts' = contexts \ {w} /\ UNCHANGED tasks

Destroy_Cancels(w) ==
    /\ tasks' = SelectSeq(tasks, LAMBDA t : t.watcher # w)
    /\ contexts' = contexts \ {w}

Destroy(w) ==
    /\ tasks' = IF w = NoWatcher THEN tasks ELSE Append(tasks, DeleteTask(w))
    /\ UNCHANGED contexts

-----------------------------------------------------------------------------
(* AppEventStore.                                                          *)

\* The first n events mapped to s, in the order they were mapped; all if n is 0.
Oldest(s, n) ==
    {e \in mapping[s] : n = 0 \/ Cardinality({f \in mapping[s] : f < e}) < n}

\* QueryEvents fails at the first of them that is not there, and leaves an entry
\* without an event for it.
Gone(events)      == {e \in events : eventMap[e] # "event"}
QueryFails(events) == Gone(events) # {}
AfterQuery(events) ==
    IF QueryFails(events) THEN [eventMap EXCEPT ![Min(Gone(events))] = "null"] ELSE eventMap

\* Faulty: the rows of every observer are deleted.
DeleteMapping_OfAll(s, events) == mapping' = [t \in Seqs |-> mapping[t] \ events]

DeleteMapping(s, events) == mapping' = [mapping EXCEPT ![s] = @ \ events]

\* The event is mapped to the sequence, or its writer is about to map it.
BeingMapped(e, s) == e = handling.event /\ s \in handling.unmapped
Needs(s, e) == e \in mapping[s] \/ BeingMapped(e, s)

\* Those that QueryEvents reads for s up to event e, when e itself is mapped.
RowsUpTo(s, e) == {f \in mapping[s] : f <= e} \cup {e}

\* What the sequences lose with these events.
OrphansOf(seqs, events) ==
    {m \in events \X seqs : eventMap[m[1]] = "event" /\ Needs(m[2], m[1])}

\* The events go although other observers may still have rows for them;
\* DeleteUnusedParamsExceptCurId then reads every entry that is left.
DeleteData(s, events) ==
    /\ DeleteMapping(s, events)
    /\ eventMap' = [e \in Event |-> IF e \in events THEN "none" ELSE eventMap[e]]
    /\ aborted' = \E e \in Event \ events : eventMap[e] = "null"
    /\ orphans' = orphans \cup OrphansOf(Seqs \ {s}, events)

-----------------------------------------------------------------------------
(* A writer: HandleEvents, in several steps under observerMutex_.          *)

\* StoreEvents: InsertEvent, for the sequences whose watchers will accept the event;
\* without a watcher it is dropped.
StoreEvent ==
    /\ Running /\ IsFree /\ Registered # {} /\ lastEvent < MaxEvents
    /\ LET e == lastEvent + 1 IN \E accepted \in SUBSET Registered :
        /\ lastEvent' = e
        /\ eventMap' = [eventMap EXCEPT ![e] = "event"]
        /\ owed' = owed \cup {<<e, s>> : s \in accepted}
        /\ handling' = [event |-> e, seqs |-> accepted, unmapped |-> accepted]
    /\ UNCHANGED <<mapping, seqVars, watchers, condVars, timerVars, contextVars, jsVars,
                   overwritten, orphans>>

\* StoreEventMapping of one watcher; an unordered_map says which is next.  The event
\* itself may be gone by now.
InsertEventMapping(s) ==
    /\ Running /\ s \in handling.unmapped
    /\ mapping' = [mapping EXCEPT ![s] = @ \cup {handling.event}]
    /\ handling' = [handling EXCEPT !.unmapped = @ \ {s}]
    /\ UNCHANGED <<eventMap, lastEvent, seqVars, watchers, condVars, timerVars, contextVars,
                   jsVars, history>>

\* SendEventToHandler, if some watcher needs it and the timer does not run yet.
\* Faulty: the flag is not looked at.
StartTimer_Again(needed) ==
    /\ hasHandleTimeout' = (hasHandleTimeout \/ needed)
    /\ timeouts' = IF needed THEN timeouts + 1 ELSE timeouts

StartTimer(needed) ==
    /\ hasHandleTimeout' = (hasHandleTimeout \/ needed)
    /\ timeouts' = IF needed /\ ~hasHandleTimeout THEN timeouts + 1 ELSE timeouts

\* SendEventsToObserver for each observer, in the order of an unordered_map.
SendEvents ==
    LET notified  == {watchers[s] : s \in handling.seqs}
        triggered == {w \in notified \ Receiver : Triggers(w, 1) > 0}
        posted    == {ReceiveTask(w) : w \in notified \cap Receiver} \cup {TriggerTask(w) : w \in triggered}
    IN
    /\ Running /\ ~IsFree /\ handling.unmapped = {}
    /\ row' = [w \in Watcher |-> IF w \in notified \ Receiver THEN RowAfter(w, 1) ELSE row[w]]
    /\ timeout' = [w \in Watcher |-> IF w \in triggered THEN 0 ELSE timeout[w]]
    /\ batch' = [w \in Watcher |-> IF w \in notified \cap Receiver THEN {handling.event} ELSE batch[w]]
    /\ overwritten' = overwritten \cup
           {m \in owed : m[2] \in handling.seqs /\ LET w == watchers[m[2]] IN
                            m[1] \in batch[w] /\ Unfinished(w)}
    /\ \E order \in SetToSeqs(posted) : tasks' = tasks \o order
    /\ StartTimer(\E s \in Registered : HasTimeoutCondition(watchers[s], row'[watchers[s]]))
    /\ handling' = NoEvents
    /\ UNCHANGED <<storeVars, lastEvent, seqVars, watchers, contexts, jsVars, owed, orphans>>

-----------------------------------------------------------------------------
(* The thread of AppEventHandler.                                          *)

\* Faulty: the watchers that still wait are not looked at.
KeepTimer_Never(needed) == timeouts' = timeouts - 1 /\ UNCHANGED hasHandleTimeout

KeepTimer(needed) ==
    /\ timeouts' = IF needed THEN timeouts ELSE timeouts - 1
    /\ hasHandleTimeout' = (hasHandleTimeout /\ needed)

\* ProcessTimeout of each watcher.  The time counted stops at the limit.
HandleTimeout ==
    LET observed == {watchers[s] : s \in Registered}
        elapsed(w) == Min({timeout[w] + 1, Timeout[w]})
        triggered == {w \in observed : Meets(elapsed(w), Timeout[w]) /\ row[w] > 0}
    IN
    /\ Running /\ IsFree /\ timeouts > 0
    /\ timeout' = [w \in Watcher |-> IF w \in triggered THEN 0
                                     ELSE IF w \in observed THEN elapsed(w) ELSE timeout[w]]
    /\ row' = [w \in Watcher |-> IF w \in triggered THEN 0 ELSE row[w]]
    /\ \E order \in SetToSeqs({TriggerTask(w) : w \in triggered}) : tasks' = tasks \o order
    /\ KeepTimer(\E w \in observed : HasTimeoutCondition(w, row'[w]))
    /\ UNCHANGED <<storeVars, lastEvent, seqVars, watchers, handling, batch, contexts, jsVars, history>>

-----------------------------------------------------------------------------
(* The JS thread: interface calls, also from within a callback.            *)

JsFree == Running /\ adding = NoWatcher /\ ~clearing

\* RegisterObserver, InitWatcher: a new name gets a sequence ...
AddNewName(w, n) ==
    /\ JsFree /\ seqOf[w] = 0 /\ observerSeq[n] = 0
    /\ lastSeq' = lastSeq + 1
    /\ observerSeq' = [observerSeq EXCEPT ![n] = lastSeq + 1]
    /\ seqOf' = [seqOf EXCEPT ![w] = lastSeq + 1]
    /\ contexts' = contexts \cup {w} /\ adding' = w
    /\ UNCHANGED <<storeVars, lastEvent, watchers, condVars, timerVars, handling, batch, tasks,
                   receiving, clearing, aborted, history>>

\* ... and a known one has its old events sent to the new watcher.
AddKnownName(w, n) ==
    LET s   == observerSeq[n]
        old == Oldest(s, MaxInit)
    IN
    /\ JsFree /\ seqOf[w] = 0 /\ s # 0
    /\ eventMap' = AfterQuery(old)
    /\ seqOf' = [seqOf EXCEPT ![w] = s]
    /\ contexts' = contexts \cup {w} /\ adding' = w
    /\ \E accepted \in SUBSET (IF QueryFails(old) THEN {} ELSE old) :
         IF w \in Receiver THEN
            /\ batch' = [batch EXCEPT ![w] = accepted]
            /\ tasks' = IF accepted = {} THEN tasks ELSE Append(tasks, ReceiveTask(w))
            /\ UNCHANGED row
         ELSE
            /\ row' = [row EXCEPT ![w] = RowAfter(w, Cardinality(accepted))]
            /\ tasks' = tasks \o [i \in 1 .. Triggers(w, Cardinality(accepted)) |-> TriggerTask(w)]
            /\ UNCHANGED batch
    /\ UNCHANGED <<mapping, lastEvent, observerSeq, lastSeq, watchers, timeout, timerVars, handling,
                   receiving, clearing, aborted, history>>

\* The new watcher takes the place of one with the same name.
RegisterObserver(w) ==
    /\ Running /\ adding = w /\ w # NoWatcher /\ IsFree
    /\ watchers' = [watchers EXCEPT ![seqOf[w]] = w]
    /\ Destroy(watchers[seqOf[w]])
    /\ adding' = NoWatcher
    /\ UNCHANGED <<storeVars, lastEvent, seqVars, condVars, timerVars, handling, batch, receiving,
                   clearing, aborted, history>>

\* UnregisterObserver; rows of the sequence stay in the mapping.
RemoveWatcher(n) ==
    LET s == observerSeq[n] IN
    /\ JsFree /\ IsFree /\ s # 0
    /\ observerSeq' = [observerSeq EXCEPT ![n] = 0]
    /\ watchers' = [watchers EXCEPT ![s] = NoWatcher]
    /\ Destroy(watchers[s])
    /\ UNCHANGED <<storeVars, lastEvent, lastSeq, seqOf, condVars, timerVars, handling, batch,
                   jsVars, history>>

\* NapiAppEventHolder::TakeNext of a holder of s: a number of rows is queried and
\* taken, or all are queried and those taken that fit the size.
TakeNext(s) == \E k \in Event :
    LET taken == Oldest(s, k) IN
    /\ JsFree /\ s <= lastSeq /\ mapping[s] # {}
    /\ \E queried \in {taken, mapping[s]} :
        \/ /\ QueryFails(queried)
           /\ eventMap' = AfterQuery(queried)
           /\ UNCHANGED <<mapping, aborted, owed, orphans>>
        \/ /\ ~QueryFails(queried)
           /\ DeleteData(s, taken)
           /\ owed' = owed \ (taken \X {s})
    /\ UNCHANGED <<lastEvent, seqVars, watchers, condVars, timerVars, handling, contextVars,
                   receiving, adding, clearing, overwritten>>

\* ClearData: HandleClearUp, then the store.  DeleteEventMapping() without
\* arguments deletes no row.
HandleClearUp ==
    /\ JsFree /\ IsFree
    /\ row' = [w \in Watcher |-> IF IsRegistered(w) THEN 0 ELSE row[w]]
    /\ timeout' = [w \in Watcher |-> IF IsRegistered(w) THEN 0 ELSE timeout[w]]
    /\ clearing' = TRUE
    /\ UNCHANGED <<storeVars, lastEvent, seqVars, watchers, timerVars, handling, contextVars,
                   receiving, adding, aborted, history>>

ClearAllData ==
    /\ Running /\ clearing
    /\ eventMap' = [e \in Event |-> "none"]
    /\ orphans' = orphans \cup OrphansOf(Seqs, Event)
    /\ clearing' = FALSE
    /\ UNCHANGED <<mapping, lastEvent, seqVars, watchers, condVars, timerVars, handling, contextVars,
                   receiving, adding, aborted, owed, overwritten>>

-----------------------------------------------------------------------------
(* The JS thread: posted tasks.                                            *)

\* onReceiveWork up to the call of onReceive, onTriggerWork, or the deletion.
RunTask ==
    /\ JsFree /\ receiving = NoWatcher /\ tasks # <<>>
    /\ LET t == Head(tasks) w == t.watcher IN
        /\ receiving' = IF t.kind = "receive" THEN w ELSE NoWatcher
        /\ owed' = IF t.kind = "receive" THEN owed \ (batch[w] \X {seqOf[w]}) ELSE owed
        /\ contexts' = IF t.kind = "delete" THEN contexts \ {w} ELSE contexts
    /\ tasks' = Tail(tasks)
    /\ UNCHANGED <<storeVars, lastEvent, seqVars, watchers, condVars, timerVars, handling, batch,
                   adding, clearing, aborted, overwritten, orphans>>

\* onReceiveWork after the call: the context is read again, and deletes nothing if
\* the callback threw.
FinishReceive ==
    /\ JsFree /\ receiving # NoWatcher
    /\ \/ DeleteData(seqOf[receiving], batch[receiving])
       \/ UNCHANGED <<storeVars, aborted, orphans>>
    /\ receiving' = NoWatcher
    /\ UNCHANGED <<lastEvent, seqVars, watchers, condVars, timerVars, handling, contextVars,
                   adding, clearing, owed, overwritten>>

-----------------------------------------------------------------------------
Init ==
    /\ eventMap = [e \in Event |-> "none"] /\ lastEvent = 0
    /\ mapping = [s \in Seqs |-> {}]
    /\ observerSeq = [n \in Name |-> 0] /\ lastSeq = 0 /\ seqOf = [w \in Watcher |-> 0]
    /\ watchers = [s \in Seqs |-> NoWatcher]
    /\ row = [w \in Watcher |-> 0] /\ timeout = [w \in Watcher |-> 0]
    /\ hasHandleTimeout = FALSE /\ timeouts = 0
    /\ handling = NoEvents
    /\ batch = [w \in Watcher |-> {}] /\ contexts = {} /\ tasks = <<>>
    /\ receiving = NoWatcher /\ adding = NoWatcher /\ clearing = FALSE /\ aborted = FALSE
    /\ owed = {} /\ overwritten = {} /\ orphans = {}

HandleEvents == StoreEvent \/ SendEvents \/ \E s \in Seqs : InsertEventMapping(s)
AddWatcher(w) == RegisterObserver(w) \/ \E n \in Name : AddNewName(w, n) \/ AddKnownName(w, n)
ClearData == HandleClearUp \/ ClearAllData
RunTasks == RunTask \/ FinishReceive

Next ==
    \/ HandleEvents \/ HandleTimeout \/ ClearData \/ RunTasks
    \/ \E w \in Watcher : AddWatcher(w)
    \/ \E n \in Name : RemoveWatcher(n)
    \/ \E s \in Seqs : TakeNext(s)

Spec == Init /\ [][Next]_vars

(* A writer that has stored an event maps and sends it, the handler's thread runs the *)
(* timer event, and the JS thread returns from its calls.  Interface calls    *)
(* are made by the JS thread's own tasks and callbacks, each of which ends:   *)
(* however many calls there are, it comes back to its tasks, which takes SF.  *)
(* Nobody has to write, add, remove, take or clear.                          *)
Fairness ==
    /\ WF_vars(SendEvents \/ \E s \in Seqs : InsertEventMapping(s)) /\ WF_vars(HandleTimeout) /\ SF_vars(RunTasks)
    /\ WF_vars(ClearAllData \/ \E w \in Watcher : RegisterObserver(w))

FairSpec == Spec /\ Fairness

-----------------------------------------------------------------------------
StoreTypeOK ==
    /\ eventMap \in [Event -> {"none", "event", "null"}] /\ lastEvent \in 0 .. MaxEvents
    /\ mapping \in [Seqs -> SUBSET (1 .. lastEvent)]
    /\ batch \in [Watcher -> SUBSET (1 .. lastEvent)]
    /\ owed \subseteq (1 .. lastEvent) \X Seqs /\ overwritten \subseteq (1 .. lastEvent) \X Seqs
    /\ orphans \subseteq (1 .. lastEvent) \X Seqs

SequenceTypeOK ==
    /\ lastSeq \in 0 .. Cardinality(Watcher)
    /\ observerSeq \in [Name -> 0 .. lastSeq] /\ seqOf \in [Watcher -> 0 .. lastSeq]
    /\ watchers \in [Seqs -> Watcher \cup {NoWatcher}]
    /\ \A s \in Registered : seqOf[watchers[s]] = s

ConditionTypeOK ==
    /\ row \in [Watcher -> Nat] /\ timeout \in [Watcher -> Nat]
    /\ hasHandleTimeout \in BOOLEAN /\ timeouts \in Nat

ThreadTypeOK ==
    /\ handling \in [event : 0 .. lastEvent, seqs : SUBSET Registered, unmapped : SUBSET handling.seqs]
    /\ IsFree \/ handling.event > 0
    /\ contexts \subseteq Watcher /\ tasks \in Seq(Task)
    /\ receiving \in Watcher \cup {NoWatcher} /\ adding \in Watcher \cup {NoWatcher}
    /\ clearing \in BOOLEAN /\ aborted \in BOOLEAN

\* The types; rows, batches and what is owed are about events that were written, a
\* registered watcher knows its sequence, and none goes while events are sent to it.
ObserversTypeOK == StoreTypeOK /\ SequenceTypeOK /\ ConditionTypeOK /\ ThreadTypeOK

\* hasHandleTimeout_ (app_event_observer_mgr.h) says whether a WATCHER_TIMEOUT event is
\* on its way, and there is never a second one: two would let the time of every
\* watcher run twice as fast, none would stop it for good.
OneTimer == timeouts = IF hasHandleTimeout THEN 1 ELSE 0

\* Posted tasks hold the address of a context, and the watcher that owns it may be
\* removed, replaced, or removed by its own callback while they wait: the context is
\* there for each of them, and nothing is posted behind its deletion.
ContextsOutliveTasks ==
    /\ receiving # NoWatcher => receiving \in contexts
    /\ \A i \in DOMAIN tasks : tasks[i].watcher \in contexts
    /\ \A i, j \in DOMAIN tasks :
         tasks[i].kind = "delete" /\ i < j => tasks[i].watcher # tasks[j].watcher

\* An event that a sequence accepted and whose application has not been given it still
\* waits for it: it is mapped, or about to be, and QueryEvents reaches it, as every event
\* mapped before it is there ("send old events to watcher where init",
\* app_event_observer_mgr.cpp:102; a holder takes them the same way); or it is in a batch
\* whose task has not ended.  It waits in vain for one of three reasons only: a second OnEvents
\* replaced its batch; it, or one mapped before it, was deleted for another sequence; or
\* was deleted by clearData.  All of it is about a sequence: a name that is removed and
\* added again gets another one, and the rows of the old one only serve its old holders.
EventsWaitForTheirObserver == \A m \in owed : LET e == m[1] s == m[2] IN
    \/ /\ Needs(s, e)
       /\ \A f \in RowsUpTo(s, e) : eventMap[f] = "event" \/ <<f, s>> \in orphans
    \/ \E w \in Watcher : seqOf[w] = s /\ e \in batch[w] /\ Unfinished(w)
    \/ m \in overwritten

\* A watcher that counts events and has a timeout condition is triggered, whatever
\* other watchers do, once the timer runs for it.
TimeoutTriggers == \A w \in Watcher \ Receiver :
    (IsRegistered(w) /\ HasTimeoutCondition(w, row[w]) /\ hasHandleTimeout)
        ~> (~IsRegistered(w) \/ row[w] = 0 \/ aborted)

\* The events in a posted batch reach onReceive, though the watcher be removed in the
\* meantime, unless newer events replace them.
LastBatchIsReceived == \A w \in Receiver, e \in Event :
    (e \in batch[w] /\ Unfinished(w)) ~> (e \notin batch[w] \/ <<e, seqOf[w]>> \notin owed \/ aborted)

-----------------------------------------------------------------------------
\* "delete events not in event mapping" (app_event_observer_mgr.cpp:142): when the rows of
\* a received event are deleted for one registered watcher and another still has its row,
\* the event stays.
OnlyUnmappedEventsAreDeleted ==
    [][\A e \in Event, s, t \in Registered :
        s # t /\ e \in mapping[s] \ mapping'[s] /\ e \in mapping'[t] /\ eventMap[e] = "event"
        => eventMap'[e] = "event"]_vars
=============================================================================
