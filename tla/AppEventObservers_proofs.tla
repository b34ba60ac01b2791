---------------------- MODULE AppEventObservers_proofs ----------------------
(***************************************************************************)
(* The safety of AppEventObservers for every set of watchers and names,    *)
(* every condition and number of events: its types, the single timer event,*)
(* that a context outlives the tasks that use it, the three ways in which  *)
(* an event is lost to a watcher, that no condition stands met, and what   *)
(* alone lets the timer rest or a null entry be dereferenced.              *)
(***************************************************************************)
EXTENDS AppEventObservers, FiniteSetTheorems, SequenceTheorems, WellFoundedInduction, TLAPS

USE ObserversAssumption

Added == {w \in Watcher : seqOf[w] # 0}

\* Every sequence that was given out was given to a watcher of its own.
TypeInv ==
    /\ ObserversTypeOK
    /\ lastSeq <= Cardinality(Added)
    /\ adding \in Added \cup {NoWatcher}

-----------------------------------------------------------------------------
LEMMA SeqsAreNatural == Cardinality(Watcher) \in Nat /\ Seqs \subseteq Nat \ {0}
BY FS_CardinalityType DEF Seqs

LEMMA AddedIsFinite == IsFiniteSet(Added) /\ Cardinality(Added) <= Cardinality(Watcher)
                       /\ Cardinality(Added) \in Nat
BY FS_Subset, FS_CardinalityType DEF Added

LEMMA MinOfTwo == \A a, b \in Nat : Min({a, b}) \in Nat
<1> SUFFICES ASSUME NEW a \in Nat, NEW b \in Nat PROVE Min({a, b}) \in {a, b}
    OBVIOUS
<1>1. \E x \in {a, b} : \A y \in {a, b} : x =< y
    OBVIOUS
<1> QED
    BY <1>1 DEF Min

(* The first event that a query misses is one of them.                        *)
LEMMA LeastNumber ==
    ASSUME NEW T \in SUBSET Nat, T # {} PROVE \E t \in T : \A u \in T : t <= u
<1>1. PICK t \in T : \A u \in T : ~(<<u, t>> \in OpToRel(<, Nat))
    BY NatLessThanWellFounded, WFMin
<1>2. \A u \in T : u \in Nat /\ t \in Nat /\ ~(u < t)
    BY <1>1 DEF OpToRel
<1> QED
    BY <1>2

(* Any order of a task for each watcher is a sequence of tasks. *)
LEMMA OneTaskEach ==
    ASSUME NEW W \in SUBSET Watcher, NEW k \in {"receive", "trigger", "delete"}
    PROVE  IsFiniteSet({[kind |-> k, watcher |-> w] : w \in W})
<1> DEFINE T == {[kind |-> k, watcher |-> w] : w \in W}
           f == [w \in W |-> [kind |-> k, watcher |-> w]]
<1>1. f \in Surjection(W, T)
    BY DEF Surjection
<1>2. IsFiniteSet(W)
    BY FS_Subset
<1> QED
    BY <1>1, <1>2, FS_Surjection

LEMMA OrdersAreSequences ==
    ASSUME NEW S \in SUBSET Task, IsFiniteSet(S), NEW order \in SetToSeqs(S)
    PROVE  order \in Seq(Task) /\ \A i \in DOMAIN order : order[i] \in S
<1>1. Cardinality(S) \in Nat
    BY FS_CardinalityType
<1>2. order \in [1 .. Cardinality(S) -> S]
    BY DEF SetToSeqs
<1>3. order \in Seq(S)
    BY <1>1, <1>2
<1> QED
    BY <1>2, <1>3, SeqMonotonic

LEMMA RowIsNatural ==
    ASSUME row \in [Watcher -> Nat], NEW w \in Watcher, NEW n \in Nat
    PROVE  RowAfter(w, n) \in Nat /\ Triggers(w, n) \in Nat
<1>1. Row[w] \in Nat /\ row[w] + n \in Nat
    OBVIOUS
<1>2. \A a, b \in Nat : b # 0 => a % b \in Nat /\ a \div b \in Nat
    OBVIOUS
<1> QED
    BY <1>1, <1>2 DEF RowAfter, Triggers

LEMMA OldestIsFinite ==
    ASSUME StoreTypeOK, NEW s \in Seqs, NEW n,
           NEW accepted \in SUBSET Oldest(s, n)
    PROVE  IsFiniteSet(accepted) /\ Cardinality(accepted) \in Nat
<1>1. mapping[s] \in SUBSET (1 .. lastEvent) /\ lastEvent \in Int
    BY DEF StoreTypeOK
<1>2. accepted \in SUBSET (1 .. lastEvent)
    BY <1>1 DEF Oldest
<1>3. IsFiniteSet(1 .. lastEvent)
    BY <1>1, FS_Interval
<1>4. IsFiniteSet(accepted)
    BY <1>2, <1>3, FS_Subset
<1> QED
    BY <1>4, FS_CardinalityType

LEMMA DestroyPosts ==
    ASSUME tasks \in Seq(Task), NEW w \in Watcher \cup {NoWatcher}, Destroy(w)
    PROVE  tasks' \in Seq(Task) /\ UNCHANGED contexts
<1>1. w \in Watcher => DeleteTask(w) \in Task
    BY DEF DeleteTask, Task
<1> QED
    BY <1>1 DEF Destroy

-----------------------------------------------------------------------------
(* What OnEvents and OnTrigger post for the watchers that are notified.      *)
LEMMA PostedTasks ==
    ASSUME NEW R \in SUBSET Watcher, NEW T \in SUBSET Watcher,
           NEW order \in SetToSeqs({ReceiveTask(w) : w \in R} \cup {TriggerTask(w) : w \in T})
    PROVE  /\ order \in Seq(Task)
           /\ \A i \in DOMAIN order : order[i].kind # "delete" /\ order[i].watcher \in R \cup T
<1> DEFINE receive == {ReceiveTask(w) : w \in R}
           trigger == {TriggerTask(w) : w \in T}
<1>1. IsFiniteSet(receive) /\ IsFiniteSet(trigger)
    BY OneTaskEach DEF ReceiveTask, TriggerTask
<1>2. IsFiniteSet(receive \cup trigger)
    BY <1>1, FS_Union
<1>3. receive \cup trigger \subseteq Task
    BY DEF ReceiveTask, TriggerTask, Task
<1>4. order \in Seq(Task) /\ \A i \in DOMAIN order : order[i] \in receive \cup trigger
    BY <1>2, <1>3, OrdersAreSequences
<1> QED
    BY <1>4 DEF ReceiveTask, TriggerTask

LEMMA TypeInit == Init => TypeInv
<1> SUFFICES ASSUME Init PROVE TypeInv
    OBVIOUS
<1>1. Registered = {} /\ NoEvents \in [event : 0 .. 0, seqs : {{}}, unmapped : {{}}]
    BY DEF Init, Registered, NoEvents
<1>2. StoreTypeOK
    BY DEF Init, StoreTypeOK
<1>3. SequenceTypeOK
    BY <1>1, SeqsAreNatural DEF Init, SequenceTypeOK
<1>4. ConditionTypeOK
    BY DEF Init, ConditionTypeOK
<1>5. ThreadTypeOK
    BY <1>1, EmptySeq DEF Init, ThreadTypeOK, IsFree, NoEvents
<1> QED
    BY <1>2, <1>3, <1>4, <1>5, AddedIsFinite DEF Init, TypeInv, ObserversTypeOK

LEMMA MappedWereWritten ==
    ASSUME StoreTypeOK, ThreadTypeOK, NEW s \in Seqs, NEW e, Needs(s, e)
    PROVE  e \in 1 .. lastEvent
<1>1. CASE e \in mapping[s]
    BY <1>1 DEF StoreTypeOK
<1>2. CASE BeingMapped(e, s)
  <2>1. handling # NoEvents /\ handling.event \in 0 .. lastEvent
    BY <1>2 DEF BeingMapped, NoEvents, ThreadTypeOK
  <2> QED
    BY <1>2, <2>1 DEF BeingMapped, ThreadTypeOK, IsFree, StoreTypeOK
<1> QED
    BY <1>1, <1>2 DEF Needs

(* What is stored and in a batch: only writing, asking and deleting change it. *)
LEMMA StoreStep == TypeInv /\ [Next]_vars => StoreTypeOK'
<1> SUFFICES ASSUME TypeInv, [Next]_vars PROVE StoreTypeOK'
    OBVIOUS
<1> USE DEF StoreTypeOK
<1>0. StoreTypeOK /\ SequenceTypeOK /\ ThreadTypeOK
    BY DEF TypeInv, ObserversTypeOK
<1>1. CASE StoreEvent
    BY <1>0, <1>1 DEF StoreEvent, contextVars, Registered, Event, SequenceTypeOK
<1>2. CASE SendEvents
    BY <1>0, <1>2 DEF SendEvents, storeVars, ThreadTypeOK
<1>16. ASSUME NEW s \in Seqs, InsertEventMapping(s) PROVE StoreTypeOK'
  <2>1. handling.event \in 1 .. lastEvent
    <3>1. handling # NoEvents /\ handling.event \in 0 .. lastEvent
        BY <1>0, <1>16 DEF InsertEventMapping, NoEvents, ThreadTypeOK
    <3> QED
        BY <1>0, <3>1 DEF ThreadTypeOK, IsFree
  <2> QED
    BY <1>0, <1>16, <2>1 DEF InsertEventMapping, contextVars, history
<1>3. CASE ClearAllData
  <2>1. OrphansOf(Seqs, Event) \subseteq (1 .. lastEvent) \X Seqs
    BY <1>0, MappedWereWritten DEF OrphansOf
  <2> QED
    BY <1>0, <1>3, <2>1 DEF ClearAllData, contextVars
<1>4. ASSUME NEW events \in SUBSET (1 .. lastEvent), NEW s, DeleteData(s, events)
      PROVE  /\ eventMap' \in [Event -> {"none", "event", "null"}]
             /\ mapping' \in [Seqs -> SUBSET (1 .. lastEvent)]
             /\ orphans' \subseteq (1 .. lastEvent) \X Seqs
    BY <1>0, <1>4 DEF DeleteData, DeleteMapping, Event, OrphansOf
<1>5. CASE FinishReceive
  <2>1. batch[receiving] \in SUBSET (1 .. lastEvent)
    BY <1>0, <1>5 DEF FinishReceive, ThreadTypeOK
  <2> QED
    BY <1>0, <1>4, <1>5, <2>1 DEF FinishReceive, storeVars, contextVars
<1>6. \A events : AfterQuery(events) \in [Event -> {"none", "event", "null"}]
    BY <1>0 DEF AfterQuery
<1>7. \A s \in Seqs : \A n : Oldest(s, n) \in SUBSET (1 .. lastEvent)
    BY <1>0 DEF Oldest
<1>8. ASSUME NEW s \in Seqs, TakeNext(s) PROVE StoreTypeOK'
  <2>1. PICK k, queried :
            \/ eventMap' = AfterQuery(queried) /\ UNCHANGED <<mapping, aborted, owed, orphans>>
            \/ DeleteData(s, Oldest(s, k)) /\ owed' = owed \ (Oldest(s, k) \X {s})
    BY <1>8 DEF TakeNext
  <2>2. UNCHANGED <<lastEvent, batch, overwritten>>
    BY <1>8 DEF TakeNext, contextVars
  <2>3. CASE eventMap' = AfterQuery(queried) /\ UNCHANGED <<mapping, aborted, owed, orphans>>
    BY <1>0, <1>6, <2>2, <2>3
  <2>4. CASE DeleteData(s, Oldest(s, k)) /\ owed' = owed \ (Oldest(s, k) \X {s})
    BY <1>0, <1>4, <1>7, <2>2, <2>4
  <2> QED
    BY <2>1, <2>3, <2>4
<1>9. ASSUME NEW w \in Watcher, NEW n \in Name, AddKnownName(w, n) PROVE StoreTypeOK'
  <2>1. observerSeq[n] \in Seqs
    BY <1>0, <1>9, SeqsAreNatural DEF AddKnownName, SequenceTypeOK, Seqs
  <2>2. Oldest(observerSeq[n], MaxInit) \in SUBSET (1 .. lastEvent)
    BY <1>7, <2>1
  <2>3. PICK accepted \in SUBSET Oldest(observerSeq[n], MaxInit) :
            batch' = batch \/ batch' = [batch EXCEPT ![w] = accepted]
    BY <1>9 DEF AddKnownName
  <2>4. /\ eventMap' = AfterQuery(Oldest(observerSeq[n], MaxInit))
        /\ UNCHANGED <<lastEvent, mapping, history>>
    BY <1>9 DEF AddKnownName, history
  <2> QED
    BY <1>0, <1>6, <2>2, <2>3, <2>4 DEF history
<1>10. CASE RunTask
    BY <1>0, <1>10 DEF RunTask, storeVars
<1>11. CASE UNCHANGED <<storeVars, lastEvent, batch, history>>
    BY <1>0, <1>11 DEF storeVars, history
<1>12. CASE HandleTimeout \/ HandleClearUp \/ UNCHANGED vars
    BY <1>11, <1>12 DEF HandleTimeout, HandleClearUp, vars, contextVars
<1>13. ASSUME NEW w \in Watcher, RegisterObserver(w) PROVE StoreTypeOK'
    BY <1>11, <1>13 DEF RegisterObserver
<1>14. ASSUME NEW w \in Watcher, NEW n \in Name, AddNewName(w, n) PROVE StoreTypeOK'
    BY <1>11, <1>14 DEF AddNewName
<1>15. ASSUME NEW n \in Name, RemoveWatcher(n) PROVE StoreTypeOK'
    BY <1>11, <1>15 DEF RemoveWatcher
<1> QED
    BY <1>1, <1>2, <1>3, <1>5, <1>8, <1>9, <1>10, <1>12, <1>13, <1>14, <1>15, <1>16
    DEF Next, HandleEvents, ClearData, RunTasks, AddWatcher

(* The sequences: a new name gets one that no watcher has, so that there are *)
(* never more of them than watchers.                                         *)
LEMMA SequenceStep ==
    TypeInv /\ [Next]_vars
        => SequenceTypeOK' /\ lastSeq' <= Cardinality(Added') /\ adding' \in Added' \cup {NoWatcher}
<1> DEFINE Good == /\ SequenceTypeOK /\ lastSeq <= Cardinality(Added)
                   /\ adding \in Added \cup {NoWatcher}
<1> SUFFICES ASSUME TypeInv, [Next]_vars PROVE Good'
    OBVIOUS
<1> USE DEF SequenceTypeOK, Registered
<1>0. Good
    BY DEF TypeInv, ObserversTypeOK
<1>1. CASE UNCHANGED <<seqVars, watchers>> /\ adding' \in {adding, NoWatcher}
    BY <1>0, <1>1 DEF seqVars, Added
<1>2. CASE StoreEvent \/ SendEvents \/ (\E s \in Seqs : InsertEventMapping(s)) \/ HandleTimeout
           \/ HandleClearUp \/ ClearAllData \/ RunTask \/ FinishReceive \/ UNCHANGED vars
    BY <1>1, <1>2 DEF StoreEvent, SendEvents, InsertEventMapping, HandleTimeout, HandleClearUp, ClearAllData,
       RunTask, FinishReceive, vars, jsVars
<1>3. ASSUME NEW w \in Watcher, RegisterObserver(w) PROVE Good'
  <2>1. UNCHANGED seqVars /\ adding' = NoWatcher /\ adding = w
    BY <1>3 DEF RegisterObserver
  <2>2. seqOf[w] \in Seqs
    BY <1>0, <2>1, SeqsAreNatural DEF Added, Seqs
  <2>3. watchers' = [watchers EXCEPT ![seqOf[w]] = w]
    BY <1>3 DEF RegisterObserver
  <2> QED
    BY <1>0, <2>1, <2>2, <2>3 DEF seqVars, Added
<1>4. ASSUME NEW w \in Watcher, NEW n \in Name, AddNewName(w, n) PROVE Good'
  <2>1. /\ seqOf[w] = 0 /\ lastSeq' = lastSeq + 1 /\ UNCHANGED watchers /\ adding' = w
        /\ observerSeq' = [observerSeq EXCEPT ![n] = lastSeq + 1]
        /\ seqOf' = [seqOf EXCEPT ![w] = lastSeq + 1]
    BY <1>4 DEF AddNewName
  <2>2. Added' = Added \cup {w} /\ w \notin Added
    BY <1>0, <2>1 DEF Added
  <2>3. Cardinality(Added') = Cardinality(Added) + 1
    BY <2>2, AddedIsFinite, FS_AddElement
  <2>4. Cardinality(Added') <= Cardinality(Watcher) /\ Cardinality(Added) \in Nat
    BY <2>2, AddedIsFinite, FS_Subset DEF Added
  <2>5. lastSeq' \in 0 .. Cardinality(Watcher) /\ lastSeq' <= Cardinality(Added')
    BY <1>0, <2>1, <2>3, <2>4, SeqsAreNatural
  <2>6. observerSeq' \in [Name -> 0 .. lastSeq'] /\ seqOf' \in [Watcher -> 0 .. lastSeq']
    BY <1>0, <2>1
  <2>7. \A s \in Registered' : seqOf'[watchers'[s]] = s
    BY <1>0, <2>1, SeqsAreNatural
  <2> QED
    BY <1>0, <2>1, <2>2, <2>5, <2>6, <2>7
<1>5. ASSUME NEW w \in Watcher, NEW n \in Name, AddKnownName(w, n) PROVE Good'
  <2>1. /\ seqOf[w] = 0 /\ UNCHANGED <<lastSeq, observerSeq, watchers>> /\ adding' = w
        /\ observerSeq[n] # 0 /\ seqOf' = [seqOf EXCEPT ![w] = observerSeq[n]]
    BY <1>5 DEF AddKnownName
  <2>2. Added' = Added \cup {w}
    BY <1>0, <2>1 DEF Added
  <2>3. Cardinality(Added') = IF w \in Added THEN Cardinality(Added) ELSE Cardinality(Added) + 1
    BY <2>2, AddedIsFinite, FS_AddElement
  <2>4. \A s \in Registered' : seqOf'[watchers'[s]] = s
    BY <1>0, <2>1, SeqsAreNatural
  <2> QED
    BY <1>0, <2>1, <2>2, <2>3, <2>4, AddedIsFinite
<1>6. ASSUME NEW n \in Name, RemoveWatcher(n) PROVE Good'
  <2>1. /\ observerSeq' = [observerSeq EXCEPT ![n] = 0] /\ UNCHANGED <<lastSeq, seqOf, adding>>
        /\ watchers' = [watchers EXCEPT ![observerSeq[n]] = NoWatcher]
    BY <1>6 DEF RemoveWatcher, jsVars
  <2>2. Added' = Added
    BY <2>1 DEF Added
  <2>3. watchers' \in [Seqs -> Watcher \cup {NoWatcher}]
    BY <1>0, <2>1
  <2>4. \A s \in Registered' : seqOf'[watchers'[s]] = s
    BY <1>0, <2>1
  <2>5. observerSeq' \in [Name -> 0 .. lastSeq']
    BY <1>0, <2>1
  <2> QED
    BY <1>0, <2>1, <2>2, <2>3, <2>4, <2>5
<1>7. ASSUME NEW s \in Seqs, TakeNext(s) PROVE Good'
    BY <1>1, <1>7 DEF TakeNext
<1> QED
    BY <1>2, <1>3, <1>4, <1>5, <1>6, <1>7 DEF Next, HandleEvents, ClearData, RunTasks, AddWatcher

(* The counters, and that there is one timer event at most. *)
LEMMA ConditionStep ==
    TypeInv /\ OneTimer /\ [Next]_vars => ConditionTypeOK' /\ OneTimer'
<1> DEFINE Good == ConditionTypeOK /\ OneTimer
<1> SUFFICES ASSUME TypeInv, OneTimer, [Next]_vars PROVE Good'
    OBVIOUS
<1> USE DEF ConditionTypeOK, OneTimer
<1>0. Good
    BY DEF TypeInv, ObserversTypeOK
<1>1. CASE UNCHANGED <<condVars, timerVars>>
    BY <1>0, <1>1 DEF condVars, timerVars
<1>2. CASE SendEvents
  <2>1. row' \in [Watcher -> Nat] /\ timeout' \in [Watcher -> Nat]
    BY <1>0, <1>2, RowIsNatural DEF SendEvents
  <2>2. PICK needed \in BOOLEAN : StartTimer(needed)
    BY <1>2 DEF SendEvents
  <2> QED
    BY <1>0, <2>1, <2>2 DEF StartTimer
<1>3. CASE HandleTimeout
  <2>0. \A w \in Watcher : Min({timeout[w] + 1, Timeout[w]}) \in Nat
    BY <1>0, MinOfTwo
  <2>1. timeout' \in [Watcher -> Nat]
    BY <1>0, <1>3, <2>0 DEF HandleTimeout
  <2>2. row' \in [Watcher -> Nat]
    BY <1>0, <1>3 DEF HandleTimeout
  <2>3. PICK needed \in BOOLEAN : KeepTimer(needed)
    BY <1>3 DEF HandleTimeout
  <2>4. timeouts > 0
    BY <1>3 DEF HandleTimeout
  <2>5. OneTimer' /\ timeouts' \in Nat /\ hasHandleTimeout' \in BOOLEAN
    BY <1>0, <2>3, <2>4 DEF KeepTimer
  <2> QED
    BY <2>1, <2>2, <2>5
<1>4. CASE HandleClearUp
    BY <1>0, <1>4 DEF HandleClearUp, timerVars
<1>5. ASSUME NEW w \in Watcher, NEW n \in Name, AddKnownName(w, n) PROVE Good'
  <2>1. PICK accepted \in SUBSET Oldest(observerSeq[n], MaxInit) :
            row' = row \/ row' = [row EXCEPT ![w] = RowAfter(w, Cardinality(accepted))]
    BY <1>5 DEF AddKnownName
  <2>2. observerSeq[n] \in Seqs
    BY <1>5, SeqsAreNatural DEF AddKnownName, TypeInv, ObserversTypeOK, SequenceTypeOK, Seqs
  <2>3. Cardinality(accepted) \in Nat
    BY <2>1, <2>2, OldestIsFinite DEF TypeInv, ObserversTypeOK
  <2>4. RowAfter(w, Cardinality(accepted)) \in Nat
    BY <1>0, <2>3, RowIsNatural
  <2> QED
    BY <1>0, <1>5, <2>1, <2>4 DEF AddKnownName, timerVars
<1>6. CASE \/ StoreEvent \/ ClearAllData \/ RunTask \/ FinishReceive \/ UNCHANGED vars
           \/ \E s \in Seqs : InsertEventMapping(s)
    BY <1>1, <1>6 DEF StoreEvent, InsertEventMapping, ClearAllData, RunTask, FinishReceive, vars
<1>7. ASSUME NEW w \in Watcher, RegisterObserver(w) PROVE Good'
    BY <1>1, <1>7 DEF RegisterObserver
<1>8. ASSUME NEW w \in Watcher, NEW n \in Name, AddNewName(w, n) PROVE Good'
    BY <1>1, <1>8 DEF AddNewName
<1>9. ASSUME NEW n \in Name, RemoveWatcher(n) PROVE Good'
    BY <1>1, <1>9 DEF RemoveWatcher
<1>10. ASSUME NEW s \in Seqs, TakeNext(s) PROVE Good'
    BY <1>1, <1>10 DEF TakeNext
<1> QED
    BY <1>2, <1>3, <1>4, <1>5, <1>6, <1>7, <1>8, <1>9, <1>10
    DEF Next, HandleEvents, ClearData, RunTasks, AddWatcher

(* What the threads are doing: while an event is sent, no watcher it goes to *)
(* is removed.                                                               *)
LEMMA ThreadStep == TypeInv /\ [Next]_vars => ThreadTypeOK'
<1> SUFFICES ASSUME TypeInv, [Next]_vars PROVE ThreadTypeOK'
    OBVIOUS
<1> USE DEF ThreadTypeOK, IsFree
<1>0. ThreadTypeOK /\ SequenceTypeOK /\ lastEvent \in 0 .. MaxEvents
    BY DEF TypeInv, ObserversTypeOK, StoreTypeOK
<1>1. CASE StoreEvent
  <2>1. PICK accepted \in SUBSET Registered :
            /\ lastEvent' = lastEvent + 1
            /\ handling' = [event |-> lastEvent + 1, seqs |-> accepted, unmapped |-> accepted]
    BY <1>1 DEF StoreEvent
  <2>2. Registered' = Registered
    BY <1>1 DEF StoreEvent, Registered
  <2>3. /\ handling' \in [event : 0 .. lastEvent', seqs : SUBSET Registered',
                         unmapped : SUBSET handling'.seqs]
        /\ handling'.event > 0
    BY <1>0, <2>1, <2>2
  <2> QED
    BY <1>0, <1>1, <2>3 DEF StoreEvent, contextVars, jsVars
<1>13. ASSUME NEW s \in Seqs, InsertEventMapping(s) PROVE ThreadTypeOK'
  <2>1. handling' = [handling EXCEPT !.unmapped = @ \ {s}] /\ handling # NoEvents
    BY <1>13 DEF InsertEventMapping, NoEvents
  <2>2. handling'.event = handling.event /\ handling'.seqs = handling.seqs /\ handling.event > 0
    BY <1>0, <2>1
  <2>3. handling' \in [event : 0 .. lastEvent, seqs : SUBSET Registered, unmapped : SUBSET handling'.seqs]
    BY <1>0, <2>1, <2>2
  <2> QED
    BY <1>0, <1>13, <2>2, <2>3 DEF InsertEventMapping, contextVars, jsVars, Registered
<1>2. CASE SendEvents
  <2> DEFINE R == {watchers[s] : s \in handling.seqs} \cap Receiver
             T == {w \in {watchers[s] : s \in handling.seqs} \ Receiver : Triggers(w, 1) > 0}
  <2>1. handling.seqs \subseteq Registered /\ handling.seqs \subseteq Seqs
    BY <1>0 DEF Registered
  <2>2. R \in SUBSET Watcher /\ T \in SUBSET Watcher
    BY <1>0, <2>1 DEF SequenceTypeOK, Registered
  <2>3. PICK order \in SetToSeqs({ReceiveTask(w) : w \in R} \cup {TriggerTask(w) : w \in T}) :
            tasks' = tasks \o order
    BY <1>2 DEF SendEvents
  <2>4. tasks' \in Seq(Task)
    <3> HIDE DEF R, T
    <3>1. order \in Seq(Task)
        BY <2>2, <2>3, PostedTasks
    <3> QED
        BY <1>0, <2>3, <3>1, ConcatProperties
  <2>5. /\ handling' = NoEvents
        /\ NoEvents \in [event : 0 .. lastEvent, seqs : SUBSET Registered', unmapped : SUBSET NoEvents.seqs]
    BY <1>0, <1>2 DEF SendEvents, NoEvents
  <2> QED
    BY <1>0, <1>2, <2>4, <2>5 DEF SendEvents, jsVars
<1>3. CASE HandleTimeout
  <2> DEFINE W == {w \in {watchers[s] : s \in Registered} :
                      Meets(Min({timeout[w] + 1, Timeout[w]}), Timeout[w]) /\ row[w] > 0}
  <2>1. PICK order \in SetToSeqs({TriggerTask(w) : w \in W}) : tasks' = tasks \o order
    BY <1>3 DEF HandleTimeout
  <2>2. W \in SUBSET Watcher
    BY <1>0 DEF SequenceTypeOK, Registered
  <2>3. tasks' \in Seq(Task)
    <3> HIDE DEF W
    <3>1. {TriggerTask(w) : w \in W} = {ReceiveTask(w) : w \in {}} \cup {TriggerTask(w) : w \in W}
        OBVIOUS
    <3>2. order \in Seq(Task)
        BY <2>1, <2>2, <3>1, PostedTasks
    <3> QED
        BY <1>0, <2>1, <3>2, ConcatProperties
  <2>4. Registered' = Registered
    BY <1>3 DEF HandleTimeout, Registered
  <2> QED
    BY <1>0, <1>3, <2>3, <2>4 DEF HandleTimeout, jsVars, history
<1>4. ASSUME NEW w \in Watcher, RegisterObserver(w) PROVE ThreadTypeOK'
  <2>1. handling = NoEvents /\ UNCHANGED handling
    BY <1>4 DEF RegisterObserver
  <2>2. seqOf[w] \in Seqs
    BY <1>4, SeqsAreNatural DEF RegisterObserver, Added, Seqs, TypeInv, ObserversTypeOK, SequenceTypeOK
  <2>3. tasks' \in Seq(Task) /\ UNCHANGED contexts
    BY <1>0, <1>4, <2>2, DestroyPosts DEF RegisterObserver, SequenceTypeOK
  <2> QED
    BY <1>0, <1>4, <2>1, <2>3 DEF RegisterObserver, history, NoEvents
<1>5. ASSUME NEW n \in Name, RemoveWatcher(n) PROVE ThreadTypeOK'
  <2>1. handling = NoEvents /\ UNCHANGED handling
    BY <1>5 DEF RemoveWatcher
  <2>2. observerSeq[n] \in Seqs
    BY <1>0, <1>5, SeqsAreNatural DEF RemoveWatcher, SequenceTypeOK, Seqs
  <2>3. tasks' \in Seq(Task) /\ UNCHANGED contexts
    BY <1>0, <1>5, <2>2, DestroyPosts DEF RemoveWatcher, SequenceTypeOK
  <2> QED
    BY <1>0, <1>5, <2>1, <2>3 DEF RemoveWatcher, jsVars, history, NoEvents
<1>6. ASSUME NEW w \in Watcher, NEW n \in Name, AddNewName(w, n) PROVE ThreadTypeOK'
    BY <1>0, <1>6 DEF AddNewName, history, Registered
<1>7. ASSUME NEW w \in Watcher, NEW n \in Name, AddKnownName(w, n) PROVE ThreadTypeOK'
  <2>1. PICK accepted \in SUBSET Oldest(observerSeq[n], MaxInit) :
            \/ tasks' \in {tasks, Append(tasks, ReceiveTask(w))}
            \/ tasks' = tasks \o [i \in 1 .. Triggers(w, Cardinality(accepted)) |-> TriggerTask(w)]
    BY <1>7 DEF AddKnownName
  <2>2. observerSeq[n] \in Seqs
    BY <1>0, <1>7, SeqsAreNatural DEF AddKnownName, SequenceTypeOK, Seqs
  <2>3. Triggers(w, Cardinality(accepted)) \in Nat
    BY <2>1, <2>2, OldestIsFinite, RowIsNatural
    DEF TypeInv, ObserversTypeOK, ConditionTypeOK
  <2>4. TriggerTask(w) \in Task /\ ReceiveTask(w) \in Task
    BY DEF TriggerTask, ReceiveTask, Task
  <2>5. [i \in 1 .. Triggers(w, Cardinality(accepted)) |-> TriggerTask(w)] \in Seq(Task)
    BY <2>3, <2>4
  <2>6. tasks' \in Seq(Task)
    <3>1. Append(tasks, ReceiveTask(w)) \in Seq(Task)
        BY <1>0, <2>4
    <3>2. tasks \o [i \in 1 .. Triggers(w, Cardinality(accepted)) |-> TriggerTask(w)] \in Seq(Task)
        BY <1>0, <2>5, ConcatProperties
    <3> QED
        BY <1>0, <2>1, <3>1, <3>2
  <2> QED
    BY <1>0, <1>7, <2>6 DEF AddKnownName, history, Registered
<1>8. CASE RunTask
  <2>1. /\ tasks # <<>> /\ tasks' = Tail(tasks)
        /\ UNCHANGED <<handling, lastEvent, watchers, adding, clearing, aborted>>
        /\ receiving' \in {Head(tasks).watcher, NoWatcher} /\ contexts' \subseteq contexts
    BY <1>8 DEF RunTask
  <2>2. Tail(tasks) \in Seq(Task) /\ Head(tasks).watcher \in Watcher
    <3>1. Tail(tasks) \in Seq(Task) /\ Head(tasks) \in Task
        BY <1>0, <2>1, HeadTailProperties
    <3> QED
        BY <3>1 DEF Task
  <2> QED
    BY <1>0, <2>1, <2>2 DEF Registered
<1>9. CASE FinishReceive
    BY <1>0, <1>9 DEF FinishReceive, DeleteData, contextVars, history, jsVars, Registered
<1>10. ASSUME NEW s \in Seqs, TakeNext(s) PROVE ThreadTypeOK'
    BY <1>0, <1>10 DEF TakeNext, DeleteData, contextVars, Registered
<1>11. CASE HandleClearUp \/ ClearAllData
    BY <1>0, <1>11 DEF HandleClearUp, ClearAllData, contextVars, history, Registered
<1>12. CASE UNCHANGED vars
    BY <1>0, <1>12 DEF vars, contextVars, jsVars, history, Registered
<1> QED
    BY <1>1, <1>2, <1>3, <1>4, <1>5, <1>6, <1>7, <1>8, <1>9, <1>10, <1>11, <1>12, <1>13
    DEF Next, HandleEvents, ClearData, RunTasks, AddWatcher

LEMMA InvStep == TypeInv /\ OneTimer /\ [Next]_vars => (TypeInv /\ OneTimer)'
BY StoreStep, SequenceStep, ConditionStep, ThreadStep DEF TypeInv, ObserversTypeOK

LEMMA TypesAndTimer == Spec => [](TypeInv /\ OneTimer)
<1>1. Init => TypeInv /\ OneTimer
    BY TypeInit DEF Init, OneTimer
<1> QED
    BY <1>1, InvStep, PTL DEF Spec

(* Rows, batches and what is owed are about events that were written, a      *)
(* registered watcher knows its sequence, and observerMutex_ keeps every     *)
(* watcher until the event mapped to it was sent to it.                      *)
THEOREM ObserverTypes == Spec => []ObserversTypeOK
BY TypesAndTimer, PTL DEF TypeInv

(* There is one WATCHER_TIMEOUT event while hasHandleTimeout_ is set, and    *)
(* none otherwise, however HandleEvents and HandleTimeout follow each other. *)
THEOREM TimerIsSingle == Spec => []OneTimer
BY TypesAndTimer, PTL

-----------------------------------------------------------------------------
(* Contexts and the tasks that use them.                                     *)

NotDeleted(w) == \A i \in DOMAIN tasks : tasks[i] # DeleteTask(w)

\* A watcher that is registered, or about to be, has its context, and no task deletes
\* it; a watcher that was not added yet has none.
ContextInv ==
    /\ ContextsOutliveTasks
    /\ \A w \in Watcher : IsRegistered(w) \/ adding = w => w \in contexts /\ NotDeleted(w)
    /\ contexts \subseteq Added
    /\ \A s \in Registered : watchers[s] # adding

(* New tasks that only use contexts which no posted task deletes.            *)
LEMMA PostBehind ==
    ASSUME tasks \in Seq(Task), ContextsOutliveTasks, NEW new \in Seq(Task),
           tasks' = tasks \o new, contexts \subseteq contexts',
           UNCHANGED receiving,
           \A i \in DOMAIN new : new[i].watcher \in contexts' /\ NotDeleted(new[i].watcher),
           Len(new) <= 1 \/ \A i \in DOMAIN new : new[i].kind # "delete"
    PROVE  /\ ContextsOutliveTasks'
           /\ \A w : NotDeleted(w) /\ (\A i \in DOMAIN new : new[i] # DeleteTask(w))
                         => NotDeleted(w)'
<1> USE DEF ContextsOutliveTasks
<1>1. /\ Len(tasks) \in Nat /\ Len(new) \in Nat
      /\ DOMAIN tasks = 1 .. Len(tasks) /\ DOMAIN new = 1 .. Len(new)
    BY LenProperties
<1>2. /\ tasks' \in Seq(Task) /\ Len(tasks') = Len(tasks) + Len(new)
      /\ \A i \in 1 .. Len(tasks) + Len(new) :
            tasks'[i] = IF i <= Len(tasks) THEN tasks[i] ELSE new[i - Len(tasks)]
    BY ConcatProperties
<1>3. DOMAIN tasks' = 1 .. Len(tasks) + Len(new)
    BY <1>2, LenProperties
<1>4. \A i \in DOMAIN tasks' :
          \/ i \in DOMAIN tasks /\ tasks'[i] = tasks[i]
          \/ /\ i - Len(tasks) \in DOMAIN new /\ i > Len(tasks)
             /\ tasks'[i] = new[i - Len(tasks)]
    BY <1>1, <1>2, <1>3
<1>5. receiving' # NoWatcher => receiving' \in contexts'
    OBVIOUS
<1>6. \A i \in DOMAIN tasks' : tasks'[i].watcher \in contexts'
    BY <1>4
<1>7. ASSUME NEW i \in DOMAIN tasks', NEW j \in DOMAIN tasks', tasks'[i].kind = "delete", i < j
      PROVE  tasks'[i].watcher # tasks'[j].watcher
  <2>1. CASE j \in DOMAIN tasks /\ tasks'[j] = tasks[j]
    BY <1>1, <1>3, <1>4, <1>7, <2>1
  <2>2. CASE /\ j - Len(tasks) \in DOMAIN new /\ j > Len(tasks)
             /\ tasks'[j] = new[j - Len(tasks)]
    <3>1. CASE i \in DOMAIN tasks /\ tasks'[i] = tasks[i]
      <4>1. tasks[i] = DeleteTask(tasks[i].watcher)
        <5>1. tasks[i] \in Task
            BY <1>1, <3>1, ElementOfSeq
        <5> QED
            BY <1>7, <3>1, <5>1 DEF DeleteTask, Task
      <4> QED
        BY <2>2, <3>1, <4>1 DEF NotDeleted
    <3>2. CASE i > Len(tasks) /\ i - Len(tasks) \in DOMAIN new /\ tasks'[i] = new[i - Len(tasks)]
      <4>1. Len(new) > 1
        BY <1>1, <1>3, <1>7, <2>2, <3>2
      <4> QED
        BY <1>1, <1>7, <3>2, <4>1
    <3> QED
        BY <1>4, <3>1, <3>2
  <2> QED
    BY <1>4, <2>1, <2>2
<1>8. ContextsOutliveTasks'
    BY <1>5, <1>6, <1>7
<1> QED
    BY <1>4, <1>8 DEF NotDeleted, DeleteTask

LEMMA EmptyOrOne ==
    ASSUME tasks \in Seq(Task), NEW w \in Watcher \cup {NoWatcher}, Destroy(w)
    PROVE  \E new \in Seq(Task) : /\ tasks' = tasks \o new /\ Len(new) <= 1
                                  /\ \A i \in DOMAIN new : new[i] = DeleteTask(w) /\ w # NoWatcher
<1>1. CASE w = NoWatcher
  <2>1. <<>> \in Seq(Task) /\ tasks = tasks \o <<>> /\ Len(<<>>) = 0
    BY EmptySeq, ConcatEmptySeq
  <2> WITNESS <<>> \in Seq(Task)
  <2> QED
    BY <1>1, <2>1 DEF Destroy
<1>2. CASE w # NoWatcher
  <2>1. <<DeleteTask(w)>> \in Seq(Task)
    BY <1>2 DEF DeleteTask, Task
  <2>2. Append(tasks, DeleteTask(w)) = tasks \o <<DeleteTask(w)>>
    BY <2>1
  <2>3. /\ tasks' = tasks \o <<DeleteTask(w)>> /\ Len(<<DeleteTask(w)>>) = 1
        /\ \A i \in DOMAIN <<DeleteTask(w)>> : <<DeleteTask(w)>>[i] = DeleteTask(w)
    BY <1>2, <2>2 DEF Destroy
  <2> HIDE DEF DeleteTask
  <2> WITNESS <<DeleteTask(w)>> \in Seq(Task)
  <2> QED
    BY <1>2, <2>3
<1> QED
    BY <1>1, <1>2

(* The tasks AddKnownName posts are the new watcher's.                       *)
LEMMA OldEventsPost ==
    ASSUME TypeInv, NEW w \in Watcher, NEW n \in Name, AddKnownName(w, n)
    PROVE  \E new \in Seq(Task) :
              /\ tasks' = tasks \o new
              /\ \A i \in DOMAIN new : new[i].kind # "delete" /\ new[i].watcher = w
<1>1. tasks \in Seq(Task)
    BY DEF TypeInv, ObserversTypeOK, ThreadTypeOK
<1>2. observerSeq[n] \in Seqs
    BY SeqsAreNatural DEF AddKnownName, TypeInv, ObserversTypeOK, SequenceTypeOK, Seqs
<1>3. PICK accepted \in SUBSET Oldest(observerSeq[n], MaxInit) :
          \/ tasks' \in {tasks, Append(tasks, ReceiveTask(w))}
          \/ tasks' = tasks \o [i \in 1 .. Triggers(w, Cardinality(accepted)) |-> TriggerTask(w)]
    BY DEF AddKnownName
<1>4. Triggers(w, Cardinality(accepted)) \in Nat
    BY <1>2, <1>3, OldestIsFinite, RowIsNatural DEF TypeInv, ObserversTypeOK, ConditionTypeOK
<1>5. TriggerTask(w) \in Task /\ ReceiveTask(w) \in Task
    BY DEF TriggerTask, ReceiveTask, Task
<1>6. CASE tasks' = tasks
  <2>1. <<>> \in Seq(Task) /\ tasks' = tasks \o <<>>
    BY <1>1, <1>6, EmptySeq, ConcatEmptySeq
  <2> WITNESS <<>> \in Seq(Task)
  <2> QED
    BY <2>1
<1>7. CASE tasks' = Append(tasks, ReceiveTask(w))
  <2> DEFINE one == <<ReceiveTask(w)>>
  <2>1. one \in Seq(Task) /\ tasks' = tasks \o one
    BY <1>1, <1>5, <1>7
  <2>2. \A i \in DOMAIN one : one[i].kind # "delete" /\ one[i].watcher = w
    BY DEF ReceiveTask
  <2> HIDE DEF one
  <2> QED
    BY <2>1, <2>2
<1>8. CASE tasks' = tasks \o [i \in 1 .. Triggers(w, Cardinality(accepted)) |-> TriggerTask(w)]
  <2> DEFINE new == [i \in 1 .. Triggers(w, Cardinality(accepted)) |-> TriggerTask(w)]
  <2>1. new \in Seq(Task)
    BY <1>4, <1>5
  <2>2. \A i \in DOMAIN new : new[i].kind # "delete" /\ new[i].watcher = w
    BY DEF TriggerTask
  <2> QED
    BY <1>8, <2>1, <2>2
<1> QED
    BY <1>3, <1>6, <1>7, <1>8

LEMMA ContextStep == TypeInv /\ ContextInv /\ [Next]_vars => ContextInv'
<1> SUFFICES ASSUME TypeInv, ContextInv, [Next]_vars PROVE ContextInv'
    OBVIOUS
<1>0. /\ tasks \in Seq(Task) /\ watchers \in [Seqs -> Watcher \cup {NoWatcher}]
      /\ \A s \in Registered : watchers[s] \in Watcher /\ seqOf[watchers[s]] = s
      /\ handling.seqs \subseteq Registered /\ NoWatcher \notin Watcher
      /\ seqOf \in [Watcher -> 0 .. lastSeq] /\ lastSeq \in 0 .. Cardinality(Watcher)
    BY DEF TypeInv, ObserversTypeOK, SequenceTypeOK, ThreadTypeOK, Registered
<1>1. CASE UNCHANGED <<tasks, contexts, receiving, watchers, adding, seqOf>>
    BY <1>1 DEF ContextInv, ContextsOutliveTasks, NotDeleted, Added, Registered, IsRegistered
<1>2. ASSUME NEW new \in Seq(Task), tasks' = tasks \o new,
             UNCHANGED <<contexts, receiving, watchers, adding, seqOf>>,
             \A i \in DOMAIN new : new[i].kind # "delete" /\ IsRegistered(new[i].watcher)
      PROVE  ContextInv'
  <2>1. \A i \in DOMAIN new : new[i].watcher \in contexts /\ NotDeleted(new[i].watcher)
    BY <1>0, <1>2 DEF ContextInv, IsRegistered
  <2>2. \A i \in DOMAIN new : \A w : new[i] # DeleteTask(w)
    BY <1>2 DEF DeleteTask
  <2>3. ContextsOutliveTasks /\ contexts \subseteq contexts' /\ UNCHANGED receiving
    BY <1>2 DEF ContextInv
  <2>4. ContextsOutliveTasks' /\ \A w : NotDeleted(w) => NotDeleted(w)'
    <3>1. \A i \in DOMAIN new : new[i].watcher \in contexts' /\ NotDeleted(new[i].watcher)
        BY <1>2, <2>1
    <3>2. \A i \in DOMAIN new : new[i].kind # "delete"
        BY <1>2
    <3>3. tasks' = tasks \o new
        BY <1>2
    <3>4. /\ ContextsOutliveTasks'
          /\ \A w : NotDeleted(w) /\ (\A i \in DOMAIN new : new[i] # DeleteTask(w)) => NotDeleted(w)'
        BY <1>0, <2>3, <3>1, <3>2, <3>3, PostBehind
    <3> QED
        BY <2>2, <3>4
  <2> QED
    BY <1>2, <2>4 DEF ContextInv, Added, Registered, IsRegistered
<1>3. CASE SendEvents
  <2> DEFINE R == {watchers[s] : s \in handling.seqs} \cap Receiver
             T == {w \in {watchers[s] : s \in handling.seqs} \ Receiver : Triggers(w, 1) > 0}
  <2>1. R \in SUBSET Watcher /\ T \in SUBSET Watcher /\ \A w \in R \cup T : IsRegistered(w)
    BY <1>0 DEF IsRegistered
  <2>2. PICK order \in SetToSeqs({ReceiveTask(w) : w \in R} \cup {TriggerTask(w) : w \in T}) :
            tasks' = tasks \o order
    BY <1>3 DEF SendEvents
  <2> HIDE DEF R, T
  <2>3. /\ order \in Seq(Task)
        /\ \A i \in DOMAIN order : order[i].kind # "delete" /\ IsRegistered(order[i].watcher)
    BY <2>1, <2>2, PostedTasks
  <2> QED
    BY <1>2, <1>3, <2>2, <2>3 DEF SendEvents, seqVars, jsVars
<1>4. CASE HandleTimeout
  <2> DEFINE W == {w \in {watchers[s] : s \in Registered} :
                      Meets(Min({timeout[w] + 1, Timeout[w]}), Timeout[w]) /\ row[w] > 0}
  <2>1. W \in SUBSET Watcher /\ \A w \in W : IsRegistered(w)
    BY <1>0 DEF IsRegistered
  <2>2. PICK order \in SetToSeqs({TriggerTask(w) : w \in W}) : tasks' = tasks \o order
    BY <1>4 DEF HandleTimeout
  <2> HIDE DEF W
  <2>3. {TriggerTask(w) : w \in W} = {ReceiveTask(w) : w \in {}} \cup {TriggerTask(w) : w \in W}
    OBVIOUS
  <2>4. /\ order \in Seq(Task)
        /\ \A i \in DOMAIN order : order[i].kind # "delete" /\ IsRegistered(order[i].watcher)
    <3>1. order \in SetToSeqs({ReceiveTask(w) : w \in {}} \cup {TriggerTask(w) : w \in W})
        BY <2>2, <2>3
    <3>2. /\ order \in Seq(Task)
          /\ \A i \in DOMAIN order : order[i].kind # "delete" /\ order[i].watcher \in {} \cup W
        BY <2>1, <3>1, PostedTasks
    <3> QED
        BY <2>1, <3>2
  <2> QED
    BY <1>2, <1>4, <2>2, <2>4 DEF HandleTimeout, seqVars, jsVars
<1>5. ASSUME NEW w \in Watcher, NEW new \in Seq(Task), seqOf[w] = 0, adding = NoWatcher,
             tasks' = tasks \o new, contexts' = contexts \cup {w}, adding' = w,
             UNCHANGED <<receiving, watchers>>, seqOf'[w] # 0,
             \A v \in Watcher \ {w} : seqOf'[v] = seqOf[v],
             \A i \in DOMAIN new : new[i].kind # "delete" /\ new[i].watcher = w
      PROVE  ContextInv'
  <2>1. w \notin contexts /\ ~IsRegistered(w)
    BY <1>0, <1>5, SeqsAreNatural DEF ContextInv, Added, IsRegistered, Registered
  <2>2. NotDeleted(w)
    BY <2>1 DEF NotDeleted, DeleteTask, ContextInv, ContextsOutliveTasks
  <2>3. ContextsOutliveTasks' /\ \A v : NotDeleted(v) => NotDeleted(v)'
    <3>1. \A i \in DOMAIN new : new[i].watcher \in contexts' /\ NotDeleted(new[i].watcher)
        BY <1>5, <2>2
    <3>2. \A i \in DOMAIN new : new[i].kind # "delete" /\ \A v : new[i] # DeleteTask(v)
        BY <1>5 DEF DeleteTask
    <3>3. tasks' = tasks \o new /\ ContextsOutliveTasks /\ contexts \subseteq contexts' /\ UNCHANGED receiving
        BY <1>5 DEF ContextInv
    <3>4. /\ ContextsOutliveTasks'
          /\ \A v : NotDeleted(v) /\ (\A i \in DOMAIN new : new[i] # DeleteTask(v)) => NotDeleted(v)'
        BY <1>0, <3>1, <3>2, <3>3, PostBehind
    <3> QED
        BY <3>2, <3>4
  <2>4. contexts' \subseteq Added'
    BY <1>5 DEF ContextInv, Added
  <2> QED
    BY <1>0, <1>5, <2>1, <2>2, <2>3, <2>4 DEF ContextInv, IsRegistered, Registered
<1>6. ASSUME NEW w \in Watcher, NEW n \in Name, AddNewName(w, n) PROVE ContextInv'
  <2>1. <<>> \in Seq(Task) /\ tasks = tasks \o <<>>
    BY <1>0, EmptySeq, ConcatEmptySeq
  <2>2. seqOf' = [seqOf EXCEPT ![w] = lastSeq + 1] /\ seqOf'[w] # 0
    BY <1>0, <1>6, SeqsAreNatural DEF AddNewName
  <2>3. /\ seqOf[w] = 0 /\ adding = NoWatcher /\ contexts' = contexts \cup {w} /\ adding' = w
        /\ UNCHANGED <<receiving, watchers, tasks>>
    BY <1>6 DEF AddNewName, JsFree
  <2>4. \A v \in Watcher \ {w} : seqOf'[v] = seqOf[v]
    BY <1>0, <2>2
  <2>5. PICK new \in Seq(Task) : new = <<>>
    BY <2>1
  <2>6. tasks' = tasks \o new /\ DOMAIN new = {}
    BY <2>1, <2>3, <2>5
  <2> QED
    BY <1>5, <2>2, <2>3, <2>4, <2>6
<1>7. ASSUME NEW w \in Watcher, NEW n \in Name, AddKnownName(w, n) PROVE ContextInv'
  <2>1. observerSeq[n] \in Seqs /\ observerSeq[n] # 0
    BY <1>7, SeqsAreNatural DEF AddKnownName, TypeInv, ObserversTypeOK, SequenceTypeOK, Seqs
  <2>2. PICK new \in Seq(Task) : /\ tasks' = tasks \o new
                                  /\ \A i \in DOMAIN new : new[i].kind # "delete" /\ new[i].watcher = w
    BY <1>7, OldEventsPost
  <2>3. seqOf' = [seqOf EXCEPT ![w] = observerSeq[n]]
    BY <1>7 DEF AddKnownName
  <2>4. seqOf'[w] # 0 /\ \A v \in Watcher \ {w} : seqOf'[v] = seqOf[v]
    BY <1>0, <2>1, <2>3
  <2>5. /\ seqOf[w] = 0 /\ adding = NoWatcher /\ contexts' = contexts \cup {w} /\ adding' = w
        /\ UNCHANGED <<receiving, watchers>>
    BY <1>7 DEF AddKnownName, JsFree
  <2> QED
    BY <1>5, <2>2, <2>4, <2>5
<1>8. ASSUME NEW s \in Seqs, NEW w \in Watcher \cup {NoWatcher}, Destroy(watchers[s]),
             watchers' = [watchers EXCEPT ![s] = w], w \in {adding, NoWatcher}, adding' = NoWatcher,
             UNCHANGED <<receiving, seqOf>>
      PROVE  ContextInv'
  <2> DEFINE old == watchers[s]
  <2>1. old \in Watcher \cup {NoWatcher}
    BY <1>0, <1>8
  <2>2. PICK new \in Seq(Task) : /\ tasks' = tasks \o new /\ Len(new) <= 1
                                  /\ \A i \in DOMAIN new : new[i] = DeleteTask(old) /\ old # NoWatcher
    BY <1>0, <1>8, <2>1, EmptyOrOne
  <2>3. UNCHANGED contexts
    BY <1>0, <1>8, <2>1, DestroyPosts
  <2>4. \A i \in DOMAIN new : new[i].watcher = old /\ IsRegistered(old)
    BY <2>2 DEF DeleteTask, IsRegistered, Registered
  <2>5. \A i \in DOMAIN new : new[i].watcher \in contexts' /\ NotDeleted(new[i].watcher)
    BY <1>0, <2>1, <2>2, <2>3, <2>4 DEF ContextInv
  <2>6. /\ ContextsOutliveTasks'
        /\ \A v : NotDeleted(v) /\ (\A i \in DOMAIN new : new[i] # DeleteTask(v)) => NotDeleted(v)'
    BY <1>0, <1>8, <2>2, <2>3, <2>5, PostBehind DEF ContextInv
  <2>7. ASSUME NEW v \in Watcher, IsRegistered(v)' PROVE (IsRegistered(v) \/ adding = v) /\ v # old
    <3>1. PICK t \in Seqs : watchers'[t] = v
        BY <2>7 DEF IsRegistered, Registered
    <3>2. CASE t = s
        BY <1>0, <1>8, <3>1, <3>2 DEF ContextInv, Registered
    <3>3. CASE t # s
      <4>1. watchers[t] = v /\ t \in Registered
        BY <1>0, <1>8, <2>7, <3>1, <3>3 DEF Registered
      <4>2. v # old
        BY <1>0, <1>8, <3>3, <4>1 DEF Registered
      <4> QED
        BY <4>1, <4>2 DEF IsRegistered
    <3> QED
        BY <3>2, <3>3
  <2>8. \A v \in Watcher : IsRegistered(v)' => v \in contexts' /\ NotDeleted(v)'
    BY <2>2, <2>3, <2>6, <2>7 DEF ContextInv, DeleteTask
  <2> QED
    BY <1>0, <1>8, <2>3, <2>6, <2>8 DEF ContextInv, Added, Registered
<1>9. ASSUME NEW w \in Watcher, RegisterObserver(w) PROVE ContextInv'
  <2>1. seqOf[w] \in Seqs
    BY <1>9, SeqsAreNatural DEF RegisterObserver, Added, Seqs, TypeInv, ObserversTypeOK, SequenceTypeOK
  <2> QED
    BY <1>8, <1>9, <2>1 DEF RegisterObserver, seqVars
<1>10. ASSUME NEW n \in Name, RemoveWatcher(n) PROVE ContextInv'
  <2>1. observerSeq[n] \in Seqs
    BY <1>10, SeqsAreNatural DEF RemoveWatcher, TypeInv, ObserversTypeOK, SequenceTypeOK, Seqs
  <2> QED
    BY <1>8, <1>10, <2>1 DEF RemoveWatcher, JsFree, jsVars
<1>11. CASE RunTask
  <2>1. /\ tasks # <<>> /\ tasks' = Tail(tasks) /\ UNCHANGED <<watchers, seqOf, adding>>
        /\ receiving' = IF Head(tasks).kind = "receive" THEN Head(tasks).watcher ELSE NoWatcher
        /\ contexts' = IF Head(tasks).kind = "delete" THEN contexts \ {Head(tasks).watcher} ELSE contexts
    BY <1>11 DEF RunTask, seqVars
  <2>2. /\ DOMAIN tasks = 1 .. Len(tasks) /\ Len(tasks) \in Nat /\ 1 \in DOMAIN tasks
        /\ Head(tasks) = tasks[1] /\ tasks[1] \in Task
        /\ tasks' \in Seq(Task) /\ DOMAIN tasks' = 1 .. Len(tasks) - 1
        /\ \A i \in DOMAIN tasks' : tasks'[i] = tasks[i + 1] /\ i + 1 \in DOMAIN tasks /\ 1 < i + 1
    BY <1>0, <2>1
  <2>3. tasks[1].kind = "delete" => tasks[1] = DeleteTask(tasks[1].watcher)
    BY <2>2 DEF DeleteTask, Task
  <2>4. \A i \in DOMAIN tasks' : tasks'[i].watcher \in contexts'
    BY <2>1, <2>2 DEF ContextInv, ContextsOutliveTasks
  <2>5. \A i, j \in DOMAIN tasks' : tasks'[i].kind = "delete" /\ i < j
                                        => tasks'[i].watcher # tasks'[j].watcher
    BY <2>2 DEF ContextInv, ContextsOutliveTasks
  <2>6. receiving' # NoWatcher => receiving' \in contexts'
    BY <2>1, <2>2 DEF ContextInv, ContextsOutliveTasks
  <2>7. \A w \in Watcher : IsRegistered(w) \/ adding = w => w \in contexts' /\ NotDeleted(w)'
    BY <2>1, <2>2, <2>3 DEF ContextInv, NotDeleted
  <2> QED
    BY <2>1, <2>4, <2>5, <2>6, <2>7 DEF ContextInv, ContextsOutliveTasks, Added, Registered, IsRegistered
<1>12. CASE FinishReceive
    BY <1>12 DEF FinishReceive, contextVars, seqVars, ContextInv, ContextsOutliveTasks, NotDeleted,
       Added, Registered, IsRegistered
<1>13. CASE \/ StoreEvent \/ HandleClearUp \/ ClearAllData \/ UNCHANGED vars
            \/ \E s \in Seqs : InsertEventMapping(s)
    BY <1>1, <1>13 DEF StoreEvent, InsertEventMapping, HandleClearUp, ClearAllData, vars, contextVars, seqVars, jsVars
<1>14. ASSUME NEW s \in Seqs, TakeNext(s) PROVE ContextInv'
    BY <1>1, <1>14 DEF TakeNext, contextVars, seqVars
<1> QED
    BY <1>3, <1>4, <1>6, <1>7, <1>9, <1>10, <1>11, <1>12, <1>13, <1>14
    DEF Next, HandleEvents, ClearData, RunTasks, AddWatcher

LEMMA ContextsSafe == Spec => [](TypeInv /\ OneTimer /\ ContextInv)
<1>1. Init => ContextInv
    BY SeqsAreNatural DEF Init, ContextInv, ContextsOutliveTasks, IsRegistered, Registered, NotDeleted
<1>2. TypeInv /\ OneTimer /\ ContextInv /\ [Next]_vars => ContextInv'
    BY ContextStep
<1> QED
    BY <1>1, <1>2, TypesAndTimer, PTL DEF Spec

(* No task of a watcher runs after its context was deleted, whether it was   *)
(* removed, replaced or removed by its own callback: a task is posted only   *)
(* for a watcher that is registered or being added, and such a one is not    *)
(* deleted yet.                                                              *)
THEOREM ContextsStay == Spec => []ContextsOutliveTasks
BY ContextsSafe, PTL DEF ContextInv

-----------------------------------------------------------------------------
(* Rows and the events they are about.                                       *)

\* An entry without an event is left by a query for a row that was orphaned.
NullsAreOrphans ==
    /\ \A e \in Event : eventMap[e] = "null" => \E s \in Seqs : <<e, s>> \in orphans
    /\ aborted => orphans # {}

\* An event that a sequence needs is there unless it was taken away for another, or by
\* clearData.  What is not mapped yet is not in a batch either, so that only the other
\* sequences can delete it.
RowInv ==
    /\ NullsAreOrphans
    /\ \A s \in Seqs, e \in Event : Needs(s, e) => eventMap[e] = "event" \/ <<e, s>> \in orphans
    /\ \A s \in handling.unmapped : handling.event \notin mapping[s]
    /\ \A w \in Watcher : seqOf[w] \in handling.unmapped => handling.event \notin batch[w]
    /\ \A w \in Watcher : seqOf[w] = 0 => batch[w] = {}

LEMMA RowStep == TypeInv /\ ContextInv /\ RowInv /\ [Next]_vars => RowInv'
<1> SUFFICES ASSUME TypeInv, ContextInv, RowInv, [Next]_vars PROVE RowInv'
    OBVIOUS
<1> USE DEF RowInv, NullsAreOrphans, Needs, BeingMapped
<1>0. /\ StoreTypeOK /\ SequenceTypeOK /\ ThreadTypeOK
      /\ eventMap \in [Event -> {"none", "event", "null"}] /\ lastEvent \in 0 .. MaxEvents
      /\ mapping \in [Seqs -> SUBSET (1 .. lastEvent)] /\ MaxEvents \in Nat
      /\ batch \in [Watcher -> SUBSET (1 .. lastEvent)]
      /\ \A s \in Seqs : mapping[s] \subseteq Event
      /\ handling.event \in 0 .. lastEvent /\ handling.unmapped \subseteq handling.seqs
      /\ handling.seqs \subseteq Registered /\ Registered \subseteq Seqs
      /\ seqOf \in [Watcher -> 0 .. lastSeq]
  <2>1. StoreTypeOK /\ SequenceTypeOK /\ ThreadTypeOK
    BY DEF TypeInv, ObserversTypeOK
  <2>2. /\ eventMap \in [Event -> {"none", "event", "null"}] /\ lastEvent \in 0 .. MaxEvents
        /\ mapping \in [Seqs -> SUBSET (1 .. lastEvent)]
        /\ batch \in [Watcher -> SUBSET (1 .. lastEvent)]
    BY <2>1 DEF StoreTypeOK
  <2>3. MaxEvents \in Nat
    BY ObserversAssumption
  <2>4. \A s \in Seqs : mapping[s] \subseteq Event
    <3>1. 1 .. lastEvent \subseteq Event
      BY <2>2, <2>3 DEF Event
    <3> QED
      BY <2>2, <3>1
  <2>5. /\ handling.event \in 0 .. lastEvent /\ handling.unmapped \subseteq handling.seqs
        /\ handling.seqs \subseteq Registered
    BY <2>1 DEF ThreadTypeOK
  <2>6. Registered \subseteq Seqs /\ seqOf \in [Watcher -> 0 .. lastSeq]
    BY <2>1 DEF Registered, SequenceTypeOK
  <2> QED
    BY <2>1, <2>2, <2>3, <2>4, <2>5, <2>6
<1>1. CASE UNCHANGED <<eventMap, mapping, handling, batch, seqOf, orphans, aborted>>
    BY <1>1
<1>2. CASE StoreEvent
  <2>1. /\ eventMap' = [eventMap EXCEPT ![lastEvent + 1] = "event"]
        /\ handling'.event = lastEvent + 1 /\ lastEvent + 1 \in Event
        /\ UNCHANGED <<mapping, batch, seqOf, orphans, aborted>>
    BY <1>0, <1>2 DEF StoreEvent, Event, contextVars, jsVars, seqVars
  <2>2. handling'.unmapped \subseteq Seqs
    BY <1>0, <1>2 DEF StoreEvent
  <2>3. lastEvent + 1 \notin 1 .. lastEvent
    BY <1>0
  <2>4. \A s \in Seqs, e \in Event :
            Needs(s, e)' => eventMap'[e] = "event" \/ <<e, s>> \in orphans'
    BY <1>0, <2>1
  <2>5. NullsAreOrphans'
    BY <1>0, <2>1
  <2> QED
    BY <1>0, <2>1, <2>2, <2>3, <2>4, <2>5
<1>3. ASSUME NEW s \in Seqs, InsertEventMapping(s) PROVE RowInv'
  <2>1. /\ s \in handling.unmapped /\ mapping' = [mapping EXCEPT ![s] = @ \cup {handling.event}]
        /\ handling' = [handling EXCEPT !.unmapped = @ \ {s}]
        /\ UNCHANGED <<eventMap, batch, seqOf, orphans, aborted>>
    BY <1>3 DEF InsertEventMapping, contextVars, jsVars, seqVars, history
  <2>2. handling'.event = handling.event /\ handling'.unmapped = handling.unmapped \ {s}
    BY <1>0, <2>1 DEF ThreadTypeOK
  <2>3. \A t \in Seqs : mapping'[t] = IF t = s THEN mapping[s] \cup {handling.event} ELSE mapping[t]
    BY <1>0, <2>1
  <2>4. \A t \in Seqs, e \in Event : Needs(t, e)' => Needs(t, e)
    BY <2>1, <2>2, <2>3
  <2> QED
    BY <1>0, <2>1, <2>2, <2>3, <2>4
<1>4. CASE SendEvents
  <2>1. /\ UNCHANGED <<eventMap, mapping, seqOf, orphans, aborted>> /\ handling' = NoEvents
        /\ handling.unmapped = {}
        /\ batch' = [w \in Watcher |-> IF w \in {watchers[s] : s \in handling.seqs} \cap Receiver
                                       THEN {handling.event} ELSE batch[w]]
    BY <1>4 DEF SendEvents, storeVars, jsVars, seqVars
  <2>2. ASSUME NEW s \in handling.seqs PROVE seqOf[watchers[s]] # 0
    <3>1. s \in Registered /\ s \in Seqs
      BY <1>0
    <3>2. seqOf[watchers[s]] = s
      BY <1>0, <3>1 DEF SequenceTypeOK
    <3>3. s \in Nat \ {0}
      BY <3>1, SeqsAreNatural
    <3> QED
      BY <3>2, <3>3
  <2>3. \A w \in Watcher : seqOf[w] = 0 => batch'[w] = batch[w]
    BY <2>1, <2>2
  <2>4. handling'.unmapped = {}
    BY <2>1 DEF NoEvents
  <2>5. NullsAreOrphans'
    BY <2>1
  <2>6. \A s \in Seqs, e \in Event : Needs(s, e)' => Needs(s, e)
    BY <2>1, <2>4
  <2> QED
    BY <2>1, <2>3, <2>4, <2>5, <2>6
<1>5. ASSUME NEW s \in Seqs, NEW events, DeleteData(s, events),
             s \in handling.unmapped => handling.event \notin events,
             UNCHANGED <<handling, batch, seqOf>>
      PROVE  RowInv'
  <2>1. /\ mapping' = [mapping EXCEPT ![s] = @ \ events]
        /\ eventMap' = [e \in Event |-> IF e \in events THEN "none" ELSE eventMap[e]]
        /\ orphans' = orphans \cup OrphansOf(Seqs \ {s}, events)
        /\ aborted' = \E e \in Event \ events : eventMap[e] = "null"
    BY <1>5 DEF DeleteData, DeleteMapping
  <2>2. ASSUME NEW t \in Seqs, NEW e \in Event, Needs(t, e)'
        PROVE  eventMap'[e] = "event" \/ <<e, t>> \in orphans'
    <3>1. Needs(t, e)
        BY <1>0, <1>5, <2>1, <2>2
    <3>2. CASE e \notin events
        BY <2>1, <3>1, <3>2
    <3>3. CASE e \in events
      <4>1. t # s
        BY <1>0, <1>5, <2>1, <2>2, <3>3
      <4>2. eventMap[e] = "event" => <<e, t>> \in OrphansOf(Seqs \ {s}, events)
        BY <3>1, <3>3, <4>1 DEF OrphansOf
      <4> QED
        BY <2>1, <3>1, <4>2
    <3> QED
        BY <3>2, <3>3
  <2>3. \A t \in Seqs : mapping'[t] \subseteq mapping[t]
    BY <1>0, <2>1
  <2>4. NullsAreOrphans'
    BY <1>0, <2>1
  <2> QED
    BY <1>0, <1>5, <2>2, <2>3, <2>4
<1>6. ASSUME NEW s \in Seqs, NEW events \in SUBSET mapping[s], eventMap' = AfterQuery(events),
             UNCHANGED <<mapping, handling, orphans, aborted>>
      PROVE  /\ NullsAreOrphans'
             /\ \A t \in Seqs, e \in Event :
                    Needs(t, e)' => eventMap'[e] = "event" \/ <<e, t>> \in orphans'
  <2>1. CASE ~QueryFails(events)
    BY <1>6, <2>1 DEF AfterQuery
  <2>2. CASE QueryFails(events)
    <3> DEFINE gone == Min(Gone(events))
    <3>1. gone \in Gone(events)
      <4>1. Gone(events) # {} /\ Gone(events) \subseteq 1 .. lastEvent
        BY <1>0, <2>2 DEF QueryFails, Gone
      <4>2. PICK e \in Gone(events) : \A f \in Gone(events) : e <= f
        <5>1. Gone(events) \subseteq Nat
            BY <1>0, <4>1
        <5> QED
            BY <4>1, <5>1, LeastNumber
      <4> QED
        BY <4>2 DEF Min
    <3>2. /\ gone \in Event /\ gone \in mapping[s] /\ eventMap[gone] # "event"
          /\ eventMap' = [eventMap EXCEPT ![gone] = "null"]
      BY <1>0, <1>6, <2>2, <3>1 DEF Gone, AfterQuery
    <3> HIDE DEF gone
    <3>3. <<gone, s>> \in orphans
      BY <3>2
    <3> QED
      BY <1>0, <1>6, <3>2, <3>3
  <2> QED
    BY <2>1, <2>2
<1>7. \A s \in Seqs : \A n : Oldest(s, n) \in SUBSET mapping[s]
    BY DEF Oldest
<1>8. ASSUME NEW s \in Seqs, TakeNext(s) PROVE RowInv'
  <2>1. UNCHANGED <<handling, batch, seqOf>>
    BY <1>8 DEF TakeNext, contextVars, seqVars
  <2>2. PICK k \in Event, queried \in SUBSET mapping[s] :
            \/ eventMap' = AfterQuery(queried) /\ UNCHANGED <<mapping, aborted, owed, orphans>>
            \/ DeleteData(s, Oldest(s, k))
    BY <1>7, <1>8 DEF TakeNext
  <2>3. CASE eventMap' = AfterQuery(queried) /\ UNCHANGED <<mapping, aborted, owed, orphans>>
    BY <1>6, <2>1, <2>3
  <2>4. CASE DeleteData(s, Oldest(s, k))
    BY <1>5, <1>7, <2>1, <2>4
  <2> QED
    BY <2>2, <2>3, <2>4
<1>9. CASE FinishReceive
  <2>1. /\ receiving \in Watcher /\ UNCHANGED <<handling, batch, seqOf>>
        /\ \/ DeleteData(seqOf[receiving], batch[receiving])
           \/ UNCHANGED <<storeVars, aborted, orphans>>
    BY <1>0, <1>9 DEF FinishReceive, contextVars, seqVars, ThreadTypeOK
  <2>2. seqOf[receiving] \in Seqs
    <3>1. receiving \in Added
        BY <1>9 DEF FinishReceive, ContextInv, ContextsOutliveTasks
    <3>2. lastSeq \in 0 .. Cardinality(Watcher)
        BY <1>0 DEF SequenceTypeOK
    <3> QED
        BY <1>0, <3>1, <3>2, SeqsAreNatural DEF Added, Seqs
  <2> QED
    BY <1>1, <1>5, <2>1, <2>2 DEF storeVars
<1>10. ASSUME NEW w \in Watcher, NEW n \in Name, AddKnownName(w, n) PROVE RowInv'
  <2> DEFINE s == observerSeq[n]
  <2>1. s \in Seqs
    BY <1>10, SeqsAreNatural DEF AddKnownName, TypeInv, ObserversTypeOK, SequenceTypeOK, Seqs
  <2>2. PICK accepted \in SUBSET mapping[s] :
            batch' = batch \/ batch' = [batch EXCEPT ![w] = accepted]
    BY <1>7, <1>10, <2>1 DEF AddKnownName
  <2>3. /\ eventMap' = AfterQuery(Oldest(s, MaxInit)) /\ seqOf' = [seqOf EXCEPT ![w] = s]
        /\ UNCHANGED <<mapping, handling, orphans, aborted>> /\ seqOf[w] = 0
    BY <1>10 DEF AddKnownName, history
  <2> HIDE DEF s
  <2>4. /\ NullsAreOrphans'
        /\ \A t \in Seqs, e \in Event : Needs(t, e)' => eventMap'[e] = "event" \/ <<e, t>> \in orphans'
    BY <1>6, <1>7, <2>1, <2>3
  <2>5. batch'[w] \subseteq mapping[s] /\ \A v \in Watcher \ {w} : batch'[v] = batch[v]
    BY <1>0, <2>2, <2>3
  <2>6. seqOf'[w] = s /\ s # 0 /\ \A v \in Watcher \ {w} : seqOf'[v] = seqOf[v]
    BY <1>0, <2>1, <2>3, SeqsAreNatural
  <2>7. \A v \in Watcher : seqOf'[v] \in handling.unmapped => handling.event \notin batch'[v]
    BY <2>5, <2>6
  <2>8. \A v \in Watcher : seqOf'[v] = 0 => batch'[v] = {}
    BY <2>5, <2>6
  <2> QED
    BY <2>3, <2>4, <2>7, <2>8
<1>11. ASSUME NEW w \in Watcher, NEW n \in Name, AddNewName(w, n) PROVE RowInv'
  <2>1. /\ UNCHANGED <<eventMap, mapping, handling, batch, orphans, aborted>>
        /\ seqOf' = [seqOf EXCEPT ![w] = lastSeq + 1] /\ seqOf[w] = 0
    BY <1>11 DEF AddNewName, storeVars, history
  <2> QED
    BY <1>0, <2>1
<1>12. CASE ClearAllData
  <2>1. /\ eventMap' = [e \in Event |-> "none"] /\ orphans' = orphans \cup OrphansOf(Seqs, Event)
        /\ UNCHANGED <<mapping, handling, batch, seqOf, aborted>>
    BY <1>12 DEF ClearAllData, contextVars, seqVars
  <2>2. \A s \in Seqs, e \in Event : Needs(s, e) => <<e, s>> \in orphans'
    BY <2>1 DEF OrphansOf
  <2> QED
    BY <1>0, <2>1, <2>2
<1>13. CASE HandleTimeout \/ HandleClearUp \/ RunTask \/ UNCHANGED vars
    BY <1>1, <1>13 DEF HandleTimeout, HandleClearUp, RunTask, vars, storeVars, contextVars, seqVars,
       jsVars, history
<1>14. ASSUME NEW w \in Watcher, RegisterObserver(w) PROVE RowInv'
    BY <1>1, <1>14 DEF RegisterObserver, storeVars, seqVars, history
<1>15. ASSUME NEW n \in Name, RemoveWatcher(n) PROVE RowInv'
    BY <1>1, <1>15 DEF RemoveWatcher, storeVars, jsVars, history
<1> QED
    BY <1>2, <1>3, <1>4, <1>8, <1>9, <1>10, <1>11, <1>12, <1>13, <1>14, <1>15
    DEF Next, HandleEvents, ClearData, RunTasks, AddWatcher

LEMMA RowsSafe == Spec => [](TypeInv /\ ContextInv /\ RowInv)
<1>1. Init => RowInv
    BY DEF Init, RowInv, NullsAreOrphans, Needs, BeingMapped, NoEvents
<1>2. TypeInv /\ ContextInv /\ RowInv /\ [Next]_vars => RowInv'
    BY RowStep
<1> QED
    BY <1>1, <1>2, ContextsSafe, PTL DEF Spec

(* An entry without an event, which aborts the next DeleteData, is left only *)
(* for an event that some sequence still needed, or was about to be given,   *)
(* when DeleteData of another sequence (run deleted) or clearData took it    *)
(* away: without such a deletion no query ever misses an event.              *)
THEOREM OnlyOrphansAbort == Spec => []NullsAreOrphans
BY RowsSafe, PTL DEF RowInv

-----------------------------------------------------------------------------
(* What is lost.                                                             *)

Posted(w) == \E i \in DOMAIN tasks : tasks[i] = ReceiveTask(w)

\* What is owed is mapped, about to be, or in a batch that will be received; and what
\* onReceive is being given is owed no longer, unless the batch was replaced, which posts
\* another task.
LostInv ==
    /\ \A m \in owed :
          \/ Needs(m[2], m[1])
          \/ \E w \in Watcher : seqOf[w] = m[2] /\ m[1] \in batch[w] /\ Unfinished(w)
          \/ m \in overwritten
    /\ receiving # NoWatcher =>
          \A e \in batch[receiving] : <<e, seqOf[receiving]>> \notin owed \/ Posted(receiving)

LEMMA TasksGrow ==
    ASSUME tasks \in Seq(Task), NEW new \in Seq(Task), tasks' = tasks \o new, UNCHANGED receiving
    PROVE  /\ \A w : Unfinished(w) => Unfinished(w)'
           /\ \A w : Posted(w) => Posted(w)'
           /\ \A w : (\E i \in DOMAIN new : new[i] = ReceiveTask(w)) => Posted(w)'
<1>1. /\ DOMAIN tasks = 1 .. Len(tasks) /\ DOMAIN tasks' = 1 .. Len(tasks) + Len(new)
      /\ Len(tasks) \in Nat /\ Len(new) \in Nat /\ DOMAIN new = 1 .. Len(new)
      /\ \A i \in 1 .. Len(tasks) : tasks'[i] = tasks[i]
      /\ \A i \in 1 .. Len(new) : tasks'[Len(tasks) + i] = new[i]
    BY ConcatProperties, LenProperties
<1>2. \A w : Posted(w) => Posted(w)'
    BY <1>1 DEF Posted, ReceiveTask
<1>3. ASSUME NEW w, NEW i \in DOMAIN new, new[i] = ReceiveTask(w) PROVE Posted(w)'
  <2>1. Len(tasks) + i \in DOMAIN tasks' /\ tasks'[Len(tasks) + i] = ReceiveTask(w)
    BY <1>1, <1>3
  <2> QED
    BY <2>1 DEF Posted, ReceiveTask
<1> QED
    BY <1>2, <1>3 DEF Unfinished, Posted

(* Every task that is to be posted is in the order it is posted in.          *)
LEMMA OrderHasAll ==
    ASSUME NEW S, IsFiniteSet(S), NEW order \in SetToSeqs(S), NEW t \in S
    PROVE  \E i \in DOMAIN order : order[i] = t
<1> DEFINE D == 1 .. Cardinality(S)
<1>1. Cardinality(S) \in Nat
    BY FS_CardinalityType
<1>2. order \in Injection(D, S)
    BY DEF SetToSeqs, Injection, IsInjective
<1>3. Cardinality(D) = Cardinality(S)
    BY <1>1, FS_Interval
<1>4. order \in Surjection(D, S)
    BY <1>2, <1>3, FS_Injection
<1> QED
    BY <1>4 DEF Surjection

LEMMA LostStep == TypeInv /\ ContextInv /\ LostInv /\ [Next]_vars => LostInv'
<1> SUFFICES ASSUME TypeInv, ContextInv, LostInv, [Next]_vars PROVE LostInv'
    OBVIOUS
<1>0. /\ tasks \in Seq(Task) /\ watchers \in [Seqs -> Watcher \cup {NoWatcher}]
      /\ \A s \in Registered : watchers[s] \in Watcher /\ seqOf[watchers[s]] = s
      /\ handling.seqs \subseteq Registered /\ NoWatcher \notin Watcher
      /\ receiving \in Watcher \cup {NoWatcher}
      /\ batch \in [Watcher -> SUBSET (1 .. lastEvent)] /\ lastEvent \in 0 .. MaxEvents
      /\ mapping \in [Seqs -> SUBSET (1 .. lastEvent)]
      /\ owed \subseteq (1 .. lastEvent) \X Seqs /\ seqOf \in [Watcher -> 0 .. lastSeq]
    BY DEF TypeInv, ObserversTypeOK, StoreTypeOK, SequenceTypeOK, ThreadTypeOK, Registered
<1>1. ASSUME UNCHANGED <<mapping, handling, owed, overwritten, receiving, batch, seqOf>>,
             \A w : Unfinished(w) => Unfinished(w)', \A w : Posted(w) => Posted(w)'
      PROVE  LostInv'
    BY <1>1 DEF LostInv, Needs, BeingMapped
<1>2. ASSUME UNCHANGED <<mapping, handling, owed, overwritten, receiving, batch, seqOf, tasks>>
      PROVE  LostInv'
    BY <1>1, <1>2 DEF Unfinished, Posted
<1>3. CASE StoreEvent
  <2>1. PICK accepted \in SUBSET Registered :
            /\ handling' = [event |-> lastEvent + 1, seqs |-> accepted, unmapped |-> accepted]
            /\ owed' = owed \cup {<<lastEvent + 1, s>> : s \in accepted}
    BY <1>3 DEF StoreEvent
  <2>2. /\ UNCHANGED <<mapping, overwritten, receiving, batch, seqOf, tasks>>
        /\ handling.unmapped = {}
    BY <1>3 DEF StoreEvent, contextVars, jsVars, seqVars, IsFree, NoEvents
  <2>3. \A w \in Watcher : lastEvent + 1 \notin batch[w]
    BY <1>0
  <2>4. ASSUME NEW m \in owed', m \notin overwritten
        PROVE  \/ Needs(m[2], m[1])'
               \/ \E w \in Watcher : seqOf[w] = m[2] /\ m[1] \in batch[w] /\ Unfinished(w)
    <3>1. CASE m \in owed
        BY <2>2, <2>4, <3>1 DEF LostInv, Needs, BeingMapped
    <3>2. CASE \E s \in accepted : m = <<lastEvent + 1, s>>
        BY <2>1, <3>2 DEF Needs, BeingMapped
    <3> QED
        BY <2>1, <3>1, <3>2
  <2>5. receiving # NoWatcher =>
          \A e \in batch[receiving] : <<e, seqOf[receiving]>> \notin owed' \/ Posted(receiving)
    BY <1>0, <2>1, <2>3 DEF LostInv
  <2> QED
    BY <2>2, <2>4, <2>5 DEF LostInv, Unfinished, Posted
<1>17. ASSUME NEW s \in Seqs, InsertEventMapping(s) PROVE LostInv'
  <2>1. /\ mapping' = [mapping EXCEPT ![s] = @ \cup {handling.event}]
        /\ handling' = [handling EXCEPT !.unmapped = @ \ {s}]
        /\ UNCHANGED <<owed, overwritten, receiving, batch, seqOf, tasks>>
    BY <1>17 DEF InsertEventMapping, contextVars, jsVars, seqVars, history
  <2>2. handling'.event = handling.event /\ handling'.unmapped = handling.unmapped \ {s}
    BY <2>1 DEF TypeInv, ObserversTypeOK, ThreadTypeOK
  <2>3. \A t \in Seqs : \A e : Needs(t, e) => Needs(t, e)'
    BY <1>0, <2>1, <2>2 DEF Needs, BeingMapped
  <2>4. \A m \in owed : m[2] \in Seqs
    BY <1>0
  <2> QED
    BY <2>1, <2>3, <2>4 DEF LostInv, Unfinished, Posted
<1>4. CASE SendEvents
  <2> DEFINE R == {watchers[s] : s \in handling.seqs} \cap Receiver
             T == {w \in {watchers[s] : s \in handling.seqs} \ Receiver : Triggers(w, 1) > 0}
             posted == {ReceiveTask(w) : w \in R} \cup {TriggerTask(w) : w \in T}
  <2>1. R \in SUBSET Watcher /\ T \in SUBSET Watcher
    BY <1>0
  <2>2. PICK order \in SetToSeqs(posted) : tasks' = tasks \o order
    BY <1>4 DEF SendEvents
  <2>3. /\ batch' = [w \in Watcher |-> IF w \in R THEN {handling.event} ELSE batch[w]]
        /\ overwritten' = overwritten \cup
               {m \in owed : m[2] \in handling.seqs /\ LET w == watchers[m[2]] IN
                                m[1] \in batch[w] /\ Unfinished(w)}
        /\ handling.unmapped = {} /\ UNCHANGED <<mapping, owed, receiving, seqOf>>
    BY <1>4 DEF SendEvents, storeVars, jsVars, seqVars
  <2>4. \A w \in R : seqOf[w] \in handling.seqs /\ watchers[seqOf[w]] = w
    BY <1>0
  <2>5. order \in Seq(Task)
    <3> HIDE DEF R, T
    <3> QED
        BY <2>1, <2>2, PostedTasks
  <2>6. \A w \in R : \E i \in DOMAIN order : order[i] = ReceiveTask(w)
    <3> HIDE DEF R, T
    <3>1. IsFiniteSet({ReceiveTask(w) : w \in R}) /\ IsFiniteSet({TriggerTask(w) : w \in T})
        BY <2>1, OneTaskEach DEF ReceiveTask, TriggerTask
    <3>2. IsFiniteSet(posted)
        BY <3>1, FS_Union
    <3>3. \A w \in R : ReceiveTask(w) \in posted
        OBVIOUS
    <3> HIDE DEF posted
    <3> QED
        BY <2>2, <3>2, <3>3, OrderHasAll
  <2> HIDE DEF R, T
  <2>7. /\ \A w : Unfinished(w) => Unfinished(w)'
        /\ \A w : Posted(w) => Posted(w)'
        /\ \A w \in R : Posted(w)'
    BY <1>0, <2>2, <2>3, <2>5, <2>6, TasksGrow
  <2>8. ASSUME NEW m \in owed, m \notin overwritten'
        PROVE  \/ Needs(m[2], m[1])'
               \/ \E w \in Watcher : seqOf[w] = m[2] /\ m[1] \in batch'[w] /\ Unfinished(w)'
    <3>1. CASE Needs(m[2], m[1])
        BY <2>3, <3>1 DEF Needs, BeingMapped
    <3>2. ASSUME NEW w \in Watcher, seqOf[w] = m[2], m[1] \in batch[w], Unfinished(w)
          PROVE  m[1] \in batch'[w] /\ Unfinished(w)'
        BY <1>0, <2>3, <2>4, <2>7, <2>8, <3>2
    <3> QED
        BY <2>3, <2>8, <3>1, <3>2 DEF LostInv
  <2>9. receiving # NoWatcher =>
          \A e \in batch'[receiving] : <<e, seqOf[receiving]>> \notin owed \/ Posted(receiving)'
    BY <1>0, <2>3, <2>7 DEF LostInv
  <2> QED
    BY <2>3, <2>8, <2>9 DEF LostInv
<1>5. CASE HandleTimeout
  <2> DEFINE W == {w \in {watchers[s] : s \in Registered} :
                      Meets(Min({timeout[w] + 1, Timeout[w]}), Timeout[w]) /\ row[w] > 0}
  <2>1. W \in SUBSET Watcher
    BY <1>0
  <2>2. PICK order \in SetToSeqs({TriggerTask(w) : w \in W}) : tasks' = tasks \o order
    BY <1>5 DEF HandleTimeout
  <2> HIDE DEF W
  <2>3. {TriggerTask(w) : w \in W} = {ReceiveTask(w) : w \in {}} \cup {TriggerTask(w) : w \in W}
    OBVIOUS
  <2>4. order \in Seq(Task)
    BY <2>1, <2>2, <2>3, PostedTasks
  <2>5. UNCHANGED <<mapping, handling, owed, overwritten, receiving, batch, seqOf>>
    BY <1>5 DEF HandleTimeout, storeVars, seqVars, jsVars, history
  <2> QED
    BY <1>0, <1>1, <2>2, <2>4, <2>5, TasksGrow
<1>6. ASSUME NEW w \in Watcher \cup {NoWatcher}, Destroy(w),
             UNCHANGED <<mapping, handling, history, receiving, batch, seqOf>>
      PROVE  LostInv'
  <2>1. (\A v : Unfinished(v) => Unfinished(v)') /\ (\A v : Posted(v) => Posted(v)')
    BY <1>0, <1>6, EmptyOrOne, TasksGrow
  <2> QED
    BY <1>1, <1>6, <2>1 DEF history
<1>7. ASSUME NEW w \in Watcher, RegisterObserver(w) PROVE LostInv'
  <2>1. seqOf[w] \in Seqs
    BY <1>7, SeqsAreNatural DEF RegisterObserver, Added, Seqs, TypeInv, ObserversTypeOK, SequenceTypeOK
  <2>2. watchers[seqOf[w]] \in Watcher \cup {NoWatcher}
    BY <1>0, <2>1
  <2> QED
    BY <1>6, <1>7, <2>2 DEF RegisterObserver, seqVars, storeVars
<1>8. ASSUME NEW n \in Name, RemoveWatcher(n) PROVE LostInv'
  <2>1. observerSeq[n] \in Seqs
    BY <1>8, SeqsAreNatural DEF RemoveWatcher, TypeInv, ObserversTypeOK, SequenceTypeOK, Seqs
  <2>2. watchers[observerSeq[n]] \in Watcher \cup {NoWatcher}
    BY <1>0, <2>1
  <2> QED
    BY <1>6, <1>8, <2>2 DEF RemoveWatcher, jsVars, storeVars
<1>9. ASSUME NEW w \in Watcher, seqOf[w] = 0 PROVE w # receiving /\ ~Unfinished(w)
    BY <1>9 DEF ContextInv, ContextsOutliveTasks, Added, Unfinished, ReceiveTask
<1>10. ASSUME NEW w \in Watcher, seqOf[w] = 0, UNCHANGED <<mapping, handling, history, receiving>>,
              \A v \in Watcher \ {w} : seqOf'[v] = seqOf[v] /\ batch'[v] = batch[v],
              \A v : Unfinished(v) => Unfinished(v)', \A v : Posted(v) => Posted(v)'
       PROVE  LostInv'
  <2>1. w # receiving /\ ~Unfinished(w)
    BY <1>9, <1>10
  <2>2. \A m \in owed :
          \/ Needs(m[2], m[1])'
          \/ \E v \in Watcher : seqOf'[v] = m[2] /\ m[1] \in batch'[v] /\ Unfinished(v)'
          \/ m \in overwritten
    BY <1>10, <2>1 DEF LostInv, Needs, BeingMapped
  <2> QED
    BY <1>0, <1>10, <2>1, <2>2 DEF LostInv, history
<1>11. ASSUME NEW w \in Watcher, NEW n \in Name, AddNewName(w, n) PROVE LostInv'
    BY <1>0, <1>10, <1>11 DEF AddNewName, Unfinished, Posted, storeVars
<1>12. ASSUME NEW w \in Watcher, NEW n \in Name, AddKnownName(w, n) PROVE LostInv'
  <2>1. PICK new \in Seq(Task) : tasks' = tasks \o new
    BY <1>12, OldEventsPost
  <2>2. /\ seqOf[w] = 0 /\ seqOf' = [seqOf EXCEPT ![w] = observerSeq[n]]
        /\ UNCHANGED <<mapping, handling, history, receiving>>
        /\ \A v \in Watcher \ {w} : batch'[v] = batch[v]
    BY <1>0, <1>12 DEF AddKnownName
  <2>3. (\A v : Unfinished(v) => Unfinished(v)') /\ (\A v : Posted(v) => Posted(v)')
    BY <1>0, <2>1, <2>2, TasksGrow
  <2> QED
    BY <1>0, <1>10, <2>2, <2>3
<1>13. ASSUME NEW s \in Seqs, TakeNext(s) PROVE LostInv'
  <2>1. PICK taken : \/ UNCHANGED <<mapping, owed>>
                     \/ mapping' = [mapping EXCEPT ![s] = @ \ taken] /\ owed' = owed \ (taken \X {s})
    BY <1>13 DEF TakeNext, DeleteData, DeleteMapping
  <2>2. UNCHANGED <<handling, overwritten, receiving, batch, seqOf, tasks>>
    BY <1>13 DEF TakeNext, contextVars, seqVars
  <2>3. CASE UNCHANGED <<mapping, owed>>
    BY <1>2, <2>2, <2>3
  <2>4. CASE mapping' = [mapping EXCEPT ![s] = @ \ taken] /\ owed' = owed \ (taken \X {s})
    <3>1. ASSUME NEW m \in owed', Needs(m[2], m[1]) PROVE Needs(m[2], m[1])'
      <4>1. m \in owed /\ m[2] \in Seqs /\ m = <<m[1], m[2]>>
        BY <1>0, <2>4, <3>1
      <4>2. m[2] = s => m[1] \notin taken
        BY <2>4, <3>1, <4>1
      <4> QED
        BY <1>0, <2>2, <2>4, <3>1, <4>1, <4>2 DEF Needs, BeingMapped
    <3> QED
        BY <2>2, <2>4, <3>1 DEF LostInv, Unfinished, Posted
  <2> QED
    BY <2>1, <2>3, <2>4
<1>14. CASE RunTask
  <2>1. /\ tasks # <<>> /\ tasks' = Tail(tasks) /\ receiving = NoWatcher
        /\ UNCHANGED <<mapping, handling, overwritten, batch, seqOf>>
        /\ \/ /\ Head(tasks).kind = "receive" /\ receiving' = Head(tasks).watcher
              /\ owed' = owed \ (batch[receiving'] \X {seqOf[receiving']})
           \/ Head(tasks).kind # "receive" /\ receiving' = NoWatcher /\ owed' = owed
    BY <1>14 DEF RunTask, seqVars, storeVars
  <2>2. /\ \A i \in DOMAIN tasks : i = 1 \/ (i - 1 \in DOMAIN tasks' /\ tasks'[i - 1] = tasks[i])
        /\ Head(tasks) = tasks[1]
    BY <1>0, <2>1
  <2>3. ASSUME NEW w \in Watcher, Unfinished(w) PROVE Unfinished(w)'
    <3>1. PICK i \in DOMAIN tasks : tasks[i] = ReceiveTask(w)
        BY <1>0, <2>1, <2>3 DEF Unfinished
    <3>2. CASE i = 1
        BY <2>1, <2>2, <3>1, <3>2 DEF Unfinished, ReceiveTask
    <3>3. CASE i # 1
        BY <2>2, <3>1, <3>3 DEF Unfinished
    <3> QED
        BY <3>2, <3>3
  <2>4. \A m \in owed' : m \in owed
    BY <2>1
  <2>5. receiving' # NoWatcher => \A e \in batch[receiving'] : <<e, seqOf[receiving']>> \notin owed'
    BY <2>1
  <2> QED
    BY <2>1, <2>3, <2>4, <2>5 DEF LostInv, Needs, BeingMapped
<1>15. CASE FinishReceive
  <2>1. /\ receiving # NoWatcher /\ receiving' = NoWatcher
        /\ UNCHANGED <<handling, owed, overwritten, batch, seqOf, tasks>>
        /\ \/ mapping' = [mapping EXCEPT ![seqOf[receiving]] = @ \ batch[receiving]]
           \/ mapping' = mapping
    BY <1>15 DEF FinishReceive, DeleteData, DeleteMapping, contextVars, seqVars, storeVars
  <2>2. ASSUME NEW m \in owed, m \notin overwritten
        PROVE  \/ Needs(m[2], m[1])'
               \/ \E w \in Watcher : seqOf[w] = m[2] /\ m[1] \in batch[w] /\ Unfinished(w)'
    <3>1. m = <<m[1], m[2]>> /\ m[2] \in Seqs /\ receiving \in Watcher
        BY <1>0, <2>1
    <3>2. CASE seqOf[receiving] = m[2] /\ m[1] \in batch[receiving]
      <4>1. PICK w \in Watcher : w = receiving /\ Posted(w)
        BY <2>1, <3>1, <3>2 DEF LostInv
      <4>2. Unfinished(w)'
        BY <2>1, <4>1 DEF Posted, Unfinished, ReceiveTask
      <4> QED
        BY <3>2, <4>1, <4>2
    <3>3. CASE ~(seqOf[receiving] = m[2] /\ m[1] \in batch[receiving])
      <4>1. Needs(m[2], m[1]) => Needs(m[2], m[1])'
        BY <1>0, <2>1, <3>1, <3>3 DEF Needs, BeingMapped
      <4>2. ASSUME NEW w \in Watcher, seqOf[w] = m[2], m[1] \in batch[w], Unfinished(w)
            PROVE  Unfinished(w)'
        BY <2>1, <3>3, <4>2 DEF Unfinished, ReceiveTask
      <4> QED
        BY <2>2, <4>1, <4>2 DEF LostInv
    <3> QED
        BY <3>2, <3>3
  <2> QED
    BY <2>1, <2>2 DEF LostInv
<1>16. CASE HandleClearUp \/ ClearAllData \/ UNCHANGED vars
    BY <1>2, <1>16 DEF HandleClearUp, ClearAllData, vars, contextVars, seqVars, jsVars, storeVars, history
<1> QED
    BY <1>3, <1>4, <1>5, <1>7, <1>8, <1>11, <1>12, <1>13, <1>14, <1>15, <1>16, <1>17
    DEF Next, HandleEvents, ClearData, RunTasks, AddWatcher

(* What a sequence accepted and was not given waits for it, in a batch or    *)
(* where a query reaches it: it is lost only by a second OnEvents that       *)
(* replaced its batch, or with an event of the sequence, the same or an      *)
(* earlier one, that DeleteData of another sequence or clearData took away.  *)
THEOREM LossesHaveACause == Spec => []EventsWaitForTheirObserver
<1>1. Init => LostInv
    BY DEF Init, LostInv
<1>2. TypeInv /\ ContextInv /\ LostInv /\ [Next]_vars => LostInv'
    BY LostStep
<1>3. TypeInv /\ RowInv /\ LostInv => EventsWaitForTheirObserver
  <2> SUFFICES ASSUME TypeInv, RowInv, LostInv, NEW m \in owed, Needs(m[2], m[1]),
                      NEW f \in RowsUpTo(m[2], m[1])
               PROVE  eventMap[f] = "event" \/ <<f, m[2]>> \in orphans
    BY DEF LostInv, EventsWaitForTheirObserver
  <2>1. m[2] \in Seqs /\ StoreTypeOK /\ ThreadTypeOK
    BY DEF TypeInv, ObserversTypeOK, StoreTypeOK
  <2>2. Needs(m[2], f)
    BY DEF RowsUpTo, Needs
  <2>3. f \in Event
    BY <2>1, <2>2, MappedWereWritten DEF StoreTypeOK, Event
  <2> QED
    BY <2>1, <2>2, <2>3 DEF RowInv
<1> QED
    BY <1>1, <1>2, <1>3, RowsSafe, PTL DEF Spec

-----------------------------------------------------------------------------
(* What is counted for a watcher.                                            *)

\* No condition stands met: ProcessEvent and ProcessTimeout trigger at the limit and
\* count from the rest, so that a row condition is never reached and passed over by
\* several old events at once, and the time counted never goes past its limit.
CountsStayBelow ==
    \A w \in Watcher : (Row[w] > 0 => row[w] < Row[w]) /\ timeout[w] <= Timeout[w]

LEMMA RestIsBelow ==
    ASSUME row \in [Watcher -> Nat], NEW w \in Watcher, NEW n \in Nat, Row[w] > 0
    PROVE  RowAfter(w, n) < Row[w]
<1>1. Row[w] \in Nat /\ row[w] + n \in Nat
    OBVIOUS
<1>2. \A a, b \in Nat : b > 0 => a % b < b
    OBVIOUS
<1> QED
    BY <1>1, <1>2 DEF RowAfter

LEMMA CountStep == TypeInv /\ CountsStayBelow /\ [Next]_vars => CountsStayBelow'
<1> SUFFICES ASSUME TypeInv, CountsStayBelow, [Next]_vars PROVE CountsStayBelow'
    OBVIOUS
<1> USE DEF CountsStayBelow
<1>0. row \in [Watcher -> Nat] /\ timeout \in [Watcher -> Nat]
    BY DEF TypeInv, ObserversTypeOK, ConditionTypeOK
<1>1. CASE UNCHANGED condVars
    BY <1>1 DEF condVars
<1>2. CASE SendEvents
  <2>1. \A w \in Watcher : row'[w] \in {row[w], RowAfter(w, 1)} /\ timeout'[w] \in {timeout[w], 0}
    BY <1>2 DEF SendEvents
  <2> QED
    BY <1>0, <2>1, RestIsBelow
<1>3. CASE HandleTimeout
  <2>1. \A w \in Watcher : /\ row'[w] \in {row[w], 0}
                           /\ timeout'[w] \in {timeout[w], 0, Min({timeout[w] + 1, Timeout[w]})}
    BY <1>3 DEF HandleTimeout
  <2>2. \A a, b \in Nat : Min({a, b}) <= b
    <3> SUFFICES ASSUME NEW a \in Nat, NEW b \in Nat PROVE Min({a, b}) <= b
      OBVIOUS
    <3>1. \E x \in {a, b} : \A y \in {a, b} : x =< y
      OBVIOUS
    <3> QED
      BY <3>1 DEF Min
  <2>3. \A w \in Watcher : Min({timeout[w] + 1, Timeout[w]}) <= Timeout[w] /\ 0 <= Timeout[w]
    BY <1>0, <2>2
  <2>4. \A w \in Watcher : timeout'[w] <= Timeout[w]
    BY <2>1, <2>3
  <2>5. \A w \in Watcher : Row[w] > 0 => row'[w] < Row[w]
    BY <2>1
  <2> QED
    BY <2>4, <2>5
<1>4. CASE HandleClearUp
    BY <1>0, <1>4 DEF HandleClearUp
<1>5. ASSUME NEW w \in Watcher, NEW n \in Name, AddKnownName(w, n) PROVE CountsStayBelow'
  <2>1. PICK accepted \in SUBSET Oldest(observerSeq[n], MaxInit) :
            row' = row \/ row' = [row EXCEPT ![w] = RowAfter(w, Cardinality(accepted))]
    BY <1>5 DEF AddKnownName
  <2>2. observerSeq[n] \in Seqs
    BY <1>5, SeqsAreNatural DEF AddKnownName, TypeInv, ObserversTypeOK, SequenceTypeOK, Seqs
  <2>3. Cardinality(accepted) \in Nat
    BY <2>1, <2>2, OldestIsFinite DEF TypeInv, ObserversTypeOK
  <2>4. timeout' = timeout
    BY <1>5 DEF AddKnownName
  <2> QED
    BY <1>0, <2>1, <2>3, <2>4, RestIsBelow
<1>6. CASE \/ StoreEvent \/ ClearAllData \/ RunTask \/ FinishReceive \/ UNCHANGED vars
           \/ \E s \in Seqs : InsertEventMapping(s)
    BY <1>1, <1>6 DEF StoreEvent, InsertEventMapping, ClearAllData, RunTask, FinishReceive, vars
<1>7. ASSUME NEW w \in Watcher, RegisterObserver(w) PROVE CountsStayBelow'
    BY <1>1, <1>7 DEF RegisterObserver
<1>8. ASSUME NEW w \in Watcher, NEW n \in Name, AddNewName(w, n) PROVE CountsStayBelow'
    BY <1>1, <1>8 DEF AddNewName
<1>9. ASSUME NEW n \in Name, RemoveWatcher(n) PROVE CountsStayBelow'
    BY <1>1, <1>9 DEF RemoveWatcher
<1>10. ASSUME NEW s \in Seqs, TakeNext(s) PROVE CountsStayBelow'
    BY <1>1, <1>10 DEF TakeNext
<1> QED
    BY <1>2, <1>3, <1>4, <1>5, <1>6, <1>7, <1>8, <1>9, <1>10
    DEF Next, HandleEvents, ClearData, RunTasks, AddWatcher

(* Whatever adds to the counts, single events, old events or time, takes off *)
(* what it triggers for.                                                     *)
THEOREM ConditionsTriggerInTime == Spec => []CountsStayBelow
<1>1. Init => CountsStayBelow
    BY DEF Init, CountsStayBelow
<1> QED
    BY <1>1, CountStep, TypesAndTimer, PTL DEF Spec

-----------------------------------------------------------------------------
(* What the timer runs for.                                                  *)

\* No event that was stored before counts for a watcher that is added.
NoOldEventIsCounted == [][\A w \in Watcher : adding # w /\ adding' = w => row'[w] = 0]_vars

\* While a registered watcher waits for its time to pass, the timer runs.
TimerRunsForAll ==
    \A s \in Registered : HasTimeoutCondition(watchers[s], row[watchers[s]]) => hasHandleTimeout

(* Nothing is counted for a watcher until it is registered.                  *)
NeededInv == TimerRunsForAll /\ (adding # NoWatcher => row[adding] = 0)

LEMMA NeededStep ==
    ASSUME TypeInv, ContextInv, NeededInv, [Next]_vars,
           \A w \in Watcher : adding # w /\ adding' = w => row'[w] = 0
    PROVE  NeededInv'
<1> USE DEF NeededInv, TimerRunsForAll, HasTimeoutCondition, Registered
<1>0. /\ watchers \in [Seqs -> Watcher \cup {NoWatcher}] /\ row \in [Watcher -> Nat]
      /\ \A s \in Registered : watchers[s] \in Watcher /\ watchers[s] # adding
      /\ handling.seqs \subseteq Registered /\ adding \in Watcher \cup {NoWatcher}
    BY DEF TypeInv, ObserversTypeOK, SequenceTypeOK, ConditionTypeOK, ThreadTypeOK, ContextInv
<1>1. CASE UNCHANGED <<watchers, row, hasHandleTimeout, adding>>
    BY <1>1
<1>2. CASE SendEvents
  <2>1. adding' = adding /\ watchers' = watchers
    BY <1>2 DEF SendEvents, jsVars
  <2>2. hasHandleTimeout' = (hasHandleTimeout \/ \E s \in Registered : HasTimeoutCondition(watchers[s], row'[watchers[s]]))
    BY <1>2 DEF SendEvents, StartTimer
  <2>3. adding # NoWatcher => row'[adding] = row[adding]
    BY <1>0, <1>2 DEF SendEvents
  <2> QED
    BY <2>1, <2>2, <2>3
<1>3. CASE HandleTimeout
  <2>1. adding' = adding /\ watchers' = watchers /\ \A w \in Watcher : row'[w] \in {row[w], 0}
    BY <1>3 DEF HandleTimeout, jsVars
  <2>2. hasHandleTimeout' = (hasHandleTimeout /\ \E w \in {watchers[s] : s \in Registered} : HasTimeoutCondition(w, row'[w]))
    BY <1>3 DEF HandleTimeout, KeepTimer
  <2>3. ASSUME NEW s \in Registered, HasTimeoutCondition(watchers[s], row'[watchers[s]])
        PROVE  hasHandleTimeout'
    <3>1. row[watchers[s]] > 0
      BY <1>0, <2>1, <2>3
    <3>2. hasHandleTimeout
      BY <2>3, <3>1
    <3>3. watchers[s] \in {watchers[q] : q \in Registered}
      OBVIOUS
    <3> QED
      BY <2>2, <2>3, <3>2, <3>3
  <2>4. adding # NoWatcher => row'[adding] = 0
    BY <1>0, <2>1
  <2> QED
    BY <2>1, <2>3, <2>4
<1>4. CASE HandleClearUp
    BY <1>0, <1>4 DEF HandleClearUp, IsRegistered, timerVars
<1>5. ASSUME NEW w \in Watcher, (\E n \in Name : AddKnownName(w, n) \/ AddNewName(w, n)) PROVE NeededInv'
  <2>1. /\ adding = NoWatcher /\ adding' = w /\ UNCHANGED <<watchers, hasHandleTimeout>>
        /\ \A v \in Watcher \ {w} : row'[v] = row[v]
    BY <1>0, <1>5 DEF AddKnownName, AddNewName, JsFree, timerVars, condVars
  <2>2. row'[w] = 0
    BY <2>1
  <2> QED
    BY <1>0, <2>1, <2>2
<1>6. ASSUME NEW w \in Watcher, RegisterObserver(w) PROVE NeededInv'
  <2>1. /\ adding = w /\ adding' = NoWatcher /\ UNCHANGED <<row, hasHandleTimeout>>
        /\ watchers' = [watchers EXCEPT ![seqOf[w]] = w]
    BY <1>6 DEF RegisterObserver, timerVars, condVars
  <2> QED
    BY <1>0, <2>1
<1>7. ASSUME NEW n \in Name, RemoveWatcher(n) PROVE NeededInv'
    BY <1>0, <1>7 DEF RemoveWatcher, jsVars, timerVars, condVars
<1>8. CASE \/ StoreEvent \/ ClearAllData \/ RunTask \/ FinishReceive \/ UNCHANGED vars
           \/ \E s \in Seqs : InsertEventMapping(s)
    BY <1>1, <1>8 DEF StoreEvent, InsertEventMapping, ClearAllData, RunTask, FinishReceive, vars, jsVars, timerVars, condVars
<1>9. ASSUME NEW s \in Seqs, TakeNext(s) PROVE NeededInv'
    BY <1>1, <1>9 DEF TakeNext, timerVars, condVars
<1> QED
    BY <1>2, <1>3, <1>4, <1>5, <1>6, <1>7, <1>8, <1>9
    DEF Next, HandleEvents, ClearData, RunTasks, AddWatcher

(* Old events, which are counted before their watcher is registered, are the *)
(* only thing a watcher can wait for without a timer: no event, time-out,     *)
(* removal, replacement or clearing stops it while somebody needs it.         *)
THEOREM OnlyOldEventsMissTheTimer == Spec /\ NoOldEventIsCounted => []TimerRunsForAll
<1>1. Init => NeededInv
    BY DEF Init, NeededInv, TimerRunsForAll, Registered
<1>2. TypeInv /\ ContextInv /\ NeededInv /\ [Next]_vars
          /\ [\A w \in Watcher : adding # w /\ adding' = w => row'[w] = 0]_vars => NeededInv'
  <2>1. UNCHANGED vars => \A w \in Watcher : ~(adding # w /\ adding' = w)
    BY DEF vars, jsVars
  <2> QED
    BY <2>1, NeededStep
<1>3. NeededInv => TimerRunsForAll
    BY DEF NeededInv
<1> QED
    BY <1>1, <1>2, <1>3, ContextsSafe, PTL DEF Spec, NoOldEventIsCounted

=============================================================================
