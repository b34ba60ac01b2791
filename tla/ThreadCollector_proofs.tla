---------------------- MODULE ThreadCollector_proofs -------------------------
(***************************************************************************)
(* The safety of ThreadCollector for every set of runners: its types and   *)
(* locks, that no thread is joined twice, that every thread the daemon is  *)
(* asked for is in the map, that no request is forgotten, what the exit    *)
(* waits for, and what is left when ~Avatar returns.                       *)
(***************************************************************************)
EXTENDS ThreadCollector, TLAPS

USE CollectorAssumption

-----------------------------------------------------------------------------
(* Every step keeps the types and the ownership of the lock. *)
LEMMA TypeStep == CollectorTypeOK /\ [Next]_vars => CollectorTypeOK'
<1> SUFFICES ASSUME CollectorTypeOK, [Next]_vars PROVE CollectorTypeOK'
    OBVIOUS
<1> USE DEF CollectorTypeOK, runnerVars, collectorVars, daemonVars, lockVars, exitVars
<1>1. ASSUME NEW r \in Runner, Create(r) PROVE CollectorTypeOK'
    BY <1>1 DEF Create, Move
<1>2. ASSUME NEW r \in Runner, Release(r) PROVE CollectorTypeOK'
    BY <1>2 DEF Release, Move
<1>3. ASSUME NEW r \in Runner, Deposit(r) PROVE CollectorTypeOK'
    BY <1>3 DEF Deposit, Move
<1>4. ASSUME NEW r \in Runner, DepositRefused(r) PROVE CollectorTypeOK'
    BY <1>4 DEF DepositRefused, Move
<1>5. ASSUME NEW r \in Runner, StopRefused(r) PROVE CollectorTypeOK'
    BY <1>5 DEF StopRefused, Move, Finish
<1>6. ASSUME NEW r \in Runner, JoinRefused(r) PROVE CollectorTypeOK'
    BY <1>6 DEF JoinRefused, Move
<1>7. ASSUME NEW r \in Runner, Destroy(r) PROVE CollectorTypeOK'
    BY <1>7 DEF Destroy, Move, Finish
<1>8. ASSUME NEW r \in Runner, InnerIsGone(r) PROVE CollectorTypeOK'
    BY <1>8 DEF InnerIsGone, Move
<1>9. ASSUME NEW r \in Runner, Prepare(r) PROVE CollectorTypeOK'
    BY <1>9 DEF Prepare, Move
<1>10. ASSUME NEW r \in Runner, CheckOwner(r) PROVE CollectorTypeOK'
    BY <1>10 DEF CheckOwner, Move, OwnerExpired
<1>11. ASSUME NEW r \in Runner, LeaveLoop(r) PROVE CollectorTypeOK'
    BY <1>11 DEF LeaveLoop, Move
<1>12. ASSUME NEW r \in Runner, NotReclaimed(r) PROVE CollectorTypeOK'
    BY <1>12 DEF NotReclaimed, Move
<1>13. ASSUME NEW r \in Runner, ReclaimCurrentThread(r) PROVE CollectorTypeOK'
    BY <1>13 DEF ReclaimCurrentThread, Move, NotifyDaemon
<1>14. ASSUME NEW r \in Runner, TryLock(r) PROVE CollectorTypeOK'
    BY <1>14 DEF TryLock, Move, LockIsFree
<1>15. ASSUME NEW r \in Runner, TryLockFails(r) PROVE CollectorTypeOK'
    BY <1>15 DEF TryLockFails, Move
<1>16. ASSUME NEW r \in Runner, CreateDaemon(r) PROVE CollectorTypeOK'
    BY <1>16 DEF CreateDaemon, Move, DaemonIsNeeded
<1>17. ASSUME NEW r \in Runner, DaemonReclaims(r) PROVE CollectorTypeOK'
    BY <1>17 DEF DaemonReclaims, Withdraw
<1>18. ASSUME NEW r \in Runner, ReclaimNext(r) PROVE CollectorTypeOK'
    BY <1>18 DEF ReclaimNext, Withdraw
<1>19. CASE DaemonJoins
    BY <1>19 DEF DaemonJoins
<1>20. CASE DaemonWaits
    BY <1>20 DEF DaemonWaits
<1>21. CASE DaemonWakes
    BY <1>21 DEF DaemonWakes
<1>22. CASE DaemonEnds
    BY <1>22 DEF DaemonEnds
<1>23. CASE StopCollector
    BY <1>23 DEF StopCollector, NotifyDaemon
<1>24. CASE LockThread
    BY <1>24 DEF LockThread, LockIsFree
<1>25. CASE JoinDaemon
    BY <1>25 DEF JoinDaemon
<1>26. CASE ExitThread
    BY <1>26 DEF ExitThread, Finish
<1>27. CASE JoinThread
    BY <1>27 DEF JoinThread
<1>28. CASE ReclaimedAll
    BY <1>28 DEF ReclaimedAll
<1>29. CASE UNCHANGED vars
    BY <1>29 DEF vars
<1> HIDE DEF CollectorTypeOK, runnerVars, collectorVars, daemonVars, lockVars, exitVars
<1> QED
    BY <1>1, <1>2, <1>3, <1>4, <1>5, <1>6, <1>7, <1>8, <1>9, <1>10, <1>11, <1>12, <1>13, <1>14, <1>15, <1>16, <1>17, <1>18, <1>19, <1>20, <1>21, <1>22, <1>23, <1>24, <1>25, <1>26, <1>27, <1>28, <1>29
    DEF Next, Creator, ThreadMain, DaemonWorks, Stop

(* The state is well-typed, and threadLock_ is held exactly by the thread    *)
(* that is between try_lock and unlock, or by Stop.                          *)
THEOREM CollectorTypes == Spec => []CollectorTypeOK
<1>1. Init => CollectorTypeOK
    BY DEF Init, CollectorTypeOK
<1> QED
    BY <1>1, TypeStep, PTL DEF Spec

-----------------------------------------------------------------------------
(* A thread in the map goes to one joiner, and from there to the joined. *)
LEMMA JoinStep == CollectorTypeOK /\ JoinedOnce /\ [Next]_vars => JoinedOnce'
<1> SUFFICES ASSUME CollectorTypeOK, JoinedOnce, [Next]_vars PROVE JoinedOnce'
    OBVIOUS
<1> USE DEF CollectorTypeOK, JoinedOnce, runnerVars, collectorVars, daemonVars, lockVars, exitVars
<1>1. ASSUME NEW r \in Runner, Create(r) PROVE JoinedOnce'
    BY <1>1 DEF Create, Move
<1>2. ASSUME NEW r \in Runner, Release(r) PROVE JoinedOnce'
    BY <1>2 DEF Release, Move
<1>3. ASSUME NEW r \in Runner, Deposit(r) PROVE JoinedOnce'
    BY <1>3 DEF Deposit, Move
<1>4. ASSUME NEW r \in Runner, DepositRefused(r) PROVE JoinedOnce'
    BY <1>4 DEF DepositRefused, Move
<1>5. ASSUME NEW r \in Runner, StopRefused(r) PROVE JoinedOnce'
    BY <1>5 DEF StopRefused, Move, Finish
<1>6. ASSUME NEW r \in Runner, JoinRefused(r) PROVE JoinedOnce'
    BY <1>6 DEF JoinRefused, Move
<1>7. ASSUME NEW r \in Runner, Destroy(r) PROVE JoinedOnce'
    BY <1>7 DEF Destroy, Move, Finish
<1>8. ASSUME NEW r \in Runner, InnerIsGone(r) PROVE JoinedOnce'
    BY <1>8 DEF InnerIsGone, Move
<1>9. ASSUME NEW r \in Runner, Prepare(r) PROVE JoinedOnce'
    BY <1>9 DEF Prepare, Move
<1>10. ASSUME NEW r \in Runner, CheckOwner(r) PROVE JoinedOnce'
    BY <1>10 DEF CheckOwner, Move, OwnerExpired
<1>11. ASSUME NEW r \in Runner, LeaveLoop(r) PROVE JoinedOnce'
    BY <1>11 DEF LeaveLoop, Move
<1>12. ASSUME NEW r \in Runner, NotReclaimed(r) PROVE JoinedOnce'
    BY <1>12 DEF NotReclaimed, Move
<1>13. ASSUME NEW r \in Runner, ReclaimCurrentThread(r) PROVE JoinedOnce'
    BY <1>13 DEF ReclaimCurrentThread, Move, NotifyDaemon
<1>14. ASSUME NEW r \in Runner, TryLock(r) PROVE JoinedOnce'
    BY <1>14 DEF TryLock, Move, LockIsFree
<1>15. ASSUME NEW r \in Runner, TryLockFails(r) PROVE JoinedOnce'
    BY <1>15 DEF TryLockFails, Move
<1>16. ASSUME NEW r \in Runner, CreateDaemon(r) PROVE JoinedOnce'
    BY <1>16 DEF CreateDaemon, Move, DaemonIsNeeded
<1>17. ASSUME NEW r \in Runner, DaemonReclaims(r) PROVE JoinedOnce'
    BY <1>17 DEF DaemonReclaims, Withdraw
<1>18. ASSUME NEW r \in Runner, ReclaimNext(r) PROVE JoinedOnce'
    BY <1>18 DEF ReclaimNext, Withdraw
<1>19. CASE DaemonJoins
    BY <1>19 DEF DaemonJoins
<1>20. CASE DaemonWaits
    BY <1>20 DEF DaemonWaits
<1>21. CASE DaemonWakes
    BY <1>21 DEF DaemonWakes
<1>22. CASE DaemonEnds
    BY <1>22 DEF DaemonEnds
<1>23. CASE StopCollector
    BY <1>23 DEF StopCollector, NotifyDaemon
<1>24. CASE LockThread
    BY <1>24 DEF LockThread, LockIsFree
<1>25. CASE JoinDaemon
    BY <1>25 DEF JoinDaemon
<1>26. CASE ExitThread
    BY <1>26 DEF ExitThread, Finish
<1>27. CASE JoinThread
    BY <1>27 DEF JoinThread
<1>28. CASE ReclaimedAll
    BY <1>28 DEF ReclaimedAll
<1>29. CASE UNCHANGED vars
    BY <1>29 DEF vars
<1> HIDE DEF CollectorTypeOK, JoinedOnce, runnerVars, collectorVars, daemonVars, lockVars, exitVars
<1> QED
    BY <1>1, <1>2, <1>3, <1>4, <1>5, <1>6, <1>7, <1>8, <1>9, <1>10, <1>11, <1>12, <1>13, <1>14, <1>15, <1>16, <1>17, <1>18, <1>19, <1>20, <1>21, <1>22, <1>23, <1>24, <1>25, <1>26, <1>27, <1>28, <1>29
    DEF Next, Creator, ThreadMain, DaemonWorks, Stop

(* No thread is joined twice: DoReclaimLocked takes the thread out of the    *)
(* map before it unlocks, so the daemon, the exit and a refused creator      *)
(* never hold the same one.                                                  *)
THEOREM ThreadsAreJoinedOnce == Spec => []JoinedOnce
<1>1. Init => JoinedOnce
    BY DEF Init, JoinedOnce
<1> QED
    BY <1>1, JoinStep, CollectorTypes, PTL DEF Spec

-----------------------------------------------------------------------------
Past(r) == creator[r] \in {"created", "released", "destroyed"}

(* While nobody exits, a thread leaves its loop only after it was deposited: *)
(* until then its creator holds the runner, and nobody finishes its queue.   *)
DepositedFirst ==
    /\ (exit # "no" \/ \E r \in Runner : creator[r] \in {"refused", "joining"}) => destroying
    /\ ~destroying => \A r \in Runner :
           /\ creator[r] = "spawned" =>
                  /\ thread[r] \in {"start", "prepared", "loop"}
                  /\ thread[r] # "start" => ~finished[r]
           /\ Past(r) /\ thread[r] \in {"start", "prepared", "loop", "left"} => r \in deposited
           /\ r \in reclaims => r \in deposited /\ thread[r] \in {"reclaimed", "locked", "ended"}

(* Every step keeps that order. *)
LEMMA DepositStep == CollectorTypeOK /\ DepositedFirst /\ [Next]_vars => DepositedFirst'
<1> SUFFICES ASSUME CollectorTypeOK, DepositedFirst, [Next]_vars PROVE DepositedFirst'
    OBVIOUS
<1> USE DEF CollectorTypeOK, DepositedFirst, Past, runnerVars, collectorVars, daemonVars, lockVars, exitVars
<1>1. ASSUME NEW r \in Runner, Create(r) PROVE DepositedFirst'
    BY <1>1 DEF Create, Move
<1>2. ASSUME NEW r \in Runner, Release(r) PROVE DepositedFirst'
    BY <1>2 DEF Release, Move
<1>3. ASSUME NEW r \in Runner, Deposit(r) PROVE DepositedFirst'
    BY <1>3 DEF Deposit, Move
<1>4. ASSUME NEW r \in Runner, DepositRefused(r) PROVE DepositedFirst'
    BY <1>4 DEF DepositRefused, Move
<1>5. ASSUME NEW r \in Runner, StopRefused(r) PROVE DepositedFirst'
    BY <1>5 DEF StopRefused, Move, Finish
<1>6. ASSUME NEW r \in Runner, JoinRefused(r) PROVE DepositedFirst'
    BY <1>6 DEF JoinRefused, Move
<1>7. ASSUME NEW r \in Runner, Destroy(r) PROVE DepositedFirst'
    BY <1>7 DEF Destroy, Move, Finish
<1>8. ASSUME NEW r \in Runner, InnerIsGone(r) PROVE DepositedFirst'
    BY <1>8 DEF InnerIsGone, Move
<1>9. ASSUME NEW r \in Runner, Prepare(r) PROVE DepositedFirst'
    BY <1>9 DEF Prepare, Move
<1>10. ASSUME NEW r \in Runner, CheckOwner(r) PROVE DepositedFirst'
    BY <1>10 DEF CheckOwner, Move, OwnerExpired
<1>11. ASSUME NEW r \in Runner, LeaveLoop(r) PROVE DepositedFirst'
    BY <1>11 DEF LeaveLoop, Move
<1>12. ASSUME NEW r \in Runner, NotReclaimed(r) PROVE DepositedFirst'
    BY <1>12 DEF NotReclaimed, Move
<1>13. ASSUME NEW r \in Runner, ReclaimCurrentThread(r) PROVE DepositedFirst'
    BY <1>13 DEF ReclaimCurrentThread, Move, NotifyDaemon
<1>14. ASSUME NEW r \in Runner, TryLock(r) PROVE DepositedFirst'
    BY <1>14 DEF TryLock, Move, LockIsFree
<1>15. ASSUME NEW r \in Runner, TryLockFails(r) PROVE DepositedFirst'
    BY <1>15 DEF TryLockFails, Move
<1>16. ASSUME NEW r \in Runner, CreateDaemon(r) PROVE DepositedFirst'
    BY <1>16 DEF CreateDaemon, Move, DaemonIsNeeded
<1>17. ASSUME NEW r \in Runner, DaemonReclaims(r) PROVE DepositedFirst'
    BY <1>17 DEF DaemonReclaims, Withdraw
<1>18. ASSUME NEW r \in Runner, ReclaimNext(r) PROVE DepositedFirst'
    BY <1>18 DEF ReclaimNext, Withdraw
<1>19. CASE DaemonJoins
    BY <1>19 DEF DaemonJoins
<1>20. CASE DaemonWaits
    BY <1>20 DEF DaemonWaits
<1>21. CASE DaemonWakes
    BY <1>21 DEF DaemonWakes
<1>22. CASE DaemonEnds
    BY <1>22 DEF DaemonEnds
<1>23. CASE StopCollector
    BY <1>23 DEF StopCollector, NotifyDaemon
<1>24. CASE LockThread
    BY <1>24 DEF LockThread, LockIsFree
<1>25. CASE JoinDaemon
    BY <1>25 DEF JoinDaemon
<1>26. CASE ExitThread
    BY <1>26 DEF ExitThread, Finish
<1>27. CASE JoinThread
    BY <1>27 DEF JoinThread
<1>28. CASE ReclaimedAll
    BY <1>28 DEF ReclaimedAll
<1>29. CASE UNCHANGED vars
    BY <1>29 DEF vars
<1> HIDE DEF CollectorTypeOK, DepositedFirst, Past, runnerVars, collectorVars, daemonVars, lockVars, exitVars
<1> QED
    BY <1>1, <1>2, <1>3, <1>4, <1>5, <1>6, <1>7, <1>8, <1>9, <1>10, <1>11, <1>12, <1>13, <1>14, <1>15, <1>16, <1>17, <1>18, <1>19, <1>20, <1>21, <1>22, <1>23, <1>24, <1>25, <1>26, <1>27, <1>28, <1>29
    DEF Next, Creator, ThreadMain, DaemonWorks, Stop

(* The daemon finds every thread it is asked for: a thread asks to be        *)
(* reclaimed only after Create has deposited it.                             *)
THEOREM ReclaimsFindTheirThread == Spec => []ReclaimsAreDeposited
<1>1. Init => DepositedFirst
    BY DEF Init, DepositedFirst, Past
<1>2. CollectorTypeOK /\ DepositedFirst => ReclaimsAreDeposited
    BY DEF CollectorTypeOK, DepositedFirst, ReclaimsAreDeposited
<1> QED
    BY <1>1, <1>2, DepositStep, CollectorTypes, PTL DEF Spec

-----------------------------------------------------------------------------
(* Every thread whose creation has returned is in the map, with one of the   *)
(* joiners or joined; from ReclaimAll on there is no daemon and never will   *)
(* be one, and the map is empty in the end.                                  *)
ThreadsAreAccounted ==
    /\ exit # "no" => destroying
    /\ exit \in {"reclaim", "finish", "join", "done"} =>
           daemon \in {"none", "ended"} /\ ~needCreateThread
    /\ exit = "done" => deposited = {}
    /\ \A r \in Runner : Past(r) => r \in deposited \cup joined \cup {daemonJoins, exitJoins}

(* Every step keeps the account. *)
LEMMA AccountStep == CollectorTypeOK /\ ThreadsAreAccounted /\ [Next]_vars => ThreadsAreAccounted'
<1> SUFFICES ASSUME CollectorTypeOK, ThreadsAreAccounted, [Next]_vars PROVE ThreadsAreAccounted'
    OBVIOUS
<1> USE DEF CollectorTypeOK, ThreadsAreAccounted, Past, runnerVars, collectorVars, daemonVars, lockVars, exitVars
<1>1. ASSUME NEW r \in Runner, Create(r) PROVE ThreadsAreAccounted'
    BY <1>1 DEF Create, Move
<1>2. ASSUME NEW r \in Runner, Release(r) PROVE ThreadsAreAccounted'
    BY <1>2 DEF Release, Move
<1>3. ASSUME NEW r \in Runner, Deposit(r) PROVE ThreadsAreAccounted'
    BY <1>3 DEF Deposit, Move
<1>4. ASSUME NEW r \in Runner, DepositRefused(r) PROVE ThreadsAreAccounted'
    BY <1>4 DEF DepositRefused, Move
<1>5. ASSUME NEW r \in Runner, StopRefused(r) PROVE ThreadsAreAccounted'
    BY <1>5 DEF StopRefused, Move, Finish
<1>6. ASSUME NEW r \in Runner, JoinRefused(r) PROVE ThreadsAreAccounted'
    BY <1>6 DEF JoinRefused, Move
<1>7. ASSUME NEW r \in Runner, Destroy(r) PROVE ThreadsAreAccounted'
    BY <1>7 DEF Destroy, Move, Finish
<1>8. ASSUME NEW r \in Runner, InnerIsGone(r) PROVE ThreadsAreAccounted'
    BY <1>8 DEF InnerIsGone, Move
<1>9. ASSUME NEW r \in Runner, Prepare(r) PROVE ThreadsAreAccounted'
    BY <1>9 DEF Prepare, Move
<1>10. ASSUME NEW r \in Runner, CheckOwner(r) PROVE ThreadsAreAccounted'
    BY <1>10 DEF CheckOwner, Move, OwnerExpired
<1>11. ASSUME NEW r \in Runner, LeaveLoop(r) PROVE ThreadsAreAccounted'
    BY <1>11 DEF LeaveLoop, Move
<1>12. ASSUME NEW r \in Runner, NotReclaimed(r) PROVE ThreadsAreAccounted'
    BY <1>12 DEF NotReclaimed, Move
<1>13. ASSUME NEW r \in Runner, ReclaimCurrentThread(r) PROVE ThreadsAreAccounted'
    BY <1>13 DEF ReclaimCurrentThread, Move, NotifyDaemon
<1>14. ASSUME NEW r \in Runner, TryLock(r) PROVE ThreadsAreAccounted'
    BY <1>14 DEF TryLock, Move, LockIsFree
<1>15. ASSUME NEW r \in Runner, TryLockFails(r) PROVE ThreadsAreAccounted'
    BY <1>15 DEF TryLockFails, Move
<1>16. ASSUME NEW r \in Runner, CreateDaemon(r) PROVE ThreadsAreAccounted'
    BY <1>16 DEF CreateDaemon, Move, DaemonIsNeeded
<1>17. ASSUME NEW r \in Runner, DaemonReclaims(r) PROVE ThreadsAreAccounted'
    BY <1>17 DEF DaemonReclaims, Withdraw
<1>18. ASSUME NEW r \in Runner, ReclaimNext(r) PROVE ThreadsAreAccounted'
    BY <1>18 DEF ReclaimNext, Withdraw
<1>19. CASE DaemonJoins
    BY <1>19 DEF DaemonJoins
<1>20. CASE DaemonWaits
    BY <1>20 DEF DaemonWaits
<1>21. CASE DaemonWakes
    BY <1>21 DEF DaemonWakes
<1>22. CASE DaemonEnds
    BY <1>22 DEF DaemonEnds
<1>23. CASE StopCollector
    BY <1>23 DEF StopCollector, NotifyDaemon
<1>24. CASE LockThread
    BY <1>24 DEF LockThread, LockIsFree
<1>25. CASE JoinDaemon
    BY <1>25 DEF JoinDaemon
<1>26. CASE ExitThread
    BY <1>26 DEF ExitThread, Finish
<1>27. CASE JoinThread
    BY <1>27 DEF JoinThread
<1>28. CASE ReclaimedAll
    BY <1>28 DEF ReclaimedAll
<1>29. CASE UNCHANGED vars
    BY <1>29 DEF vars
<1> HIDE DEF CollectorTypeOK, ThreadsAreAccounted, Past, runnerVars, collectorVars, daemonVars, lockVars, exitVars
<1> QED
    BY <1>1, <1>2, <1>3, <1>4, <1>5, <1>6, <1>7, <1>8, <1>9, <1>10, <1>11, <1>12, <1>13, <1>14, <1>15, <1>16, <1>17, <1>18, <1>19, <1>20, <1>21, <1>22, <1>23, <1>24, <1>25, <1>26, <1>27, <1>28, <1>29
    DEF Next, Creator, ThreadMain, DaemonWorks, Stop

(* Whatever the exit interleaves with, nothing of the collector is alive     *)
(* when ~Avatar returns, and nothing will be.                                *)
THEOREM ExitLeavesNothing == Spec => []NothingAfterExit
<1>1. Init => ThreadsAreAccounted
    BY DEF Init, ThreadsAreAccounted, Past
<1>2. CollectorTypeOK /\ ThreadsAreAccounted => NothingAfterExit
    BY DEF CollectorTypeOK, ThreadsAreAccounted, NothingAfterExit, Past
<1> QED
    BY <1>1, <1>2, AccountStep, CollectorTypes, PTL DEF Spec

-----------------------------------------------------------------------------
(* Requests to the daemon, and the loops of destroyed runners.             *)

\* The threads that have asked to be reclaimed.
Ending == {r \in Runner : thread[r] \in {"reclaimed", "locked", "ended"}}

\* The daemon looks at its requests again before it sleeps, or has been woken, or a
\* thread that will create it has not yet come to try_lock.
DaemonIsOnItsWay ==
    \/ daemon \in {"run", "join", "joined"}
    \/ daemon = "waiting" /\ notified
    \/ daemon = "none" /\ \E r \in Runner : thread[r] \in {"reclaimed", "locked"}

\* Until the exit, a thread that has asked to be reclaimed is joined, being joined or
\* still requested, and no request lies there without somebody on his way to it,
\* although a thread that fails try_lock leaves the daemon to another.  The daemon
\* never waits for a thread in its loop, and the exit wakes it.
RequestsAreServed ==
    /\ ~destroying =>
           /\ Ending \subseteq reclaims \cup joined \cup {daemonJoins}
           /\ reclaims # {} => DaemonIsOnItsWay
    /\ destroying /\ daemon = "waiting" => notified
    /\ daemonJoins \in Ending \cup {NoRunner}

\* What ~EventRunner finishes stays finished, though the thread may not even have
\* started by then: a runner that is destroyed has no loop that goes on.
DestroyedAreFinished ==
    \A r \in Runner : creator[r] = "destroyed" /\ thread[r] = "loop" => finished[r]

(* The daemon is missing only before the first request, and while nobody     *)
(* exits it may be created and does not end.                                 *)
ServiceInv ==
    /\ exit # "no" => destroying
    /\ ~destroying => needCreateThread /\ daemon # "ended"
    /\ reclaims \subseteq Ending
    /\ RequestsAreServed
    /\ DestroyedAreFinished

(* Every step serves the requests. *)
LEMMA ServiceStep == CollectorTypeOK /\ ReclaimsAreDeposited /\ ServiceInv /\ [Next]_vars => ServiceInv'
<1> SUFFICES ASSUME CollectorTypeOK, ReclaimsAreDeposited, ServiceInv, [Next]_vars PROVE ServiceInv'
    OBVIOUS
<1> USE DEF CollectorTypeOK, ReclaimsAreDeposited, ServiceInv, RequestsAreServed, DestroyedAreFinished, Ending, DaemonIsOnItsWay, runnerVars, collectorVars, daemonVars, lockVars, exitVars
<1>1. ASSUME NEW r \in Runner, Create(r) PROVE ServiceInv'
    BY <1>1 DEF Create, Move
<1>2. ASSUME NEW r \in Runner, Release(r) PROVE ServiceInv'
    BY <1>2 DEF Release, Move
<1>3. ASSUME NEW r \in Runner, Deposit(r) PROVE ServiceInv'
    BY <1>3 DEF Deposit, Move
<1>4. ASSUME NEW r \in Runner, DepositRefused(r) PROVE ServiceInv'
    BY <1>4 DEF DepositRefused, Move
<1>5. ASSUME NEW r \in Runner, StopRefused(r) PROVE ServiceInv'
    BY <1>5 DEF StopRefused, Move, Finish
<1>6. ASSUME NEW r \in Runner, JoinRefused(r) PROVE ServiceInv'
    BY <1>6 DEF JoinRefused, Move
<1>7. ASSUME NEW r \in Runner, Destroy(r) PROVE ServiceInv'
    BY <1>7 DEF Destroy, Move, Finish
<1>8. ASSUME NEW r \in Runner, InnerIsGone(r) PROVE ServiceInv'
    BY <1>8 DEF InnerIsGone, Move
<1>9. ASSUME NEW r \in Runner, Prepare(r) PROVE ServiceInv'
    BY <1>9 DEF Prepare, Move
<1>10. ASSUME NEW r \in Runner, CheckOwner(r) PROVE ServiceInv'
    BY <1>10 DEF CheckOwner, Move, OwnerExpired
<1>11. ASSUME NEW r \in Runner, LeaveLoop(r) PROVE ServiceInv'
    BY <1>11 DEF LeaveLoop, Move
<1>12. ASSUME NEW r \in Runner, NotReclaimed(r) PROVE ServiceInv'
    BY <1>12 DEF NotReclaimed, Move
<1>13. ASSUME NEW r \in Runner, ReclaimCurrentThread(r) PROVE ServiceInv'
  <2>1. /\ thread[r] = "left" /\ thread' = [thread EXCEPT ![r] = "reclaimed"]
        /\ reclaims' = reclaims \cup {r} /\ ~destroying /\ (daemon = "waiting" => notified')
        /\ UNCHANGED <<creator, finished, deposited, destroying, joined, daemon, daemonJoins, needCreateThread, exit>>
    BY <1>13 DEF ReclaimCurrentThread, Move, NotifyDaemon
  <2>2. Ending' = Ending \cup {r}
    BY <2>1
  <2>3. DaemonIsOnItsWay'
    BY <2>1
  <2>4. RequestsAreServed'
    BY <2>1, <2>2, <2>3
  <2> QED
    BY <2>1, <2>2, <2>4
<1>14. ASSUME NEW r \in Runner, TryLock(r) PROVE ServiceInv'
    BY <1>14 DEF TryLock, Move, LockIsFree
<1>15. ASSUME NEW r \in Runner, TryLockFails(r) PROVE ServiceInv'
  <2>1. /\ thread[r] = "reclaimed" /\ thread' = [thread EXCEPT ![r] = "ended"] /\ threadLock # NoRunner
        /\ UNCHANGED <<creator, finished, collectorVars, daemonVars, lockVars, exitVars>>
    BY <1>15 DEF TryLockFails, Move, LockIsFree
  <2>2. Ending' = Ending
    BY <2>1
  <2>3. ~destroying => \E q \in Runner : thread'[q] = "locked"
    BY <2>1
  <2>4. ~destroying /\ DaemonIsOnItsWay => DaemonIsOnItsWay'
    BY <2>1, <2>3
  <2>5. RequestsAreServed'
    BY <2>1, <2>2, <2>4
  <2> QED
    BY <2>1, <2>2, <2>5
<1>16. ASSUME NEW r \in Runner, CreateDaemon(r) PROVE ServiceInv'
    BY <1>16 DEF CreateDaemon, Move, DaemonIsNeeded
<1>17. ASSUME NEW r \in Runner, DaemonReclaims(r) PROVE ServiceInv'
    BY <1>17 DEF DaemonReclaims, Withdraw
<1>18. ASSUME NEW r \in Runner, ReclaimNext(r) PROVE ServiceInv'
    BY <1>18 DEF ReclaimNext, Withdraw
<1>19. CASE DaemonJoins
    BY <1>19 DEF DaemonJoins
<1>20. CASE DaemonWaits
    BY <1>20 DEF DaemonWaits
<1>21. CASE DaemonWakes
    BY <1>21 DEF DaemonWakes
<1>22. CASE DaemonEnds
    BY <1>22 DEF DaemonEnds
<1>23. CASE StopCollector
    BY <1>23 DEF StopCollector, NotifyDaemon
<1>24. CASE LockThread
    BY <1>24 DEF LockThread, LockIsFree
<1>25. CASE JoinDaemon
    BY <1>25 DEF JoinDaemon
<1>26. CASE ExitThread
    BY <1>26 DEF ExitThread, Finish
<1>27. CASE JoinThread
    BY <1>27 DEF JoinThread
<1>28. CASE ReclaimedAll
    BY <1>28 DEF ReclaimedAll
<1>29. CASE UNCHANGED vars
    BY <1>29 DEF vars
<1> HIDE DEF CollectorTypeOK, ReclaimsAreDeposited, ServiceInv, RequestsAreServed, DestroyedAreFinished, Ending, DaemonIsOnItsWay, runnerVars, collectorVars, daemonVars, lockVars, exitVars
<1> QED
    BY <1>1, <1>2, <1>3, <1>4, <1>5, <1>6, <1>7, <1>8, <1>9, <1>10, <1>11, <1>12, <1>13, <1>14, <1>15, <1>16, <1>17, <1>18, <1>19, <1>20, <1>21, <1>22, <1>23, <1>24, <1>25, <1>26, <1>27, <1>28, <1>29
    DEF Next, Creator, ThreadMain, DaemonWorks, Stop

LEMMA ServiceInvariant == Spec => []ServiceInv
<1>1. Init => ServiceInv
    BY DEF Init, ServiceInv, RequestsAreServed, DestroyedAreFinished, Ending
<1> QED
    BY <1>1, ServiceStep, CollectorTypes, ReclaimsFindTheirThread, PTL DEF Spec

(* No wake-up of the daemon is lost and no thread is forgotten, however its   *)
(* request interleaves with the daemon's going to sleep and with the others   *)
(* who try to create it.                                                      *)
THEOREM RequestsReachTheDaemon == Spec => []RequestsAreServed
<1>1. ServiceInv => RequestsAreServed
    BY DEF ServiceInv
<1> QED
    BY <1>1, ServiceInvariant, PTL

(* Prepare, which clears finished_, comes before the test of the owner, which *)
(* a released runner fails.                                                   *)
THEOREM DestructionIsNotUndone == Spec => []DestroyedAreFinished
<1>1. ServiceInv => DestroyedAreFinished
    BY DEF ServiceInv
<1> QED
    BY <1>1, ServiceInvariant, PTL

-----------------------------------------------------------------------------
(* What an exit waits for.                                                 *)

\* Create, whose deposit was refused, or ReclaimAll joins the thread of r.
Awaited(r) == creator[r] = "joining" \/ (exit = "join" /\ exitJoins = r)

\* ... before which it finishes the thread's queue.
FinishesFor(r) == StopRefused(r) \/ (ExitThread /\ exitJoins = r)

\* No queue is finished for a join while the thread has still to come to Prepare.
NoneIsFinishedEarly == [][\A r \in Runner : FinishesFor(r) => thread[r] # "start"]_vars

\* Who is joined is not in a loop that goes on.
AwaitedAreFinished ==
    \A r \in Runner : Awaited(r) /\ thread[r] \in {"prepared", "loop"} => finished[r]

AwaitedInv == AwaitedAreFinished /\ \A r \in Runner : Awaited(r) => thread[r] # "start"

LEMMA AwaitedStep ==
    ASSUME CollectorTypeOK, JoinedOnce, AwaitedInv, [Next]_vars,
           \A r \in Runner : FinishesFor(r) => thread[r] # "start"
    PROVE  AwaitedInv'
<1> USE DEF CollectorTypeOK, AwaitedInv, AwaitedAreFinished, Awaited, runnerVars, collectorVars, daemonVars,
            lockVars, exitVars
<1>1. ASSUME NEW r \in Runner, Create(r) PROVE AwaitedInv'
    BY <1>1 DEF Create, Move, JoinedOnce
<1>2. ASSUME NEW r \in Runner, Prepare(r) PROVE AwaitedInv'
    BY <1>2 DEF Prepare, Move
<1>3. ASSUME NEW r \in Runner, StopRefused(r) PROVE AwaitedInv'
    BY <1>3 DEF StopRefused, Move, Finish, FinishesFor
<1>4. CASE ExitThread
    BY <1>4 DEF ExitThread, Finish, FinishesFor
<1>5. ASSUME NEW r \in Runner, Destroy(r) PROVE AwaitedInv'
    BY <1>5 DEF Destroy, Move, Finish
<1>6. ASSUME NEW r \in Runner, Release(r) \/ Deposit(r) \/ DepositRefused(r) \/ JoinRefused(r) PROVE AwaitedInv'
    BY <1>6 DEF Release, Deposit, DepositRefused, JoinRefused, Move
<1>7. ASSUME NEW r \in Runner, CheckOwner(r) PROVE AwaitedInv'
    BY <1>7 DEF CheckOwner, Move, OwnerExpired
<1>8. ASSUME NEW r \in Runner, InnerIsGone(r) \/ LeaveLoop(r) \/ NotReclaimed(r) PROVE AwaitedInv'
    BY <1>8 DEF InnerIsGone, LeaveLoop, NotReclaimed, Move
<1>9. ASSUME NEW r \in Runner, ReclaimCurrentThread(r) \/ TryLock(r) \/ TryLockFails(r) \/ CreateDaemon(r)
      PROVE  AwaitedInv'
    BY <1>9 DEF ReclaimCurrentThread, TryLock, TryLockFails, CreateDaemon, Move
<1>10. ASSUME DaemonWorks \/ DaemonWakes PROVE AwaitedInv'
    BY <1>10 DEF DaemonWorks, DaemonReclaims, DaemonJoins, DaemonWaits, DaemonEnds, DaemonWakes
<1>11. ASSUME NEW r \in Runner, ReclaimNext(r) PROVE AwaitedInv'
    BY <1>11 DEF ReclaimNext
<1>12. CASE StopCollector \/ LockThread \/ JoinDaemon \/ JoinThread \/ ReclaimedAll
    BY <1>12 DEF StopCollector, LockThread, JoinDaemon, JoinThread, ReclaimedAll
<1>13. CASE UNCHANGED vars
    BY <1>13 DEF vars
<1> HIDE DEF CollectorTypeOK, AwaitedInv, AwaitedAreFinished, Awaited, runnerVars, collectorVars, daemonVars,
             lockVars, exitVars
<1> QED
    BY <1>1, <1>2, <1>3, <1>4, <1>5, <1>6, <1>7, <1>8, <1>9, <1>10, <1>11, <1>12, <1>13
    DEF Next, Creator, ThreadMain, Stop

(* That ~Avatar may wait for ever (ExitEnds is violated) has one cause: it    *)
(* finished a queue whose thread came to Prepare only afterwards.  Where that *)
(* does not happen, the exit and a refused Create join ending threads only.   *)
THEOREM OnlyLatePrepareKeepsTheExit == Spec /\ NoneIsFinishedEarly => []AwaitedAreFinished
<1>1. Init => AwaitedInv
    BY DEF Init, AwaitedInv, AwaitedAreFinished, Awaited
<1>2. CollectorTypeOK /\ JoinedOnce /\ AwaitedInv /\ [Next]_vars
          /\ [\A r \in Runner : FinishesFor(r) => thread[r] # "start"]_vars => AwaitedInv'
  <2>1. UNCHANGED vars /\ AwaitedInv => AwaitedInv'
    BY DEF vars, runnerVars, exitVars, AwaitedInv, AwaitedAreFinished, Awaited
  <2> QED
    BY <2>1, AwaitedStep
<1>3. AwaitedInv => AwaitedAreFinished
    BY DEF AwaitedInv
<1> QED
    BY <1>1, <1>2, <1>3, CollectorTypes, ThreadsAreJoinedOnce, PTL DEF Spec, NoneIsFinishedEarly
=============================================================================
