---------------------------- MODULE ThreadCollector --------------------------
(***************************************************************************)
(* The life of the event runners that own a thread: EventRunner::Create    *)
(* starts the thread and deposits it with the ThreadCollector; the thread  *)
(* runs the event loop (EventRunnerImpl::ThreadMain) until ~EventRunner or *)
(* the collector finishes its queue, and then asks to be reclaimed.  A     *)
(* daemon thread joins reclaimed threads.  At exit the Avatar of the       *)
(* collector stops the daemon and joins every thread that is left.         *)
(*                                                                         *)
(* The event loop is reduced to its end: it leaves once the queue is       *)
(* finished (FinishStopsTheLoop of EventLoop).  A runner and its thread    *)
(* have one name; Create is called once for each.                          *)
(***************************************************************************)
EXTENDS Naturals, FiniteSets

CONSTANTS Runner, NoRunner

ASSUME CollectorAssumption == NoRunner \notin Runner /\ "exit" \notin Runner \cup {NoRunner}

VARIABLES
    creator,          \* Create and ~EventRunner of each runner
    thread,           \* ThreadMain of each runner
    finished,         \* finished_ of each runner's queue
    deposited,        \* depositMap_
    reclaims, destroying,
    daemon,           \* ThreadCollector::Run
    daemonJoins,      \* the thread the daemon is joining
    notified,         \* the daemon waits and condition_ has been notified
    threadLock,       \* who holds threadLock_: a runner's thread, "exit" or NoRunner
    needCreateThread,
    exit,             \* ThreadCollector::Stop, called by ~Avatar
    exitJoins,        \* the thread ReclaimAll is stopping and joining
    joined            \* history: the threads that have been joined

runnerVars    == <<creator, thread, finished>>
collectorVars == <<deposited, reclaims, destroying, joined>>
daemonVars    == <<daemon, daemonJoins, notified>>
lockVars      == <<threadLock, needCreateThread>>
exitVars      == <<exit, exitJoins>>
vars == <<runnerVars, collectorVars, daemonVars, lockVars, exitVars>>

Move(pc, r, from, to) == pc[r] = from /\ pc' = [pc EXCEPT ![r] = to]
Finish(r) == finished' = [finished EXCEPT ![r] = TRUE]

-----------------------------------------------------------------------------
(* Create and the last release, on any thread of the application.          *)

\* The runner and its inner runner exist, and the thread has been started.
Create(r) ==
    /\ Move(creator, r, "none", "spawned")
    /\ thread' = [thread EXCEPT ![r] = "start"]
    /\ UNCHANGED <<finished, collectorVars, daemonVars, lockVars, exitVars>>

Deposit(r) ==
    /\ Move(creator, r, "spawned", "created") /\ ~destroying
    /\ deposited' = deposited \cup {r}
    /\ UNCHANGED <<thread, finished, reclaims, destroying, joined, daemonVars, lockVars, exitVars>>

DepositRefused(r) ==
    /\ Move(creator, r, "spawned", "refused") /\ destroying
    /\ UNCHANGED <<thread, finished, collectorVars, daemonVars, lockVars, exitVars>>

\* Create stops the thread it could not deposit, joins it and returns.
StopRefused(r) ==
    /\ Move(creator, r, "refused", "joining")
    /\ Finish(r)
    /\ UNCHANGED <<thread, collectorVars, daemonVars, lockVars, exitVars>>

JoinRefused(r) ==
    /\ Move(creator, r, "joining", "created")
    /\ thread[r] = "ended"
    /\ joined' = joined \cup {r}
    /\ UNCHANGED <<thread, finished, deposited, reclaims, destroying, daemonVars, lockVars, exitVars>>

\* The last shared_ptr goes: owner_ is expired from here on, ~EventRunner follows.
Release(r) ==
    /\ Move(creator, r, "created", "released")
    /\ UNCHANGED <<thread, finished, collectorVars, daemonVars, lockVars, exitVars>>

Destroy(r) ==
    /\ Move(creator, r, "released", "destroyed")
    /\ Finish(r)
    /\ UNCHANGED <<thread, collectorVars, daemonVars, lockVars, exitVars>>

\* Faulty: the owner of the inner runner is not checked.
OwnerExpired_Unchecked(r) == FALSE

OwnerExpired(r) == creator[r] \in {"released", "destroyed"}

-----------------------------------------------------------------------------
(* The thread of a runner.                                                 *)

\* The weak_ptr to the inner runner cannot be locked any more.
InnerIsGone(r) ==
    /\ creator[r] = "destroyed"
    /\ Move(thread, r, "start", "left")
    /\ UNCHANGED <<creator, finished, collectorVars, daemonVars, lockVars, exitVars>>

\* Faulty: finished_ keeps its initial value.
Prepare_KeepsFinished(r) ==
    /\ Move(thread, r, "start", "prepared")
    /\ UNCHANGED <<creator, finished, collectorVars, daemonVars, lockVars, exitVars>>

Prepare(r) ==
    /\ Move(thread, r, "start", "prepared")
    /\ finished' = [finished EXCEPT ![r] = FALSE]
    /\ UNCHANGED <<creator, collectorVars, daemonVars, lockVars, exitVars>>

\* After Prepare, so that a Finish from ~EventRunner is either seen here, as an
\* expired owner, or comes later and is not undone.
CheckOwner(r) ==
    /\ Move(thread, r, "prepared", IF OwnerExpired(r) THEN "left" ELSE "loop")
    /\ UNCHANGED <<creator, finished, collectorVars, daemonVars, lockVars, exitVars>>

LeaveLoop(r) ==
    /\ finished[r]
    /\ Move(thread, r, "loop", "left")
    /\ UNCHANGED <<creator, finished, collectorVars, daemonVars, lockVars, exitVars>>

NotReclaimed(r) ==
    /\ destroying
    /\ Move(thread, r, "left", "ended")
    /\ UNCHANGED <<creator, finished, collectorVars, daemonVars, lockVars, exitVars>>

\* Faulty: the daemon is not woken.
NotifyDaemon_Silently == UNCHANGED notified

NotifyDaemon == notified' = (notified \/ daemon = "waiting")

ReclaimCurrentThread(r) ==
    /\ ~destroying
    /\ Move(thread, r, "left", "reclaimed")
    /\ reclaims' = reclaims \cup {r}
    /\ NotifyDaemon
    /\ UNCHANGED <<creator, finished, deposited, destroying, joined, daemon, daemonJoins, lockVars, exitVars>>

\* Faulty: the lock is not tried but taken for granted.
LockIsFree_Assumed == TRUE

LockIsFree == threadLock = NoRunner

TryLock(r) ==
    /\ LockIsFree
    /\ Move(thread, r, "reclaimed", "locked")
    /\ threadLock' = r
    /\ UNCHANGED <<creator, finished, needCreateThread, collectorVars, daemonVars, exitVars>>

TryLockFails(r) ==
    /\ ~LockIsFree
    /\ Move(thread, r, "reclaimed", "ended")
    /\ UNCHANGED <<creator, finished, collectorVars, daemonVars, lockVars, exitVars>>

\* Faulty: needCreateThread_ is not asked.
DaemonIsNeeded_Always == daemon = "none"

DaemonIsNeeded == daemon = "none" /\ needCreateThread

CreateDaemon(r) ==
    /\ Move(thread, r, "locked", "ended")
    /\ threadLock' = NoRunner
    /\ daemon' = IF DaemonIsNeeded THEN "run" ELSE daemon
    /\ UNCHANGED <<creator, finished, needCreateThread, collectorVars, daemonJoins, notified, exitVars>>

-----------------------------------------------------------------------------
(* The daemon.  DoReclaimLocked takes a thread out of the map under the     *)
(* lock and joins it without.                                              *)

\* Faulty: the entry is not erased.
Withdraw_KeepsIt(r) == UNCHANGED deposited

Withdraw(r) == deposited' = deposited \ {r}

\* The outer loop of Run looks at destroying_ first, the inner loop only when
\* there is nothing to reclaim.  Which request it takes is left open.
DaemonReclaims(r) ==
    /\ r \in reclaims
    /\ (daemon = "run" /\ ~destroying) \/ daemon = "joined"
    /\ reclaims' = reclaims \ {r}
    /\ IF r \in deposited
       THEN Withdraw(r) /\ daemon' = "join" /\ daemonJoins' = r
       ELSE UNCHANGED <<deposited, daemonJoins>> /\ daemon' = "joined"
    /\ UNCHANGED <<runnerVars, destroying, joined, notified, lockVars, exitVars>>

DaemonJoins ==
    /\ daemon = "join" /\ thread[daemonJoins] = "ended"
    /\ joined' = joined \cup {daemonJoins}
    /\ daemon' = "joined" /\ daemonJoins' = NoRunner
    /\ UNCHANGED <<runnerVars, deposited, reclaims, destroying, notified, lockVars, exitVars>>

DaemonWaits ==
    /\ daemon \in {"run", "joined"} /\ reclaims = {} /\ ~destroying
    /\ daemon' = "waiting" /\ notified' = FALSE
    /\ UNCHANGED <<runnerVars, collectorVars, daemonJoins, lockVars, exitVars>>

DaemonWakes ==
    /\ daemon = "waiting"
    /\ daemon' = "run" /\ notified' = FALSE
    /\ UNCHANGED <<runnerVars, collectorVars, daemonJoins, lockVars, exitVars>>

DaemonEnds ==
    /\ destroying
    /\ daemon = "run" \/ (daemon = "joined" /\ reclaims = {})
    /\ daemon' = "ended"
    /\ UNCHANGED <<runnerVars, collectorVars, daemonJoins, notified, lockVars, exitVars>>

-----------------------------------------------------------------------------
(* ThreadCollector::Stop, once, from ~Avatar: the collector exists.         *)

StopCollector ==
    /\ exit = "no" /\ \E r \in Runner : creator[r] \notin {"none", "spawned"}
    /\ exit' = "lock"
    /\ destroying' = TRUE
    /\ NotifyDaemon
    /\ UNCHANGED <<runnerVars, deposited, reclaims, joined, daemon, daemonJoins, lockVars, exitJoins>>

LockThread ==
    /\ exit = "lock" /\ LockIsFree
    /\ exit' = "daemon" /\ threadLock' = "exit"
    /\ UNCHANGED <<runnerVars, collectorVars, daemonVars, needCreateThread, exitJoins>>

JoinDaemon ==
    /\ exit = "daemon" /\ daemon \in {"none", "ended"}
    /\ exit' = "reclaim" /\ threadLock' = NoRunner /\ needCreateThread' = FALSE
    /\ UNCHANGED <<runnerVars, collectorVars, daemonVars, exitJoins>>

ReclaimNext(r) ==
    /\ exit = "reclaim" /\ r \in deposited
    /\ Withdraw(r)
    /\ exit' = "finish" /\ exitJoins' = r
    /\ UNCHANGED <<runnerVars, reclaims, destroying, joined, daemonVars, lockVars>>

ExitThread ==
    /\ exit = "finish"
    /\ Finish(exitJoins)
    /\ exit' = "join"
    /\ UNCHANGED <<creator, thread, collectorVars, daemonVars, lockVars, exitJoins>>

JoinThread ==
    /\ exit = "join" /\ thread[exitJoins] = "ended"
    /\ joined' = joined \cup {exitJoins}
    /\ exit' = "reclaim" /\ exitJoins' = NoRunner
    /\ UNCHANGED <<runnerVars, deposited, reclaims, destroying, daemonVars, lockVars>>

ReclaimedAll ==
    /\ exit = "reclaim" /\ deposited = {}
    /\ exit' = "done"
    /\ UNCHANGED <<runnerVars, collectorVars, daemonVars, lockVars, exitJoins>>

-----------------------------------------------------------------------------
Init ==
    /\ creator = [r \in Runner |-> "none"]
    /\ thread = [r \in Runner |-> "off"]
    /\ finished = [r \in Runner |-> TRUE]
    /\ deposited = {} /\ reclaims = {} /\ destroying = FALSE /\ joined = {}
    /\ daemon = "none" /\ daemonJoins = NoRunner /\ notified = FALSE
    /\ threadLock = NoRunner /\ needCreateThread = TRUE
    /\ exit = "no" /\ exitJoins = NoRunner

Creator(r) == Deposit(r) \/ DepositRefused(r) \/ StopRefused(r) \/ JoinRefused(r) \/ Destroy(r)

ThreadMain(r) ==
    \/ InnerIsGone(r) \/ Prepare(r) \/ CheckOwner(r) \/ LeaveLoop(r)
    \/ NotReclaimed(r) \/ ReclaimCurrentThread(r)
    \/ TryLock(r) \/ TryLockFails(r) \/ CreateDaemon(r)

DaemonWorks ==
    \/ \E r \in Runner : DaemonReclaims(r)
    \/ DaemonJoins \/ DaemonWaits \/ DaemonEnds

Stop ==
    \/ LockThread \/ JoinDaemon
    \/ \E r \in Runner : ReclaimNext(r)
    \/ ExitThread \/ JoinThread \/ ReclaimedAll

Next ==
    \/ \E r \in Runner : Create(r) \/ Release(r) \/ Creator(r) \/ ThreadMain(r)
    \/ DaemonWorks \/ DaemonWakes
    \/ StopCollector \/ Stop

Spec == Init /\ [][Next]_vars

(* Threads run.  condition_.wait may return at any time, but need not unless *)
(* it was notified.  Nobody has to create or release a runner, or to exit.   *)
Fairness ==
    /\ \A r \in Runner : WF_vars(Creator(r)) /\ WF_vars(ThreadMain(r))
    /\ WF_vars(DaemonWorks)
    /\ WF_vars(notified /\ DaemonWakes)
    /\ WF_vars(Stop)

FairSpec == Spec /\ Fairness

-----------------------------------------------------------------------------
(* Properties.                                                             *)

\* The types; a runner has a thread from its creation on, and threadLock_ is
\* held by the thread that is inside it.
CollectorTypeOK ==
    /\ creator \in [Runner -> {"none", "spawned", "refused", "joining", "created", "released", "destroyed"}]
    /\ thread \in [Runner -> {"off", "start", "prepared", "loop", "left", "reclaimed", "locked", "ended"}]
    /\ \A r \in Runner : (creator[r] = "none") <=> (thread[r] = "off")
    /\ finished \in [Runner -> BOOLEAN]
    /\ deposited \subseteq Runner /\ reclaims \subseteq Runner /\ joined \subseteq Runner
    /\ destroying \in BOOLEAN /\ notified \in BOOLEAN /\ needCreateThread \in BOOLEAN
    /\ daemon \in {"none", "run", "join", "joined", "waiting", "ended"}
    /\ daemonJoins \in Runner \cup {NoRunner} /\ (daemonJoins # NoRunner <=> daemon = "join")
    /\ exit \in {"no", "lock", "daemon", "reclaim", "finish", "join", "done"}
    /\ exitJoins \in Runner \cup {NoRunner} /\ (exitJoins # NoRunner <=> exit \in {"finish", "join"})
    /\ threadLock \in Runner \cup {"exit", NoRunner}
    /\ \A r \in Runner : (threadLock = r) <=> (thread[r] = "locked")
    /\ (threadLock = "exit") <=> (exit = "daemon")

\* std::thread::join is called once for a thread: it is in the map, or its
\* creator, the daemon or the exit is about to join it, or somebody has.
JoinedOnce ==
    /\ deposited \cap joined = {}
    /\ {daemonJoins, exitJoins} \cap (deposited \cup joined) = {}
    /\ daemonJoins = exitJoins => daemonJoins = NoRunner
    /\ \A r \in Runner : creator[r] \in {"none", "spawned", "refused", "joining"} =>
           r \notin deposited \cup joined \cup {daemonJoins, exitJoins}

\* A thread asks to be reclaimed only when it has been deposited, although it
\* is started before that: the daemon never drops a request it cannot match,
\* after which nobody would join the thread before exit.
ReclaimsAreDeposited == ~destroying => reclaims \subseteq deposited

\* When ~Avatar returns, no collector thread is alive or will be, and every
\* thread that was ever deposited has ended and been joined.
NothingAfterExit ==
    exit = "done" =>
        /\ daemon \in {"none", "ended"}
        /\ deposited = {}
        /\ \A r \in Runner : creator[r] \in {"created", "released", "destroyed"} => r \in joined

\* The thread of a released runner ends, whenever the release comes: before
\* the thread has started, while it prepares its queue or in its loop.
ReleasedRunnersEnd == \A r \in Runner : (creator[r] = "released") ~> (thread[r] = "ended")

\* A thread that has ended is joined by the daemon, which the threads have to
\* create and wake, unless the process exits.
EndedThreadsAreJoined == \A r \in Runner : (thread[r] = "ended") ~> (r \in joined \/ exit # "no")

-----------------------------------------------------------------------------
\* "All event runners finished in destruction of 'ThreadCollector::Avatar'"
\* (event_runner.cpp:387): ~Avatar joins all threads and returns.
ExitEnds == (exit # "no") ~> (exit = "done")
=============================================================================
