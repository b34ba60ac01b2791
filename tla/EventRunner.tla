---------------------------- MODULE EventRunner -----------------------------
(***************************************************************************)
(* EventRunner::Run and EventRunner::Stop of runners without a thread of   *)
(* their own (deposit_ is false), called by several threads, handlers of   *)
(* the loops included.  running_ is an atomic of the runner, finished_     *)
(* belongs to its queue and is guarded by the queue's lock: Stop reads the *)
(* one and sets the other, Run sets the one and Prepare clears the other,  *)
(* and nothing makes either pair one step.                                 *)
(*                                                                         *)
(* The callers hold the runner, so its owner is never expired; a refused   *)
(* call changes nothing and is no step.  No handler calls Run of another   *)
(* runner.                                                                 *)
(***************************************************************************)
CONSTANTS Thread, Runner,
    Looper      \* the threads that call Run

ASSUME LooperAssumption == Looper \subseteq Thread

VARIABLES
    running,    \* running_ of each runner
    finished,   \* finished_ of its queue
    run,        \* where each thread is in Run of each runner
    stopping    \* per runner, the threads inside Stop that have found running_ set

runnerVars == <<running, finished, run, stopping>>

Move(r, t, from, to) == run[r][t] = from /\ run' = [run EXCEPT ![r][t] = to]

InNoRun(t)  == \A r \in Runner : run[r][t] = "idle"
InNoStop(t) == \A r \in Runner : t \notin stopping[r]

-----------------------------------------------------------------------------
\* Faulty: a second caller is let in.
NotRunning_Unchecked(r) == TRUE

NotRunning(r) == ~running[r]

Run(r, t) ==
    /\ t \in Looper /\ NotRunning(r) /\ InNoRun(t) /\ InNoStop(t)
    /\ Move(r, t, "idle", "entered")
    /\ running' = [running EXCEPT ![r] = TRUE]
    /\ UNCHANGED <<finished, stopping>>

Prepare(r, t) ==
    /\ Move(r, t, "entered", "looping")
    /\ finished' = [finished EXCEPT ![r] = FALSE]
    /\ UNCHANGED <<running, stopping>>

\* Faulty: the loop ends without having been finished.
LoopEnds_Early(r) == TRUE

LoopEnds(r) == finished[r]

LeaveLoop(r, t) ==
    /\ LoopEnds(r) /\ InNoStop(t)
    /\ Move(r, t, "looping", "left")
    /\ UNCHANGED <<running, finished, stopping>>

Return(r, t) ==
    /\ Move(r, t, "left", "idle")
    /\ running' = [running EXCEPT ![r] = FALSE]
    /\ UNCHANGED <<finished, stopping>>

\* By a thread outside Run, or by a handler of a loop.
MayCall(t) == InNoStop(t) /\ \A r \in Runner : run[r][t] \in {"idle", "looping"}

Stop(r, t) ==
    /\ running[r] /\ MayCall(t)
    /\ stopping' = [stopping EXCEPT ![r] = @ \cup {t}]
    /\ UNCHANGED <<running, finished, run>>

\* Faulty: Stop clears running_, which is Run's to clear.
FinishClears_Running(r) == running' = [running EXCEPT ![r] = FALSE]

FinishClears(r) == UNCHANGED running

FinishQueue(r, t) ==
    /\ t \in stopping[r]
    /\ stopping' = [stopping EXCEPT ![r] = @ \ {t}]
    /\ finished' = [finished EXCEPT ![r] = TRUE]
    /\ FinishClears(r)
    /\ UNCHANGED run

-----------------------------------------------------------------------------
RunnerInit ==
    /\ running = [r \in Runner |-> FALSE] /\ finished = [r \in Runner |-> TRUE]
    /\ run = [r \in Runner |-> [t \in Thread |-> "idle"]]
    /\ stopping = [r \in Runner |-> {}]

-----------------------------------------------------------------------------
\* The types, and that the queue of a runner that does not run is finished.
RunnerTypeOK ==
    /\ running \in [Runner -> BOOLEAN] /\ finished \in [Runner -> BOOLEAN]
    /\ run \in [Runner -> [Thread -> {"idle", "entered", "looping", "left"}]]
    /\ stopping \in [Runner -> SUBSET Thread]
    /\ \A r \in Runner : running[r] \/ finished[r]
    /\ \A r \in Runner, t \in Thread : run[r][t] = "left" => finished[r]

\* "Only running on single thread" (event_runner.h:119): one thread at most is
\* inside Run of a runner past the exchange, and running_ says exactly whether one
\* is, so that no second thread prepares the queue under the first one's loop.
OneLoop ==
    \A r \in Runner :
        /\ \A s, t \in Thread : run[r][s] # "idle" /\ run[r][t] # "idle" => s = t
        /\ running[r] <=> \E t \in Thread : run[r][t] # "idle"
=============================================================================
