---------------------------- MODULE MCEventLoop -----------------------------
(* Instances of EventLoop for TLC: one plain event body, or one named task,  *)
(* and the tasks of the descriptors.                                         *)
EXTENDS EventLoop, TLC

MCBody    == {[task |-> FALSE, key |-> 1, param |-> 0]} \cup FdTasks
MCTask    == {[task |-> TRUE, key |-> 1, param |-> 0]} \cup FdTasks
Symmetric == Permutations(Event \ FdEvent) \cup Permutations(FdEvent)
=============================================================================
