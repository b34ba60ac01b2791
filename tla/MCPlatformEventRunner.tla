----------------------- MODULE MCPlatformEventRunner ------------------------
(* Instances of PlatformEventRunner for TLC: one event, one named task.      *)
EXTENDS PlatformEventRunner, TLC

EventAndTask == {[task |-> t, key |-> 1, param |-> 0] : t \in BOOLEAN}
Symmetric    == Permutations(Event)
=============================================================================
