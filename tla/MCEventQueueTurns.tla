------------------------- MODULE MCEventQueueTurns --------------------------
(* An instance of EventQueueTurns for TLC with one body. *)
EXTENDS EventQueueTurns

OneBody == {[task |-> FALSE, key |-> 1, param |-> 0]}
=============================================================================
