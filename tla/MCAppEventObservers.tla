------------------------ MODULE MCAppEventObservers ------------------------
(* Instances of AppEventObservers for TLC: watchers with onReceive, and one  *)
(* that waits for two events or for two timer events.                        *)
EXTENDS AppEventObservers

CONSTANT counter

MCRow     == [w \in Watcher |-> IF w = counter THEN 2 ELSE 0]
MCTimeout == MCRow
=============================================================================
