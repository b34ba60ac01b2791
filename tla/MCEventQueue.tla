---------------------------- MODULE MCEventQueue ----------------------------
(* An instance of EventQueue for TLC: events with id 0, with an id that is a *)
(* string, and named tasks.                                                  *)
EXTENDS EventQueue, TLC

CONSTANT StringId

EventId(k) == [task |-> FALSE, key |-> k, param |-> 0]
Named(k)   == [task |-> TRUE, key |-> k, param |-> 0]

MixedBody == {EventId(0), EventId(StringId), Named(0)}

Symmetric == Permutations(Event)
=============================================================================
