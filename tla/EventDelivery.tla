--------------------------- MODULE EventDelivery ----------------------------
(***************************************************************************)
(* What the event queue promises to those who send events, without lists,  *)
(* locks, turn counters or idle stamps.  A message is pending from the     *)
(* moment it is accepted until it is delivered or cancelled, each once.    *)
(*                                                                         *)
(*  - It is never delivered before it is due, and among the messages of    *)
(*    its priority the one due earliest goes first.                        *)
(*  - A message of lower priority goes before a due one of higher priority *)
(*    only if it was due strictly earlier.                                 *)
(*  - An idle message is delivered only when no other message is due.      *)
(*  - One cancellation concerns the messages of one owner, or those of     *)
(*    owners that are gone.                                                *)
(***************************************************************************)
EXTENDS Naturals

CONSTANTS Event, Owner, Priority, IDLE, MaxNow, Time, Nothing

VARIABLES
    now,
    pending,     \* the accepted messages: [event, owner, prio, due]
    processing,  \* the event being delivered, or Nothing
    gone         \* the owners that have been destroyed

vars == <<now, pending, processing, gone>>

Message == [event : Event, owner : Owner, prio : Priority, due : Time]

Due(m)     == m.due <= now
Urgent(m)  == m.prio # IDLE
Precedes(m, n) ==
    /\ m.prio = n.prio => m.due <= n.due
    /\ Urgent(m) /\ Urgent(n) /\ n.prio < m.prio /\ Due(n) => m.due < n.due
    /\ ~Urgent(m) /\ Urgent(n) => ~Due(n)

Init == now = 0 /\ pending = {} /\ processing = Nothing /\ gone = {}

Post(m) ==
    /\ m.event # processing /\ \A n \in pending : n.event # m.event
    /\ m.owner \notin gone
    /\ pending' = pending \cup {m}
    /\ UNCHANGED <<now, processing, gone>>

Deliver(m) ==
    /\ processing = Nothing
    /\ m \in pending /\ Due(m)
    /\ \A n \in pending : Precedes(m, n)
    /\ processing' = m.event
    /\ pending' = pending \ {m}
    /\ UNCHANGED <<now, gone>>

Finish == processing' = Nothing /\ UNCHANGED <<now, pending, gone>>

Cancel(S) ==
    /\ \/ \E h \in Owner : \A m \in S : m.owner = h
       \/ \A m \in S : m.owner \in gone
    /\ pending' = pending \ S
    /\ UNCHANGED <<now, processing, gone>>

Destroy(h) == h \notin gone /\ gone' = gone \cup {h} /\ UNCHANGED <<now, pending, processing>>

Tick == now < MaxNow /\ now' = now + 1 /\ UNCHANGED <<pending, processing, gone>>

Next ==
    \/ \E m \in Message : Post(m)
    \/ \E m \in pending : Deliver(m)
    \/ Finish
    \/ \E S \in SUBSET pending : Cancel(S)
    \/ \E h \in Owner : Destroy(h)
    \/ Tick

Spec == Init /\ [][Next]_vars
=============================================================================
