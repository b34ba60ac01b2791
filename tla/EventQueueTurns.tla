--------------------------- MODULE EventQueueTurns --------------------------
(***************************************************************************)
(* EventQueue with a history variable that counts, for each priority, how  *)
(* many times in a row another event was taken while its head was overdue. *)
(***************************************************************************)
EXTENDS EventQueue

VARIABLE bypassed

turnsVars == <<vars, bypassed>>

(* (MaxHandled + 1) ^ p                                                     *)
Patience(p) == LET b == MaxHandled + 1 IN <<1, b, b * b, b * b * b>>[p + 1]

EventTaken == stage = "get" /\ stage' = "taken"

Count ==
    bypassed' = [p \in Sub |->
        IF ~EventTaken THEN bypassed[p]
        ELSE IF Overdue(p) /\ current' # Head(queue[p])
             THEN Min({bypassed[p] + 1, Patience(p)})    \* bound
        ELSE 0]

TurnsSpec == Init /\ bypassed = [p \in Sub |-> 0] /\ [][Next /\ Count]_turnsVars

TurnsFairSpec == TurnsSpec /\ Fairness

\* "Give a chance to process lower priority events, after continuous processing
\* several higher priority events" (event_queue.h:212), with a number: an
\* overdue head of priority p is passed over less than Patience(p) times
\* in a row.
BypassBounded == \A p \in Sub : bypassed[p] < Patience(p)
=============================================================================
