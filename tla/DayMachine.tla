------------------------------ MODULE DayMachine ------------------------------
(***************************************************************************)
(* What the attendance service promises of one employee's day: the state   *)
(* machine of the docstring of app/services/attendance_service.py, with    *)
(* the transition table of the code (_ALLOWED_FROM, _STATE_FOR_TYPE), the  *)
(* leave toggle and the system checkout.  It knows nothing of requests,    *)
(* transactions or session rows; AttendanceDay is checked to implement it. *)
(***************************************************************************)
EXTENDS AttendanceStates

VARIABLE state

Init == state = "NULL"

Tap(t) ==
    /\ state \in AllowedFrom[t]
    /\ state' = StateForType[t]

MarkLeave == state = "NULL" /\ state' = "ON_LEAVE"

RevokeLeave == state = "ON_LEAVE" /\ state' = "NULL"

AutoCheckout == state \in OpenStates /\ state' = "ENDED"

Next ==
    \/ \E t \in SessionTypes : Tap(t)
    \/ MarkLeave
    \/ RevokeLeave
    \/ AutoCheckout

Spec == Init /\ [][Next]_state

===============================================================================
