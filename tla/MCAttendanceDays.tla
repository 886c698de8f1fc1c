--------------------------- MODULE MCAttendanceDays --------------------------
(* One request at a time, on days that the employee alone uses and on days  *)
(* that administrators correct and phones replay.  Nothing happens on day 0: *)
(* that it was left open marks the behaviours of the second sort.           *)
EXTENDS MCAttendanceDay

CONSTANT CorrectedUntil  \* the clock's bound on days that are corrected

Corrected == rows[0] # NoRow
Uses == IF Corrected THEN CorrectedKinds ELSE SelfServiceKinds

DayInit == Init /\ (rows[1] # NoRow => Corrected)
DaySpec == DayInit /\ [][Next]_vars

\* The action constraint of the run
DayUses ==
    /\ \A h \in Handlers : req'[h].kind \in Uses \cup {"READ"} /\ req'[h].day # 0
    /\ Corrected => clock' <= CorrectedUntil /\ job' = job

Machine == INSTANCE DayMachine WITH
    state <- IF Corrected THEN "NULL" ELSE StateOf(rows[Today])

\* Today's row goes through the documented state machine, one tap, leave or
\* system checkout at a time.
ImplementsDayMachine == Machine!Spec

\* When no request is under way, the key in Redis has the state of today's
\* row (_write_redis_state, _current_state), unless a correction or replay of
\* another day wrote it.
RedisTellsTheDay == ~Corrected => RedisTellsToday

===============================================================================
