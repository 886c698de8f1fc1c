---------------------------- MODULE AttendanceDay ----------------------------
(***************************************************************************)
(* The attendance rows of one employee in Postgres, their session log, the *)
(* employee's state key in Redis, and the API requests and scheduler jobs  *)
(* that work on them concurrently                                          *)
(* (app/services/attendance_service.py, app/services/sync_service.py).     *)
(*                                                                         *)
(* A request is a handler h that goes through the awaits of its code:      *)
(*   stale      no row was found, and the Redis key is to be deleted       *)
(*   loaded     the row was SELECTed and the checks on it passed           *)
(*   flushed    the INSERTs are sent but not committed; the locks are held *)
(*   cached     the Redis state key is written                             *)
(*   committed  (offline replay only) committed, Redis not yet written     *)
(* and ends as idle (2xx), conflict (4xx) or error (500).  Transactions    *)
(* run at READ COMMITTED: a handler sees what is committed and its own     *)
(* writes, and an INSERT that meets an uncommitted row of the same         *)
(* (user, date) waits for it.                                              *)
(***************************************************************************)
EXTENDS Naturals, AttendanceStates

CONSTANTS
    Handlers,   \* concurrent requests and jobs
    Days,       \* calendar dates, as numbers
    Today,      \* the UTC date every _today() returns
    Kinds,      \* the operations the instance exercises
    Noon,       \* clock reading from which check-in is closed
    DupWindow,  \* DUPLICATE_WINDOW of the offline replay, in clock ticks
    Corrections, \* the times a manual or replayed session may carry
    MaxClock,   \* bound on the clock
    MaxId       \* bound on attendance ids

AllKinds ==
    SessionTypes \cup
    {"LEAVE", "REVOKE", "AUTO", "OVERRIDE", "MANUAL", "REPLAY", "READ", "FAIL"}

ASSUME DaysAssumption == Days \subseteq Nat /\ Today \in Days
ASSUME KindsAssumption == Kinds \subseteq AllKinds
ASSUME CorrectionsAssumption == Corrections \subseteq Nat
ASSUME BoundsAssumption == {Noon, DupWindow, MaxClock, MaxId} \subseteq Nat

VARIABLES
    rows,    \* table attendance with its sessions, by date (UNIQUE)
    redis,   \* hash fieldtrack:attendance:state:{user_id}
    clock,   \* the wall clock; a stamp is its next reading
    lastId,  \* sequence of attendance.id
    job,     \* where the auto-checkout job is with this employee
    req      \* the handlers

vars == <<rows, redis, clock, lastId, job, req>>

-----------------------------------------------------------------------------
(* Rows.  `total` stands for total_duration_minutes: it is the set of       *)
(* sessions calculate_duration last ran on.  Of the statuses only ON_LEAVE  *)
(* is told apart; PRESENT stands for ABSENT and HALF_DAY too.               *)

Session == [type : SessionTypes, ts : Nat]
Statuses == {"PRESENT", "ON_LEAVE"}
Row == [id : Nat \ {0}, status : Statuses,
        sessions : SUBSET Session, total : SUBSET Session]
NoRow == [id |-> 0, status |-> "PRESENT", sessions |-> {}, total |-> {}]
NoKey == [state |-> "NULL", id |-> 0]

IsLast(s, S) == s \in S /\ \A t \in S : t.ts <= s.ts

\* _state_of
StateOf(row) ==
    IF row.id # 0 /\ row.status = "ON_LEAVE" THEN "ON_LEAVE"
    ELSE IF \E s \in row.sessions : IsLast(s, row.sessions)
         THEN StateForType[(CHOOSE s \in row.sessions :
                                IsLast(s, row.sessions)).type]
         ELSE "NULL"

\* The session log of a row has no other session at ts: timestamps have
\* microseconds, so equal ones are left out.
Unused(ts, row) == \A s \in row.sessions : s.ts # ts

-----------------------------------------------------------------------------
(* Handlers                                                                 *)

Outcomes == {"idle", "conflict", "error"}
Busy == {"stale", "loaded", "flushed", "cached", "committed"}

\* `seen` is the row as SELECTed, `add` the sessions to insert, `fresh`
\* whether the request inserts the attendance row itself, `label` the state
\* it publishes to Redis.
Done(outcome) ==
    [pc |-> outcome, kind |-> "READ", day |-> Today, seen |-> NoRow,
     add |-> {}, total |-> {}, fresh |-> FALSE, status |-> "PRESENT",
     label |-> "NULL", id |-> 0]

Becomes(h, r) == req' = [req EXCEPT ![h] = r]

Finish(h, outcome) == Becomes(h, Done(outcome))

Load(h, kind, day, add, status) ==
    Becomes(h, [Done("loaded") EXCEPT !.kind = kind, !.day = day,
                                      !.seen = rows[day], !.add = add,
                                      !.status = status])

Ready(h, kind) == req[h].pc \in Outcomes /\ kind \in Kinds
At(h, pc, kinds) == req[h].pc = pc /\ req[h].kind \in kinds

\* h holds the row lock of an INSERT into the row with this id or date.
Inserting(h) == req[h].pc \in {"flushed", "cached"}
UniqueFree(h) ==
    \A g \in Handlers \ {h} :
        ~(Inserting(g) /\ req[g].fresh /\ req[g].day = req[h].day)

\* SQLAlchemy emits an UPDATE of a column only when the new value differs
\* from the one it loaded.
Emit(new, loaded, current) == IF new = loaded THEN current ELSE new

-----------------------------------------------------------------------------
(* The clock                                                                *)

Tick ==
    /\ clock < MaxClock
    /\ clock' = clock + 1
    /\ UNCHANGED <<rows, redis, lastId, job, req>>

CheckinClosed == clock >= Noon

\* _current_state: with no row for today a Redis key is stale, and is deleted
\* in a step of its own.
StaleKey == rows[Today] = NoRow /\ redis # NoKey

\* get_today and the attendance gate of visit check-in
ReadState(h) ==
    /\ Ready(h, "READ")
    /\ StaleKey
    /\ Becomes(h, Done("stale"))
    /\ UNCHANGED <<rows, redis, clock, lastId, job>>

-----------------------------------------------------------------------------
(* transition_state                                                         *)

\* Mutant: any tap is accepted on a day that has sessions.
AcceptedInAnyState(t, row) ==
    /\ StateOf(row) \notin {"ON_LEAVE"} \cup (IF t = "START" THEN {} ELSE {"NULL"})
    /\ ~(t \in {"START", "RE_CHECKIN"} /\ CheckinClosed)

Accepted(t, row) ==
    /\ StateOf(row) \in AllowedFrom[t]
    /\ ~(t \in {"START", "RE_CHECKIN"} /\ CheckinClosed)

BeginTap(h, t) ==
    /\ Ready(h, t)
    /\ IF StaleKey
       THEN Becomes(h, [Done("stale") EXCEPT !.kind = t])
       ELSE IF Accepted(t, rows[Today])
            THEN Load(h, t, Today, {}, "PRESENT")
            ELSE Finish(h, "conflict")
    /\ UNCHANGED <<rows, redis, clock, lastId, job>>

\* The row was not there when it was read; it may be now.
DeleteStaleKey(h) ==
    /\ req[h].pc = "stale"
    /\ redis' = NoKey
    /\ IF req[h].kind = "READ"
       THEN Finish(h, "idle")
       ELSE IF Accepted(req[h].kind, NoRow)
            THEN Becomes(h, [req[h] EXCEPT !.pc = "loaded"])
            ELSE Finish(h, "conflict")
    /\ UNCHANGED <<rows, clock, lastId, job>>

\* Mutant: a START that finds a row is added to it.
StartIntoAnyRow(h) ==
    /\ At(h, "loaded", {"START"})
    /\ UniqueFree(h)
    /\ clock < MaxClock /\ lastId < MaxId
    /\ lastId' = lastId + 1
    /\ clock' = clock + 1
    /\ LET row == rows[req[h].day]
       IN  Becomes(h, [req[h] EXCEPT !.pc = "flushed", !.fresh = row = NoRow,
                                     !.seen = row, !.label = "STARTED",
                                     !.id = IF row = NoRow THEN lastId + 1 ELSE row.id,
                                     !.add = {[type |-> "START", ts |-> clock + 1]}])
    /\ UNCHANGED <<rows, redis, job>>

\* _do_start: the row is inserted, then its START session.  The flush that
\* meets a committed row raises IntegrityError outside the try that maps it
\* to a conflict.
FlushStart(h) ==
    /\ At(h, "loaded", {"START"})
    /\ UniqueFree(h)
    /\ clock < MaxClock /\ lastId < MaxId
    /\ lastId' = lastId + 1
    /\ clock' = clock + 1
    /\ IF rows[req[h].day] # NoRow
       THEN Finish(h, "error")
       ELSE Becomes(h, [req[h] EXCEPT !.pc = "flushed", !.fresh = TRUE,
                                      !.id = lastId + 1, !.label = "STARTED",
                                      !.add = {[type |-> "START",
                                                ts |-> clock + 1]}])
    /\ UNCHANGED <<rows, redis, job>>

\* The INSERT of a session into a loaded row: the foreign key fails when the
\* row is gone, else the sessions are read again with the new one.  END and
\* the kinds that correct the log recompute the total.
InsertSession(h, new, label, recompute) ==
    IF rows[req[h].day].id # req[h].seen.id
    THEN Finish(h, "error")
    ELSE Becomes(h, [req[h] EXCEPT !.pc = "flushed", !.add = new,
                                   !.id = req[h].seen.id, !.label = label,
                                   !.total = IF recompute
                                             THEN rows[req[h].day].sessions
                                                    \cup new
                                             ELSE req[h].seen.total])

\* _append_session, and the END rollup
FlushTap(h) ==
    /\ At(h, "loaded", SessionTypes \ {"START"})
    /\ clock < MaxClock
    /\ clock' = clock + 1
    /\ LET t == req[h].kind
       IN  InsertSession(h, {[type |-> t, ts |-> clock + 1]},
                         StateForType[t], t = "END")
    /\ UNCHANGED <<rows, redis, lastId, job>>

\* Mutant: Redis is told the state before the tap.
WriteOldState(h) ==
    /\ At(h, "flushed", SessionTypes \cup {"AUTO", "MANUAL"})
    /\ redis' = [state |-> StateOf(req[h].seen), id |-> req[h].id]
    /\ Becomes(h, [req[h] EXCEPT !.pc = "cached"])
    /\ UNCHANGED <<rows, clock, lastId, job>>

\* _write_redis_state, before the commit
WriteRedis(h) ==
    /\ At(h, "flushed", SessionTypes \cup {"AUTO", "MANUAL"})
    /\ redis' = [state |-> req[h].label, id |-> req[h].id]
    /\ Becomes(h, [req[h] EXCEPT !.pc = "cached"])
    /\ UNCHANGED <<rows, clock, lastId, job>>

\* Mutant: the sessions are written back as they were loaded.
CommittedOver(h) ==
    LET r == req[h]
        row == rows[r.day]
    IN  IF r.fresh
        THEN [id |-> r.id, status |-> r.status,
              sessions |-> r.add, total |-> r.total]
        ELSE [row EXCEPT !.sessions = r.seen.sessions \cup r.add,
                         !.total = Emit(r.total, r.seen.total, @)]

\* What the transaction of h leaves in the table.
Committed(h) ==
    LET r == req[h]
        row == rows[r.day]
    IN  IF r.fresh
        THEN [id |-> r.id, status |-> r.status,
              sessions |-> r.add, total |-> r.total]
        ELSE [row EXCEPT !.sessions = @ \cup r.add,
                         !.total = Emit(r.total, r.seen.total, @)]

Commit(h) ==
    /\ \/ At(h, "cached", SessionTypes \cup {"AUTO", "MANUAL"})
       \/ At(h, "flushed", {"LEAVE"})
    /\ rows' = [rows EXCEPT ![req[h].day] = Committed(h)]
    /\ Finish(h, "idle")
    /\ job' = IF req[h].kind = "AUTO" THEN "done" ELSE job
    /\ UNCHANGED <<redis, clock, lastId>>

\* The database refuses the transaction or the worker dies before COMMIT:
\* everything is rolled back, except what Redis was told.  After the COMMIT
\* of a replay only the Redis update is lost.
Fail(h) ==
    /\ "FAIL" \in Kinds
    /\ req[h].pc \in Busy
    /\ Finish(h, "error")
    /\ job' = IF req[h].kind = "AUTO" THEN "done" ELSE job
    /\ UNCHANGED <<rows, redis, clock, lastId>>

-----------------------------------------------------------------------------
(* mark_leave and revoke_leave                                              *)

\* The list of planned visits of that date, which also refuses a leave, is
\* in FieldWork: the refusal is a choice here.
BeginLeave(h, day) ==
    /\ Ready(h, "LEAVE")
    /\ \/ /\ day >= Today /\ rows[day] = NoRow
          /\ Load(h, "LEAVE", day, {}, "ON_LEAVE")
       \/ Finish(h, "conflict")
    /\ UNCHANGED <<rows, redis, clock, lastId, job>>

\* Mutant: leave is an upsert of the day's status.
FlushLeaveUpsert(h) ==
    /\ At(h, "loaded", {"LEAVE"})
    /\ UniqueFree(h)
    /\ lastId < MaxId
    /\ lastId' = lastId + 1
    /\ LET row == rows[req[h].day]
       IN  Becomes(h, [req[h] EXCEPT !.pc = "flushed", !.fresh = TRUE,
                                     !.add = row.sessions,
                                     !.id = IF row = NoRow THEN lastId + 1 ELSE row.id])
    /\ UNCHANGED <<rows, redis, clock, job>>

FlushLeave(h) ==
    /\ At(h, "loaded", {"LEAVE"})
    /\ UniqueFree(h)
    /\ lastId < MaxId
    /\ lastId' = lastId + 1
    /\ IF rows[req[h].day] # NoRow
       THEN Finish(h, "error")
       ELSE Becomes(h, [req[h] EXCEPT !.pc = "flushed", !.fresh = TRUE,
                                      !.id = lastId + 1])
    /\ UNCHANGED <<rows, redis, clock, job>>

\* Mutant: any row can be revoked.
BeginRevokeOfAny(h, day) ==
    /\ Ready(h, "REVOKE")
    /\ IF rows[day] # NoRow /\ day >= Today
       THEN Load(h, "REVOKE", day, {}, "ON_LEAVE")
       ELSE Finish(h, "conflict")
    /\ UNCHANGED <<rows, redis, clock, lastId, job>>

BeginRevoke(h, day) ==
    /\ Ready(h, "REVOKE")
    /\ IF rows[day] # NoRow /\ rows[day].status = "ON_LEAVE" /\ day >= Today
       THEN Load(h, "REVOKE", day, {}, "ON_LEAVE")
       ELSE Finish(h, "conflict")
    /\ UNCHANGED <<rows, redis, clock, lastId, job>>

\* The DELETE waits for the foreign-key locks of uncommitted sessions, then
\* takes every session of the row with it.
CommitRevoke(h) ==
    LET r == req[h]
    IN  /\ At(h, "loaded", {"REVOKE"})
        /\ \A g \in Handlers \ {h} :
               ~(Inserting(g) /\ ~req[g].fresh /\ req[g].id = r.seen.id)
        /\ rows' = IF rows[r.day].id = r.seen.id
                   THEN [rows EXCEPT ![r.day] = NoRow] ELSE rows
        /\ Finish(h, "idle")
        /\ UNCHANGED <<redis, clock, lastId, job>>

-----------------------------------------------------------------------------
(* auto_checkout_job and auto_checkout                                      *)

\* The job first lists the employees whose day is open.  It fires at the end
\* of the day, long after check-in closed and the last such request ended.
JobSelect ==
    /\ "AUTO" \in Kinds
    /\ job = "waiting"
    /\ CheckinClosed
    /\ \A h \in Handlers :
           ~(req[h].pc \in Busy /\ req[h].kind \in {"START", "RE_CHECKIN"})
    /\ job' = IF StateOf(rows[Today]) \in OpenStates THEN "picked" ELSE "done"
    /\ UNCHANGED <<rows, redis, clock, lastId, req>>

\* It then loads each of them again and leaves a closed day alone.
BeginAuto(h) ==
    /\ Ready(h, "AUTO")
    /\ job = "picked"
    /\ IF StateOf(rows[Today]) \in OpenStates
       THEN job' = "running" /\ Load(h, "AUTO", Today, {}, "PRESENT")
       ELSE job' = "done" /\ Finish(h, "idle")
    /\ UNCHANGED <<rows, redis, clock, lastId>>

FlushAuto(h) ==
    /\ At(h, "loaded", {"AUTO"})
    /\ clock < MaxClock
    /\ clock' = clock + 1
    /\ InsertSession(h, {[type |-> "END", ts |-> clock + 1]}, "ENDED", TRUE)
    /\ job' = IF rows[Today].id # req[h].seen.id THEN "done" ELSE job
    /\ UNCHANGED <<rows, redis, lastId>>

-----------------------------------------------------------------------------
(* Administration: override_status and add_manual_session                   *)

BeginOverride(h, day, status) ==
    /\ Ready(h, "OVERRIDE")
    /\ IF rows[day] = NoRow
       THEN Finish(h, "conflict")
       ELSE Load(h, "OVERRIDE", day, {}, status)
    /\ UNCHANGED <<rows, redis, clock, lastId, job>>

CommitOverride(h) ==
    LET r == req[h]
    IN  /\ At(h, "loaded", {"OVERRIDE"})
        /\ IF rows[r.day].id # r.seen.id
           THEN Finish(h, "error") /\ UNCHANGED rows
           ELSE /\ rows' = [rows EXCEPT ![r.day].status =
                                Emit(r.status, r.seen.status, @)]
                /\ Finish(h, "idle")
        /\ UNCHANGED <<redis, clock, lastId, job>>

BeginManual(h, day, s) ==
    /\ Ready(h, "MANUAL")
    /\ IF rows[day] = NoRow
       THEN Finish(h, "conflict")
       ELSE Load(h, "MANUAL", day, {s}, "PRESENT")
    /\ UNCHANGED <<rows, redis, clock, lastId, job>>

\* Mutant: the correction does not recompute the total.
FlushManualKeepsTotal(h) ==
    /\ At(h, "loaded", {"MANUAL"})
    /\ LET r == req[h]
           now == rows[r.day]
       IN  /\ \A s \in r.add : Unused(s.ts, now)
           /\ InsertSession(h, r.add,
                  StateOf([now EXCEPT !.sessions = @ \cup r.add,
                                      !.status = r.seen.status]), FALSE)
    /\ UNCHANGED <<rows, redis, clock, lastId, job>>

FlushManual(h) ==
    /\ At(h, "loaded", {"MANUAL"})
    /\ LET r == req[h]
           now == rows[r.day]
       IN  /\ \A s \in r.add : Unused(s.ts, now)
           /\ InsertSession(h, r.add,
                  StateOf([now EXCEPT !.sessions = @ \cup r.add,
                                      !.status = r.seen.status]), TRUE)
    /\ UNCHANGED <<rows, redis, clock, lastId, job>>

-----------------------------------------------------------------------------
(* sync_attendance_sessions, one record per batch                           *)

\* _is_duplicate
IsDuplicate(s, S) ==
    \E t \in S : t.type = s.type /\ t.ts <= s.ts + DupWindow
                                 /\ s.ts <= t.ts + DupWindow

BeginReplay(h, day, s) ==
    /\ Ready(h, "REPLAY")
    /\ IF IsDuplicate(s, rows[day].sessions)
       THEN Finish(h, "idle")
       ELSE Load(h, "REPLAY", day, {s}, "PRESENT")
    /\ UNCHANGED <<rows, redis, clock, lastId, job>>

\* A record without a row creates it.  After the flush the service asks for
\* the attendance again, but the session already holds it: the collection of
\* sessions is the one that was loaded first, without the new session.
FlushReplay(h) ==
    /\ At(h, "loaded", {"REPLAY"})
    /\ LET r == req[h]
           now == rows[r.day]
       IN  /\ \A s \in r.add : Unused(s.ts, now)
           /\ IF r.seen = NoRow
              THEN /\ UniqueFree(h)
                   /\ lastId < MaxId
                   /\ lastId' = lastId + 1
                   /\ IF now # NoRow
                      THEN Finish(h, "error")
                      ELSE Becomes(h, [r EXCEPT !.pc = "flushed",
                                                !.fresh = TRUE,
                                                !.id = lastId + 1])
              ELSE /\ UNCHANGED lastId
                   /\ IF now.id # r.seen.id
                      THEN Finish(h, "error")
                      ELSE Becomes(h, [r EXCEPT !.pc = "flushed",
                                                !.id = r.seen.id,
                                                !.total = r.seen.sessions])
    /\ UNCHANGED <<rows, redis, clock, job>>

CommitReplay(h) ==
    /\ At(h, "flushed", {"REPLAY"})
    /\ rows' = [rows EXCEPT ![req[h].day] = Committed(h)]
    /\ Becomes(h, [req[h] EXCEPT !.pc = "committed"])
    /\ UNCHANGED <<redis, clock, lastId, job>>

\* Redis is updated for today's row, from the same loaded sessions.
PublishReplay(h) ==
    LET r == req[h]
    IN  /\ At(h, "committed", {"REPLAY"})
        /\ redis' = IF r.day = Today /\ r.seen.sessions # {}
                    THEN [state |-> StateOf([r.seen EXCEPT
                                               !.status = "PRESENT"]),
                          id |-> r.id]
                    ELSE redis
        /\ Finish(h, "idle")
        /\ UNCHANGED <<rows, clock, lastId, job>>

-----------------------------------------------------------------------------
(* The specification                                                        *)

\* The day the employee forgot to end, from before the clock started.
ForgottenDay(d) ==
    [id |-> d + 1, status |-> "PRESENT",
     sessions |-> {[type |-> "START", ts |-> 0]}, total |-> {}]

\* Today and later dates have no row yet; earlier ones have none, or one
\* that was left open.
Init ==
    /\ \E open \in SUBSET {d \in Days : d < Today} :
           rows = [d \in Days |-> IF d \in open THEN ForgottenDay(d)
                                                ELSE NoRow]
    /\ redis = NoKey
    /\ clock = 0
    /\ lastId = Today
    /\ job = "waiting"
    /\ req = [h \in Handlers |-> Done("idle")]

\* What the employee's phone and the scheduler do.
SelfService(h) ==
    \/ ReadState(h)
    \/ \E t \in SessionTypes : BeginTap(h, t)
    \/ DeleteStaleKey(h)
    \/ FlushStart(h)
    \/ FlushTap(h)
    \/ WriteRedis(h)
    \/ Commit(h)
    \/ Fail(h)
    \/ \E d \in Days : BeginLeave(h, d) \/ BeginRevoke(h, d)
    \/ FlushLeave(h)
    \/ CommitRevoke(h)
    \/ BeginAuto(h)
    \/ FlushAuto(h)

\* What an administrator does; a manual session may carry any past time.
Administration(h) ==
    \/ \E d \in Days, st \in Statuses : BeginOverride(h, d, st)
    \/ CommitOverride(h)
    \/ \E d \in Days, t \in SessionTypes, ts \in Corrections :
           ts <= clock /\ Unused(ts, rows[d]) /\ BeginManual(h, d, [type |-> t, ts |-> ts])
    \/ FlushManual(h)

\* The replay of taps recorded offline.
Replay(h) ==
    \/ \E d \in Days, t \in SessionTypes, ts \in Corrections :
           ts <= clock /\ Unused(ts, rows[d]) /\ BeginReplay(h, d, [type |-> t, ts |-> ts])
    \/ FlushReplay(h)
    \/ CommitReplay(h)
    \/ PublishReplay(h)

Next ==
    \/ Tick
    \/ JobSelect
    \/ \E h \in Handlers : SelfService(h) \/ Administration(h) \/ Replay(h)

Spec == Init /\ [][Next]_vars

-----------------------------------------------------------------------------
(* Properties                                                               *)

HandlerState ==
    [pc : Outcomes \cup Busy, kind : AllKinds, day : Days,
     seen : Row \cup {NoRow}, add : SUBSET Session, total : SUBSET Session,
     fresh : BOOLEAN, status : Statuses, label : MachineStates, id : Nat]

\* Every variable holds what the code can put in it; in particular the table
\* never holds two rows for a date, and the job is in one of its four places.
TypeOK ==
    /\ rows \in [Days -> Row \cup {NoRow}]
    /\ redis \in [state : MachineStates, id : Nat]
    /\ clock \in Nat
    /\ lastId \in Nat
    /\ job \in {"waiting", "picked", "running", "done"}
    /\ req \in [Handlers -> HandlerState]

\* The log of a day that has any session has exactly one START and it is the
\* earliest session, whatever requests and jobs overlap: the UNIQUE index,
\* not the state check, makes it so.
StartIsFirst ==
    \A d \in Days : rows[d].sessions # {} =>
        \E s \in rows[d].sessions :
            /\ s.type = "START"
            /\ \A t \in rows[d].sessions \ {s} : t.type # "START" /\ s.ts < t.ts

\* A leave day carries no work: mark_leave and every tap exclude each other
\* through the one row of the date.
LeaveHasNoWork ==
    \A d \in Days : rows[d].status = "ON_LEAVE" => rows[d].sessions = {}

\* Every tap that is not the START was preceded by a session it is allowed
\* after, or closed an open day: no RESUME without a BREAK, no RE_CHECKIN
\* without an END.  The session need not be the latest one any more.
Justifies(s, t) ==
    \/ StateForType[s.type] \in AllowedFrom[t.type]
    \/ t.type = "END" /\ StateForType[s.type] \in OpenStates

EverySessionJustified ==
    \A d \in Days : \A t \in rows[d].sessions :
        t.type # "START" =>
            \E s \in rows[d].sessions : s.ts < t.ts /\ Justifies(s, t)

\* The worked total is only ever computed from sessions that are in the log:
\* a rolled-back session never counts.
TotalFromLog == \A d \in Days : rows[d].total \subseteq rows[d].sessions

\* "Each tap appends an immutable AttendanceSession row" (docstring): while
\* the attendance row lives, its log only grows.
LogAppendOnly ==
    [][\A d \in Days : rows'[d].id = rows[d].id =>
           rows[d].sessions \subseteq rows'[d].sessions]_vars

\* Recorded work disappears only with a row that its revoker saw as leave.
WorkLostOnlyWithLeave ==
    [][\A d \in Days :
          rows[d].sessions # {} /\ rows'[d].id # rows[d].id =>
              \E h \in Handlers : /\ req[h].kind = "REVOKE"
                                   /\ req[h].seen.id = rows[d].id
                                   /\ req[h].seen.status = "ON_LEAVE"]_vars

AllReady == \A h \in Handlers : req[h].pc \in Outcomes

\* Whatever makes a day ENDED or adds to the log of an ended day - a tap, the
\* checkout, a correction out of order - stores the total of the whole log.
\* A replay does not: it computes the total from the sessions that it loaded
\* before its inserts.
EndedTotalIsFresh ==
    [][\A d \in Days :
          /\ StateOf(rows'[d]) = "ENDED" /\ rows'[d].sessions # rows[d].sessions
          /\ \A h \in Handlers : ~CommitReplay(h)
          => rows'[d].total = rows'[d].sessions]_vars

\* When nothing is in flight, Redis tells the state of today's row, if it
\* tells any.
RedisTellsToday ==
    AllReady /\ redis # NoKey =>
        redis = [state |-> StateOf(rows[Today]), id |-> rows[Today].id]

===============================================================================
