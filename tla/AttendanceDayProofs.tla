-------------------------- MODULE AttendanceDayProofs --------------------------
(***************************************************************************)
(* Proofs about AttendanceDay, for any number of requests, dates and clock *)
(* readings.                                                               *)
(*                                                                         *)
(* The argument rests on what a handler may still believe of the row it    *)
(* read (Believes) and on what the locks of an uncommitted INSERT keep     *)
(* true (Holds): an id is given out once, so a row with the id a handler   *)
(* saw is the row it saw, with a log that can only have grown.             *)
(*                                                                         *)
(* Two parts rest on a hypothesis of their own. The decisions of a handler *)
(* stay backed by the log where no administrator corrects it               *)
(* (Uncorrected). And the abstract machine is implemented, and Redis told, *)
(* where requests come one at a time (OneAtATime): what a handler read is  *)
(* then still so when it writes.                                           *)
(***************************************************************************)
EXTENDS MCAttendanceDays, TLAPS

AnyRow == Row \cup {NoRow}

\* The operations that fail when there is no row to work on.
NeedsRow ==
    (SessionTypes \ {"START"}) \cup {"AUTO", "REVOKE", "OVERRIDE", "MANUAL"}

\* A handler r before its INSERTs: what it read of the row is old, never
\* wrong.
Believes(r, row, last) ==
    /\ r.seen.id <= last
    /\ r.seen.id = row.id => r.seen.sessions \subseteq row.sessions
    /\ r.pc \in {"stale", "loaded"} => ~r.fresh /\ r.total = {}
    /\ r.pc = "stale" => r.seen = NoRow /\ r.kind \in SessionTypes \cup {"READ"}
    /\ r.pc = "loaded" /\ r.kind \in NeedsRow => r.seen.id # 0
    /\ r.pc = "loaded" /\ r.kind = "REVOKE" => r.seen.status = "ON_LEAVE"

InTransaction(r) == r.pc \in {"flushed", "cached"}

\* A handler r between its INSERTs and its COMMIT: the row it inserts is
\* still missing, or the row it adds to is still there.
Holds(r, row, last) ==
    InTransaction(r) =>
        /\ r.id # 0
        /\ r.fresh => row = NoRow /\ r.id <= last /\ r.total = {}
        /\ ~r.fresh =>
             /\ r.id = r.seen.id
             /\ row.id = r.seen.id
             /\ \/ r.total = r.seen.total
                \/ r.total \subseteq row.sessions \cup r.add

Creates(r) == InTransaction(r) /\ r.fresh

\* A row that is being inserted has an id nobody saw at its date, and no
\* other handler inserts one for the date.
NewIds ==
    \A g, h \in Handlers :
        Creates(req[g]) /\ req[g].day = req[h].day =>
            /\ req[h].seen.id # req[g].id
            /\ Creates(req[h]) => g = h

IInv ==
    /\ TypeOK
    /\ TotalFromLog
    /\ \A d \in Days : rows[d].id <= lastId
    /\ \A h \in Handlers : /\ Believes(req[h], rows[req[h].day], lastId)
                           /\ Holds(req[h], rows[req[h].day], lastId)
    /\ NewIds

-----------------------------------------------------------------------------
(* Typing of the operators                                                  *)

LEMMA StateOfType == ASSUME NEW row \in AnyRow PROVE StateOf(row) \in MachineStates
<1>1. row.sessions \subseteq Session
  BY DEF AnyRow, Row, NoRow
<1>2. ASSUME \E s \in row.sessions : IsLast(s, row.sessions)
      PROVE  (CHOOSE s \in row.sessions : IsLast(s, row.sessions)).type \in SessionTypes
  BY <1>1, <1>2 DEF Session
<1> QED
  BY <1>2 DEF StateOf, StateForType, MachineStates, SessionTypes

LEMMA NoRowIsNull == StateOf(NoRow) = "NULL"
  BY DEF StateOf, NoRow

LEMMA DoneType ==
    ASSUME NEW outcome \in Outcomes \cup Busy
    PROVE  Done(outcome) \in HandlerState
  BY DaysAssumption
     DEF Done, HandlerState, AllKinds, SessionTypes, AnyRow, Statuses,
         MachineStates, Outcomes, Busy

-----------------------------------------------------------------------------
(* A step that leaves the table alone and moves one handler.                *)

LEMMA HandlerStep ==
    ASSUME IInv, NEW h \in Handlers, NEW r \in HandlerState, Becomes(h, r),
           rows' = rows, redis' \in [state : MachineStates, id : Nat],
           clock' \in Nat, job' \in {"waiting", "picked", "running", "done"},
           lastId' \in Nat, lastId <= lastId',
           Believes(r, rows[r.day], lastId'), Holds(r, rows[r.day], lastId'),
           \A g \in Handlers \ {h} :
               /\ Creates(req[g]) /\ req[g].day = r.day =>
                      r.seen.id # req[g].id /\ ~Creates(r)
               /\ Creates(r) /\ req[g].day = r.day => req[g].seen.id # r.id,
           Creates(r) => r.seen.id # r.id
    PROVE  IInv'
<1>1. req' = [req EXCEPT ![h] = r]
  BY DEF Becomes
<1>2. req \in [Handlers -> HandlerState] /\ rows \in [Days -> AnyRow] /\ lastId \in Nat
  BY DEF IInv, TypeOK, AnyRow
<1>3. /\ req'[h] = r
      /\ \A g \in Handlers \ {h} : req'[g] = req[g]
  BY <1>1, <1>2
<1>4. TypeOK'
  BY <1>1, <1>2 DEF IInv, TypeOK
<1>5. TotalFromLog' /\ \A d \in Days : rows'[d].id <= lastId'
  <2>1. \A d \in Days : rows[d].id \in Nat
    BY <1>2 DEF AnyRow, Row, NoRow
  <2> QED
    BY <1>2, <2>1 DEF IInv, TotalFromLog
<1>6. ASSUME NEW g \in Handlers
      PROVE  /\ Believes(req'[g], rows'[req'[g].day], lastId')
             /\ Holds(req'[g], rows'[req'[g].day], lastId')
  <2>1. CASE g = h
    BY <2>1, <1>3
  <2>2. CASE g # h
    <3>1. req'[g] = req[g]
      BY <2>2, <1>3
    <3>2. req[g].seen.id \in Nat /\ req[g].id \in Nat
      BY <1>2 DEF HandlerState, AnyRow, Row, NoRow
    <3>3. Believes(req[g], rows[req[g].day], lastId) /\ Holds(req[g], rows[req[g].day], lastId)
      BY DEF IInv
    <3> QED
      BY <3>1, <3>2, <3>3, <1>2 DEF Believes, Holds
  <2> QED
    BY <2>1, <2>2
<1>7. NewIds'
  <2> SUFFICES ASSUME NEW f \in Handlers, NEW g \in Handlers,
                      Creates(req'[f]), req'[f].day = req'[g].day
               PROVE  /\ req'[g].seen.id # req'[f].id
                      /\ Creates(req'[g]) => f = g
    BY DEF NewIds, Creates, InTransaction
  <2>1. CASE f = h /\ g = h
    BY <2>1, <1>3
  <2>2. CASE f # h /\ g # h
    BY <2>2, <1>3 DEF IInv, NewIds
  <2>3. CASE f = h /\ g # h
    BY <2>3, <1>3
  <2>4. CASE f # h /\ g = h
    BY <2>4, <1>3
  <2> QED
    BY <2>1, <2>2, <2>3, <2>4
<1> QED
  BY <1>4, <1>5, <1>6, <1>7 DEF IInv

-----------------------------------------------------------------------------
(* A step that changes the row of one date.                                 *)

LEMMA RowStep ==
    ASSUME IInv, NEW h \in Handlers, NEW d \in Days, NEW row \in AnyRow,
           NEW r \in HandlerState, Becomes(h, r),
           rows' = [rows EXCEPT ![d] = row],
           redis' = redis, clock' = clock, lastId' = lastId,
           job' \in {"waiting", "picked", "running", "done"},
           r.pc \in Outcomes \cup {"committed"},
           r.seen.id <= lastId,
           r.seen.id = rows'[r.day].id => r.seen.sessions \subseteq rows'[r.day].sessions,
           \A g \in Handlers \ {h} :
               Creates(req[g]) /\ req[g].day = r.day => r.seen.id # req[g].id,
           row.id <= lastId, row.total \subseteq row.sessions,
           \A g \in Handlers \ {h} : req[g].day = d =>
               /\ Holds(req[g], row, lastId)
               /\ req[g].seen.id = row.id => req[g].seen.sessions \subseteq row.sessions
    PROVE  IInv'
<1>1. req' = [req EXCEPT ![h] = r]
  BY DEF Becomes
<1>2. req \in [Handlers -> HandlerState] /\ rows \in [Days -> AnyRow] /\ lastId \in Nat
  BY DEF IInv, TypeOK, AnyRow
<1>3. /\ req'[h] = r
      /\ \A g \in Handlers \ {h} : req'[g] = req[g]
      /\ rows'[d] = row
      /\ \A e \in Days \ {d} : rows'[e] = rows[e]
  BY <1>1, <1>2
<1>4. ~InTransaction(r) /\ r.pc \notin {"stale", "loaded"}
  BY DEF InTransaction, Outcomes
<1>5. TypeOK'
  BY <1>1, <1>2 DEF IInv, TypeOK, AnyRow
<1>6. TotalFromLog' /\ \A e \in Days : rows'[e].id <= lastId'
  BY <1>3 DEF IInv, TotalFromLog
<1>7. ASSUME NEW g \in Handlers
      PROVE  /\ Believes(req'[g], rows'[req'[g].day], lastId')
             /\ Holds(req'[g], rows'[req'[g].day], lastId')
  <2>1. CASE g = h
    BY <2>1, <1>3, <1>4 DEF Believes, Holds
  <2>2. CASE g # h
    <3>1. req'[g] = req[g] /\ req[g].day \in Days
      BY <2>2, <1>2, <1>3 DEF HandlerState
    <3>2. Believes(req[g], rows[req[g].day], lastId) /\ Holds(req[g], rows[req[g].day], lastId)
      BY DEF IInv
    <3>3. CASE req[g].day = d
      BY <2>2, <3>1, <3>2, <3>3, <1>3 DEF Believes
    <3>4. CASE req[g].day # d
      BY <3>1, <3>2, <3>4, <1>3
    <3> QED
      BY <3>3, <3>4
  <2> QED
    BY <2>1, <2>2
<1>8. NewIds'
  <2> SUFFICES ASSUME NEW f \in Handlers, NEW g \in Handlers,
                      Creates(req'[f]), req'[f].day = req'[g].day
               PROVE  /\ req'[g].seen.id # req'[f].id
                      /\ Creates(req'[g]) => f = g
    BY DEF NewIds, Creates, InTransaction
  <2>1. f # h /\ req'[f] = req[f]
    BY <1>3, <1>4 DEF Creates
  <2>2. CASE g # h
    BY <2>1, <2>2, <1>3 DEF IInv, NewIds
  <2>3. CASE g = h
    BY <2>1, <2>3, <1>3, <1>4 DEF Creates
  <2> QED
    BY <2>2, <2>3
<1> QED
  BY <1>5, <1>6, <1>7, <1>8 DEF IInv

-----------------------------------------------------------------------------
(* The three ways a request moves without writing to the table.             *)

LEMMA FinishStep ==
    ASSUME IInv, NEW h \in Handlers, NEW outcome \in Outcomes,
           Finish(h, outcome),
           rows' = rows, redis' \in [state : MachineStates, id : Nat],
           clock' \in Nat, job' \in {"waiting", "picked", "running", "done"},
           lastId' \in Nat, lastId <= lastId'
    PROVE  IInv'
<1> DEFINE r == Done(outcome)
<1>1. r \in HandlerState /\ r.seen = NoRow /\ r.pc = outcome /\ ~r.fresh
  BY DoneType DEF Done
<1>2. lastId \in Nat /\ rows[r.day] \in AnyRow /\ r.seen.id = 0 /\ r.seen.sessions = {}
  BY <1>1 DEF IInv, TypeOK, AnyRow, HandlerState, NoRow
<1>3. Believes(r, rows[r.day], lastId') /\ Holds(r, rows[r.day], lastId') /\ ~Creates(r)
  BY <1>1, <1>2 DEF Believes, Holds, Creates, InTransaction, Outcomes
<1>4. \A g \in Handlers : Creates(req[g]) => req[g].id # 0
  BY DEF IInv, Holds, Creates
<1>5. Becomes(h, r)
  BY DEF Finish
<1> HIDE DEF r
<1> QED
  BY <1>1, <1>2, <1>3, <1>4, <1>5, HandlerStep

LEMMA LoadStep ==
    ASSUME IInv, NEW h \in Handlers, NEW kind \in AllKinds, NEW day \in Days,
           NEW add \in SUBSET Session, NEW status \in Statuses,
           Load(h, kind, day, add, status),
           kind \in NeedsRow => rows[day] # NoRow,
           kind = "REVOKE" => rows[day].status = "ON_LEAVE",
           rows' = rows, redis' = redis, clock' = clock, lastId' = lastId,
           job' \in {"waiting", "picked", "running", "done"}
    PROVE  IInv'
<1> DEFINE r == [Done("loaded") EXCEPT !.kind = kind, !.day = day,
                                       !.seen = rows[day], !.add = add,
                                       !.status = status]
<1>1. lastId \in Nat /\ rows[day] \in AnyRow /\ rows[day].id <= lastId
  BY DEF IInv, TypeOK, AnyRow
<1>2. r \in HandlerState
  <2>1. Done("loaded") \in HandlerState
    BY DoneType DEF Busy
  <2>2. rows[day] \in Row \cup {NoRow}
    BY <1>1 DEF AnyRow
  <2> QED
    BY <2>1, <2>2, ZenonT(60) DEF HandlerState
<1>3. /\ r.pc = "loaded" /\ r.kind = kind /\ r.day = day /\ r.seen = rows[day]
      /\ r.fresh = FALSE /\ r.total = {}
  BY DEF Done
<1>4. rows[day] # NoRow => rows[day].id # 0
  BY <1>1 DEF AnyRow, Row
<1>5. Believes(r, rows[r.day], lastId') /\ Holds(r, rows[r.day], lastId') /\ ~Creates(r)
  BY <1>1, <1>3, <1>4 DEF Believes, Holds, Creates, InTransaction
<1>6. \A g \in Handlers : Creates(req[g]) => req[g].id # 0 /\ rows[req[g].day].id = 0
  BY DEF IInv, Holds, Creates, NoRow
<1>7. Becomes(h, r)
  BY DEF Load
<1>8. /\ redis' \in [state : MachineStates, id : Nat]
      /\ clock' \in Nat /\ lastId' \in Nat /\ lastId <= lastId'
  BY DEF IInv, TypeOK
<1> HIDE DEF r
<1> QED
  BY <1>2, <1>3, <1>5, <1>6, <1>7, <1>8, HandlerStep

\* The INSERT of an attendance row: r is h after its flush.
LEMMA CreateStep ==
    ASSUME IInv, NEW h \in Handlers, NEW r \in HandlerState, Becomes(h, r),
           req[h].pc = "loaded", UniqueFree(h), rows[req[h].day] = NoRow,
           r.pc = "flushed", r.fresh = TRUE, r.id = lastId + 1,
           r.day = req[h].day, r.seen = req[h].seen, r.total = req[h].total,
           rows' = rows, redis' = redis, clock' \in Nat, job' = job,
           lastId' = lastId + 1
    PROVE  IInv'
<1>1. lastId \in Nat /\ \A g \in Handlers : req[g].seen.id <= lastId /\ req[g].seen.id \in Nat
  BY DEF IInv, TypeOK, Believes, HandlerState, Row, NoRow
<1>2. Believes(req[h], rows[req[h].day], lastId)
  BY DEF IInv
<1>3. Believes(r, rows[r.day], lastId') /\ Holds(r, rows[r.day], lastId')
  BY <1>1, <1>2 DEF Believes, Holds
<1>4. \A g \in Handlers : req[g].seen.id # r.id
  BY <1>1
<1>5. \A g \in Handlers \ {h} : req[g].day = r.day => ~Creates(req[g])
  BY DEF UniqueFree, Inserting, Creates, InTransaction
<1>6. /\ redis' \in [state : MachineStates, id : Nat]
      /\ lastId' \in Nat /\ lastId <= lastId'
      /\ job' \in {"waiting", "picked", "running", "done"}
  BY <1>1 DEF IInv, TypeOK
<1> QED
  BY <1>3, <1>4, <1>5, <1>6, HandlerStep

\* The INSERT of sessions into the row that was loaded.
LEMMA AddStep ==
    ASSUME IInv, NEW h \in Handlers, NEW r \in HandlerState, Becomes(h, r),
           req[h].pc = "loaded", req[h].seen.id # 0,
           rows[req[h].day].id = req[h].seen.id,
           r.pc = "flushed", r.fresh = req[h].fresh, r.id = req[h].seen.id,
           r.day = req[h].day, r.seen = req[h].seen,
           r.total = req[h].seen.total \/ r.total \subseteq rows[req[h].day].sessions \cup r.add,
           rows' = rows, redis' = redis, clock' \in Nat, lastId' = lastId,
           job' \in {"waiting", "picked", "running", "done"}
    PROVE  IInv'
<1>1. Believes(req[h], rows[req[h].day], lastId)
  BY DEF IInv
<1>2. Believes(r, rows[r.day], lastId') /\ Holds(r, rows[r.day], lastId') /\ ~Creates(r)
  BY <1>1 DEF Believes, Holds, Creates
<1>3. \A g \in Handlers : Creates(req[g]) /\ req[g].day = r.day => r.seen.id # req[g].id
  BY DEF IInv, NewIds
<1>4. /\ redis' \in [state : MachineStates, id : Nat]
      /\ lastId' \in Nat /\ lastId <= lastId'
  BY DEF IInv, TypeOK
<1> QED
  BY <1>2, <1>3, <1>4, HandlerStep

LEMMA InsertStep ==
    ASSUME IInv, NEW h \in Handlers, NEW new \in SUBSET Session,
           NEW label \in MachineStates, NEW recompute \in BOOLEAN,
           At(h, "loaded", NeedsRow), InsertSession(h, new, label, recompute),
           rows' = rows, redis' = redis, clock' \in Nat, lastId' = lastId,
           job' \in {"waiting", "picked", "running", "done"}
    PROVE  IInv'
<1>1. CASE rows[req[h].day].id # req[h].seen.id
  <2>1. redis' \in [state : MachineStates, id : Nat] /\ lastId' \in Nat /\ lastId <= lastId'
    BY DEF IInv, TypeOK
  <2>2. Finish(h, "error")
    BY <1>1 DEF InsertSession
  <2> QED
    BY <2>1, <2>2, FinishStep DEF Outcomes
<1>2. CASE rows[req[h].day].id = req[h].seen.id
  <2> DEFINE total == IF recompute THEN rows[req[h].day].sessions \cup new
                                   ELSE req[h].seen.total
             r == [req[h] EXCEPT !.pc = "flushed", !.add = new,
                                 !.id = req[h].seen.id, !.label = label,
                                 !.total = total]
  <2>1. req[h] \in HandlerState
    BY DEF IInv, TypeOK
  <2>2. /\ rows[req[h].day] \in AnyRow
        /\ req[h].seen \in AnyRow
    BY <2>1 DEF IInv, TypeOK, AnyRow, HandlerState
  <2>3. total \in SUBSET Session /\ req[h].seen.id \in Nat
    BY <2>2 DEF AnyRow, Row, NoRow
  <2> HIDE DEF total
  <2>4. r \in HandlerState
    BY <2>1, <2>3, ZenonT(60) DEF HandlerState, Busy
  <2>5. /\ r.pc = "flushed" /\ r.fresh = req[h].fresh /\ r.id = req[h].seen.id
        /\ r.day = req[h].day /\ r.seen = req[h].seen /\ r.total = total /\ r.add = new
    BY <2>1, ZenonT(60) DEF HandlerState
  <2>6. total = req[h].seen.total \/ total \subseteq rows[req[h].day].sessions \cup new
    BY DEF total
  <2>7. Becomes(h, r)
    BY <1>2 DEF InsertSession, total
  <2>8. req[h].pc = "loaded" /\ req[h].seen.id # 0
    BY DEF At, IInv, Believes
  <2> HIDE DEF r
  <2> QED
    BY <1>2, <2>4, <2>5, <2>6, <2>7, <2>8, AddStep
<1> QED
  BY <1>1, <1>2

-----------------------------------------------------------------------------
(* The steps that write to the table.                                       *)

\* What a transaction leaves is a row again, with a log and an id that
\* contain what was there.
LEMMA CommittedRow ==
    ASSUME IInv, NEW h \in Handlers, InTransaction(req[h])
    PROVE  /\ Committed(h) \in Row
           /\ Committed(h).id = req[h].id
           /\ Committed(h).id <= lastId
           /\ Committed(h).total \subseteq Committed(h).sessions
           /\ ~req[h].fresh =>
                 /\ rows[req[h].day].id = req[h].id
                 /\ Committed(h).sessions = rows[req[h].day].sessions \cup req[h].add
                 /\ Committed(h).status = rows[req[h].day].status
           /\ req[h].fresh =>
                 /\ rows[req[h].day] = NoRow
                 /\ Committed(h).sessions = req[h].add
                 /\ Committed(h).status = req[h].status
<1> DEFINE r == req[h]
           old == rows[r.day]
<1>1. r \in HandlerState /\ old \in AnyRow /\ old.total \subseteq old.sessions /\ old.id <= lastId
  BY DEF IInv, TypeOK, AnyRow, TotalFromLog, HandlerState
<1>2. Holds(r, old, lastId)
  BY DEF IInv
<1>3. r.id \in Nat \ {0} /\ r.add \in SUBSET Session /\ r.total \in SUBSET Session /\ r.status \in Statuses
  BY <1>1, <1>2 DEF HandlerState, Holds
<1> HIDE DEF r, old
<1>4. CASE req[h].fresh
  <2>1. Committed(h) = [id |-> r.id, status |-> r.status, sessions |-> r.add, total |-> r.total]
    BY <1>4 DEF Committed, r
  <2>2. old = NoRow /\ r.id <= lastId /\ r.total = {}
    BY <1>2, <1>4 DEF Holds, r
  <2> QED
    BY <1>3, <1>4, <2>1, <2>2 DEF Row, r, old
<1>5. CASE ~req[h].fresh
  <2> DEFINE total == Emit(r.total, r.seen.total, old.total)
             sessions == old.sessions \cup r.add
  <2>1. /\ old.id = r.id
        /\ r.total = r.seen.total \/ r.total \subseteq sessions
    BY <1>2, <1>5 DEF Holds, r
  <2>2. old \in Row
    BY <1>1, <1>3, <2>1 DEF AnyRow, NoRow
  <2>3. total \subseteq sessions /\ sessions \in SUBSET Session /\ total \in SUBSET Session
    BY <1>1, <1>3, <2>1, <2>2 DEF Emit, Row
  <2>4. Committed(h) = [old EXCEPT !.sessions = old.sessions \cup r.add, !.total = total]
    <3>1. Committed(h) = [old EXCEPT !.sessions = @ \cup r.add,
                                     !.total = Emit(r.total, r.seen.total, @)]
      BY <1>5 DEF Committed, r, old
    <3> QED
      BY <3>1, <2>2, ZenonT(60) DEF Row
  <2> HIDE DEF total, sessions
  <2>5. Committed(h) \in Row
    <3>1. old.sessions \cup r.add \in SUBSET Session
      BY <2>3 DEF sessions
    <3> QED
      BY <2>2, <2>3, <2>4, <3>1, ZenonT(60) DEF Row
  <2>6. /\ Committed(h).id = old.id /\ Committed(h).total = total
        /\ Committed(h).sessions = sessions /\ Committed(h).status = old.status
    BY <2>2, <2>4, ZenonT(60) DEF Row, sessions
  <2> QED
    BY <1>1, <1>5, <2>1, <2>3, <2>5, <2>6 DEF r, old, sessions
<1> QED
  BY <1>4, <1>5

LEMMA CommitStep ==
    ASSUME IInv, NEW h \in Handlers, InTransaction(req[h]),
           NEW r \in HandlerState, Becomes(h, r),
           \/ r.pc = "idle" /\ r.seen = NoRow
           \/ r.pc = "committed" /\ r.seen = req[h].seen /\ r.day = req[h].day,
           rows' = [rows EXCEPT ![req[h].day] = Committed(h)],
           redis' = redis, clock' = clock, lastId' = lastId,
           job' \in {"waiting", "picked", "running", "done"}
    PROVE  IInv'
<1> DEFINE d == req[h].day
           row == Committed(h)
<1>1. d \in Days /\ rows \in [Days -> AnyRow] /\ req \in [Handlers -> HandlerState] /\ lastId \in Nat
  BY DEF IInv, TypeOK, AnyRow, HandlerState
<1>2. row \in AnyRow
  BY CommittedRow DEF AnyRow
<1>3. /\ req[h].id # 0
      /\ req[h].fresh => rows[d] = NoRow
      /\ ~req[h].fresh => req[h].id = req[h].seen.id /\ rows[d].id = req[h].id
  BY DEF IInv, Holds
<1>4. ASSUME NEW g \in Handlers \ {h}, req[g].day = d
      PROVE  /\ Holds(req[g], row, lastId)
             /\ req[g].seen.id = row.id => req[g].seen.sessions \subseteq row.sessions
  <2>1. Believes(req[g], rows[d], lastId) /\ Holds(req[g], rows[d], lastId)
    BY <1>4 DEF IInv
  <2>2. CASE req[h].fresh
    <3>1. Creates(req[h]) /\ ~Creates(req[g]) /\ req[g].seen.id # req[h].id
      BY <1>4, <2>2 DEF IInv, NewIds, Creates
    <3>2. ~InTransaction(req[g])
      BY <1>3, <2>1, <2>2, <3>1 DEF Creates, Holds, NoRow
    <3> QED
      BY <3>1, <3>2, CommittedRow DEF Holds
  <2>3. CASE ~req[h].fresh
    <3>1. ~Creates(req[g])
      BY <1>3, <2>1, <2>3 DEF Creates, Holds, NoRow
    <3>2. row.id = rows[d].id /\ rows[d].sessions \subseteq row.sessions
      BY <1>3, <2>3, CommittedRow
    <3> HIDE DEF row, d
    <3> QED
      BY <2>1, <3>1, <3>2 DEF Creates, Holds, Believes
  <2> QED
    BY <2>2, <2>3
<1>5. /\ row.id <= lastId
      /\ row.total \subseteq row.sessions
  BY CommittedRow
<1>6. rows'[d] = row
  BY <1>1
<1>7. /\ r.seen.id <= lastId
      /\ r.seen.id = rows'[r.day].id => r.seen.sessions \subseteq rows'[r.day].sessions
      /\ \A g \in Handlers \ {h} : Creates(req[g]) /\ req[g].day = r.day => r.seen.id # req[g].id
  <2>1. CASE r.seen = NoRow
    BY <1>1, <2>1 DEF NoRow, IInv, Holds, Creates
  <2>2. CASE r.seen = req[h].seen /\ r.day = d
    <3>1. Believes(req[h], rows[d], lastId)
      BY DEF IInv
    <3>2. req[h].seen.id = row.id => ~req[h].fresh
      <4>1. req[h].fresh => req[h].seen.id # req[h].id
        BY DEF IInv, NewIds, Creates
      <4> QED
        BY <4>1, CommittedRow
    <3>3. ~req[h].fresh => rows[d].id = row.id /\ rows[d].sessions \subseteq row.sessions
      BY CommittedRow
    <3>4. \A g \in Handlers \ {h} : Creates(req[g]) /\ req[g].day = d => req[h].seen.id # req[g].id
      BY DEF IInv, NewIds
    <3> HIDE DEF row, d
    <3> QED
      BY <2>2, <3>1, <3>2, <3>3, <3>4, <1>6 DEF Believes
  <2> QED
    BY <2>1, <2>2
<1>8. r.pc \in Outcomes \cup {"committed"}
  BY DEF Outcomes
<1> HIDE DEF row
<1> QED
  BY <1>1, <1>2, <1>4, <1>5, <1>7, <1>8, RowStep DEF row

\* What every step takes from the type invariant.
LEMMA Types ==
    ASSUME IInv
    PROVE  /\ rows \in [Days -> AnyRow] /\ req \in [Handlers -> HandlerState]
           /\ redis \in [state : MachineStates, id : Nat]
           /\ clock \in Nat /\ lastId \in Nat /\ lastId <= lastId
           /\ job \in {"waiting", "picked", "running", "done"}
  BY DEF IInv, TypeOK, AnyRow

LEMMA RevokeStep ==
    ASSUME IInv, NEW h \in Handlers, CommitRevoke(h)
    PROVE  IInv'
<1> DEFINE d == req[h].day
           row == IF rows[d].id = req[h].seen.id THEN NoRow ELSE rows[d]
           r == Done("idle")
<1>1. d \in Days /\ rows[d] \in AnyRow /\ rows[d].id <= lastId /\ rows[d].total \subseteq rows[d].sessions
  BY Types DEF HandlerState, IInv, TotalFromLog
<1>2. req[h].seen.id # 0 /\ req[h].pc = "loaded"
  BY DEF CommitRevoke, At, IInv, Believes, NeedsRow
<1>3. row \in AnyRow /\ row.id <= lastId /\ row.total \subseteq row.sessions
  BY <1>1, Types DEF AnyRow, NoRow
<1>4. rows' = [rows EXCEPT ![d] = row]
  BY Types DEF CommitRevoke
<1>5. ASSUME NEW g \in Handlers \ {h}, req[g].day = d
      PROVE  /\ Holds(req[g], row, lastId)
             /\ req[g].seen.id = row.id => req[g].seen.sessions \subseteq row.sessions
  <2>1. Believes(req[g], rows[d], lastId) /\ Holds(req[g], rows[d], lastId)
    BY <1>5 DEF IInv
  <2>2. CASE row = rows[d]
    BY <2>1, <2>2 DEF Believes
  <2>3. CASE row = NoRow /\ rows[d].id = req[h].seen.id
    <3>1. ~(InTransaction(req[g]) /\ ~req[g].fresh /\ req[g].id = req[h].seen.id)
      BY DEF CommitRevoke, InTransaction, Inserting
    <3>2. InTransaction(req[g]) => req[g].fresh
      BY <2>1, <2>3, <3>1 DEF Holds
    <3>3. ~InTransaction(req[g])
      BY <1>2, <2>1, <2>3, <3>2 DEF Holds, NoRow
    <3>4. req[g].seen.id = 0 => req[g].seen.sessions = {}
      BY Types DEF HandlerState, Row, NoRow
    <3> HIDE DEF row, d
    <3> QED
      BY <2>3, <3>3, <3>4 DEF Holds, NoRow
  <2> QED
    BY <2>2, <2>3
<1>6. /\ r \in HandlerState /\ r.pc = "idle" /\ r.seen.id = 0 /\ r.seen.sessions = {}
      /\ Becomes(h, r)
  BY DoneType DEF CommitRevoke, Finish, Done, Outcomes, NoRow
<1>7. \A g \in Handlers \ {h} : Creates(req[g]) => req[g].id # 0
  BY DEF IInv, Holds, Creates
<1>8. redis' = redis /\ clock' = clock /\ lastId' = lastId /\ job' = job
  BY DEF CommitRevoke
<1> HIDE DEF row, d, r
<1>9. /\ r.seen.id <= lastId
      /\ r.seen.id = rows'[r.day].id => r.seen.sessions \subseteq rows'[r.day].sessions
      /\ \A g \in Handlers \ {h} : Creates(req[g]) /\ req[g].day = r.day => r.seen.id # req[g].id
      /\ r.pc \in Outcomes \cup {"committed"}
      /\ job' \in {"waiting", "picked", "running", "done"}
  BY <1>6, <1>7, <1>8, Types DEF Outcomes
<1> QED
  BY <1>1, <1>3, <1>4, <1>5, <1>6, <1>8, <1>9, RowStep

\* Changing the status of a row keeps its id, its log and its total.
LEMMA OverrideStep ==
    ASSUME IInv, NEW h \in Handlers, CommitOverride(h)
    PROVE  IInv'
<1> DEFINE d == req[h].day
           status == Emit(req[h].status, req[h].seen.status, rows[d].status)
           row == [rows[d] EXCEPT !.status = status]
           r == Done("idle")
<1>1. /\ req[h] \in HandlerState /\ d \in Days /\ rows[d] \in AnyRow
      /\ rows[d].id <= lastId /\ rows[d].total \subseteq rows[d].sessions
  BY Types DEF HandlerState, IInv, TotalFromLog
<1>2. req[h].seen.id # 0 /\ req[h].pc = "loaded"
  BY DEF CommitOverride, At, IInv, Believes, NeedsRow
<1>3. redis' = redis /\ clock' = clock /\ lastId' = lastId /\ job' = job
  BY DEF CommitOverride
<1>4. CASE rows[d].id # req[h].seen.id
  BY <1>3, <1>4, Types, FinishStep DEF CommitOverride, Outcomes
<1>5. CASE rows[d].id = req[h].seen.id
  <2>1. rows[d] \in Row /\ status \in Statuses
    BY <1>1, <1>2, <1>5 DEF AnyRow, NoRow, HandlerState, Row, Emit
  <2>2. /\ row \in Row /\ row.id = rows[d].id /\ row.total = rows[d].total
        /\ row.sessions = rows[d].sessions
    <3> HIDE DEF status
    <3> QED
      BY <2>1, ZenonT(60) DEF Row
  <2>3. rows' = [rows EXCEPT ![d] = row]
    <3>1. rows' = [rows EXCEPT ![req[h].day].status =
                                  Emit(req[h].status, req[h].seen.status, @)]
      BY <1>5 DEF CommitOverride
    <3> QED
      BY <3>1, <1>1, Zenon
  <2>4. ASSUME NEW g \in Handlers \ {h}, req[g].day = d
        PROVE  /\ Holds(req[g], row, lastId)
               /\ req[g].seen.id = row.id => req[g].seen.sessions \subseteq row.sessions
    <3>1. Believes(req[g], rows[d], lastId) /\ Holds(req[g], rows[d], lastId)
      BY <2>4 DEF IInv
    <3>2. rows[d] # NoRow
      BY <1>2, <1>5 DEF NoRow
    <3> HIDE DEF row, d
    <3> QED
      BY <2>2, <3>1, <3>2 DEF Holds, Believes
  <2>5. /\ r \in HandlerState /\ r.pc = "idle" /\ r.seen.id = 0 /\ r.seen.sessions = {}
        /\ Becomes(h, r)
    BY <1>5, DoneType DEF CommitOverride, Finish, Done, Outcomes, NoRow
  <2>6. \A g \in Handlers \ {h} : Creates(req[g]) => req[g].id # 0
    BY DEF IInv, Holds, Creates
  <2> HIDE DEF row, d, r
  <2>7. /\ r.seen.id <= lastId
        /\ r.seen.id = rows'[r.day].id => r.seen.sessions \subseteq rows'[r.day].sessions
        /\ \A g \in Handlers \ {h} : Creates(req[g]) /\ req[g].day = r.day => r.seen.id # req[g].id
        /\ r.pc \in Outcomes \cup {"committed"}
        /\ job' \in {"waiting", "picked", "running", "done"}
    BY <1>3, <2>5, <2>6, Types DEF Outcomes
  <2>8. row \in AnyRow /\ row.id <= lastId /\ row.total \subseteq row.sessions
    BY <1>1, <2>2 DEF AnyRow
  <2> QED
    BY <1>1, <1>3, <2>3, <2>4, <2>5, <2>7, <2>8, RowStep
<1> QED
  BY <1>4, <1>5

-----------------------------------------------------------------------------
(* One lemma per action.                                                    *)

LEMMA StaleStep ==
    ASSUME IInv, NEW h \in Handlers, NEW r \in HandlerState, Becomes(h, r),
           r.pc \in {"stale", "loaded"}, r.seen = NoRow, ~r.fresh, r.total = {},
           r.pc = "stale" => r.kind \in SessionTypes \cup {"READ"},
           r.pc = "loaded" => r.kind \notin NeedsRow,
           rows' = rows, redis' \in [state : MachineStates, id : Nat],
           clock' = clock, lastId' = lastId, job' = job
    PROVE  IInv'
<1>1. Believes(r, rows[r.day], lastId) /\ Holds(r, rows[r.day], lastId) /\ ~Creates(r)
  BY Types DEF Believes, Holds, Creates, InTransaction, NoRow, NeedsRow
<1>2. \A g \in Handlers : Creates(req[g]) => r.seen.id # req[g].id
  BY DEF IInv, Holds, Creates, NoRow
<1> QED
  BY <1>1, <1>2, Types, HandlerStep

LEMMA ReadStateStep == ASSUME IInv, NEW h \in Handlers, ReadState(h) PROVE IInv'
<1> DEFINE r == Done("stale")
<1>1. /\ r \in HandlerState /\ r.pc = "stale" /\ r.seen = NoRow
      /\ ~r.fresh /\ r.total = {} /\ r.kind = "READ"
  BY DoneType DEF Busy, Done
<1>2. Becomes(h, r)
  BY DEF ReadState
<1> HIDE DEF r
<1> QED
  BY <1>1, <1>2, Types, StaleStep DEF ReadState

LEMMA BeginTapStep ==
    ASSUME IInv, NEW h \in Handlers, NEW t \in SessionTypes, BeginTap(h, t)
    PROVE  IInv'
<1>1. /\ rows' = rows /\ redis' = redis /\ clock' = clock /\ lastId' = lastId
      /\ job' = job
  BY DEF BeginTap
<1>2. CASE StaleKey
  <2> DEFINE r == [Done("stale") EXCEPT !.kind = t]
  <2>1. Done("stale") \in HandlerState
    BY DoneType DEF Busy
  <2>2. r \in HandlerState
    BY <2>1, ZenonT(60) DEF HandlerState, AllKinds
  <2>3. /\ r.pc = Done("stale").pc /\ r.seen = Done("stale").seen
        /\ r.fresh = Done("stale").fresh /\ r.total = Done("stale").total
        /\ r.kind = t
    BY <2>1, ZenonT(60) DEF HandlerState
  <2>4. Becomes(h, r)
    BY <1>2 DEF BeginTap
  <2> HIDE DEF r
  <2>5. r.pc = "stale" /\ r.seen = NoRow /\ ~r.fresh /\ r.total = {}
    BY <2>3 DEF Done
  <2> QED
    BY <1>1, <2>2, <2>3, <2>4, <2>5, Types, StaleStep
<1>3. CASE ~StaleKey /\ Accepted(t, rows[Today])
  <2>1. t \in NeedsRow => rows[Today] # NoRow
    BY <1>3, NoRowIsNull DEF Accepted, AllowedFrom, NeedsRow, SessionTypes
  <2>2. Load(h, t, Today, {}, "PRESENT")
    BY <1>3 DEF BeginTap
  <2> QED
    BY <1>1, <2>1, <2>2, Types, DaysAssumption, LoadStep
       DEF AllKinds, Statuses, SessionTypes
<1>4. CASE ~StaleKey /\ ~Accepted(t, rows[Today])
  BY <1>1, <1>4, Types, FinishStep DEF BeginTap, Outcomes
<1> QED
  BY <1>2, <1>3, <1>4

LEMMA DeleteStaleKeyStep ==
    ASSUME IInv, NEW h \in Handlers, DeleteStaleKey(h)
    PROVE  IInv'
<1>1. /\ rows' = rows /\ clock' = clock /\ lastId' = lastId /\ job' = job
      /\ redis' \in [state : MachineStates, id : Nat] /\ req[h].pc = "stale"
  BY DEF DeleteStaleKey, NoKey, MachineStates
<1>2. CASE Finish(h, "idle") \/ Finish(h, "conflict")
  BY <1>1, <1>2, Types, FinishStep DEF Outcomes
<1>3. CASE /\ req[h].kind # "READ" /\ Accepted(req[h].kind, NoRow)
           /\ Becomes(h, [req[h] EXCEPT !.pc = "loaded"])
  <2> DEFINE r == [req[h] EXCEPT !.pc = "loaded"]
  <2>1. req[h] \in HandlerState
    BY Types
  <2>2. r \in HandlerState
    BY <2>1, ZenonT(60) DEF HandlerState, Busy
  <2>3. /\ r.pc = "loaded" /\ r.seen = req[h].seen /\ r.kind = req[h].kind
        /\ r.fresh = req[h].fresh /\ r.total = req[h].total
    BY <2>1, ZenonT(60) DEF HandlerState
  <2>4. /\ req[h].seen = NoRow /\ ~req[h].fresh /\ req[h].total = {}
        /\ req[h].kind \in SessionTypes
    BY <1>1, <1>3 DEF IInv, Believes
  <2>5. req[h].kind \notin NeedsRow
    BY <1>3, <2>4, NoRowIsNull DEF Accepted, AllowedFrom, NeedsRow, SessionTypes
  <2>6. Becomes(h, r)
    BY <1>3
  <2> HIDE DEF r
  <2> QED
    BY <1>1, <2>2, <2>3, <2>4, <2>5, <2>6, StaleStep
<1> QED
  BY <1>2, <1>3 DEF DeleteStaleKey

LEMMA FlushStartStep == ASSUME IInv, NEW h \in Handlers, FlushStart(h) PROVE IInv'
<1>1. /\ rows' = rows /\ redis' = redis /\ job' = job /\ req[h].pc = "loaded"
      /\ lastId' = lastId + 1 /\ clock' = clock + 1 /\ UniqueFree(h)
      /\ lastId' \in Nat /\ clock' \in Nat /\ lastId <= lastId'
  BY Types DEF FlushStart, At
<1>2. CASE rows[req[h].day] # NoRow
  BY <1>1, <1>2, Types, FinishStep DEF FlushStart, Outcomes
<1>3. CASE rows[req[h].day] = NoRow
  <2> DEFINE add == {[type |-> "START", ts |-> clock + 1]}
             r == [req[h] EXCEPT !.pc = "flushed", !.fresh = TRUE,
                                 !.id = lastId + 1, !.label = "STARTED",
                                 !.add = add]
  <2>1. req[h] \in HandlerState
    BY Types
  <2>2. add \in SUBSET Session /\ lastId + 1 \in Nat
    BY Types DEF Session, SessionTypes
  <2>3. Becomes(h, r)
    BY <1>3 DEF FlushStart
  <2> HIDE DEF add
  <2>4. r \in HandlerState
    BY <2>1, <2>2, ZenonT(60) DEF HandlerState, Busy, MachineStates
  <2>5. /\ r.pc = "flushed" /\ r.fresh = TRUE /\ r.id = lastId + 1
        /\ r.day = req[h].day /\ r.seen = req[h].seen /\ r.total = req[h].total
    BY <2>1, ZenonT(60) DEF HandlerState
  <2> HIDE DEF r
  <2> QED
    BY <1>1, <1>3, <2>3, <2>4, <2>5, CreateStep
<1> QED
  BY <1>2, <1>3

LEMMA FlushLeaveStep == ASSUME IInv, NEW h \in Handlers, FlushLeave(h) PROVE IInv'
<1>1. /\ rows' = rows /\ redis' = redis /\ job' = job /\ req[h].pc = "loaded"
      /\ lastId' = lastId + 1 /\ clock' = clock /\ UniqueFree(h)
      /\ lastId' \in Nat /\ clock' \in Nat /\ lastId <= lastId'
  BY Types DEF FlushLeave, At
<1>2. CASE rows[req[h].day] # NoRow
  BY <1>1, <1>2, Types, FinishStep DEF FlushLeave, Outcomes
<1>3. CASE rows[req[h].day] = NoRow
  <2> DEFINE r == [req[h] EXCEPT !.pc = "flushed", !.fresh = TRUE,
                                 !.id = lastId + 1]
  <2>1. req[h] \in HandlerState /\ lastId + 1 \in Nat
    BY Types
  <2>2. Becomes(h, r)
    BY <1>3 DEF FlushLeave
  <2>3. r \in HandlerState
    BY <2>1, ZenonT(60) DEF HandlerState, Busy
  <2>4. /\ r.pc = "flushed" /\ r.fresh = TRUE /\ r.id = lastId + 1
        /\ r.day = req[h].day /\ r.seen = req[h].seen /\ r.total = req[h].total
    BY <2>1, ZenonT(60) DEF HandlerState
  <2> HIDE DEF r
  <2> QED
    BY <1>1, <1>3, <2>2, <2>3, <2>4, CreateStep
<1> QED
  BY <1>2, <1>3

LEMMA FlushReplayStep == ASSUME IInv, NEW h \in Handlers, FlushReplay(h) PROVE IInv'
<1>1. /\ rows' = rows /\ redis' = redis /\ job' = job /\ req[h].pc = "loaded"
      /\ clock' = clock /\ req[h] \in HandlerState /\ clock' \in Nat
  BY Types DEF FlushReplay, At
<1>2. CASE req[h].seen = NoRow
  <2>1. /\ lastId' = lastId + 1 /\ UniqueFree(h)
        /\ lastId' \in Nat /\ lastId <= lastId'
    BY <1>2, Types DEF FlushReplay
  <2>2. CASE rows[req[h].day] # NoRow
    BY <1>1, <1>2, <2>1, <2>2, Types, FinishStep DEF FlushReplay, Outcomes
  <2>3. CASE rows[req[h].day] = NoRow
    <3> DEFINE r == [req[h] EXCEPT !.pc = "flushed", !.fresh = TRUE,
                                   !.id = lastId + 1]
    <3>1. lastId + 1 \in Nat
      BY Types
    <3>2. Becomes(h, r)
      BY <1>2, <2>3 DEF FlushReplay
    <3>3. r \in HandlerState
      BY <1>1, <3>1, ZenonT(60) DEF HandlerState, Busy
    <3>4. /\ r.pc = "flushed" /\ r.fresh = TRUE /\ r.id = lastId + 1
          /\ r.day = req[h].day /\ r.seen = req[h].seen /\ r.total = req[h].total
      BY <1>1, ZenonT(60) DEF HandlerState
    <3> HIDE DEF r
    <3> QED
      BY <1>1, <2>1, <2>3, <3>2, <3>3, <3>4, CreateStep
  <2> QED
    BY <2>2, <2>3
<1>3. CASE req[h].seen # NoRow
  <2>1. lastId' = lastId /\ lastId' \in Nat /\ lastId <= lastId'
    BY <1>3, Types DEF FlushReplay
  <2>2. CASE rows[req[h].day].id # req[h].seen.id
    BY <1>1, <1>3, <2>1, <2>2, Types, FinishStep DEF FlushReplay, Outcomes
  <2>3. CASE rows[req[h].day].id = req[h].seen.id
    <3> DEFINE r == [req[h] EXCEPT !.pc = "flushed", !.id = req[h].seen.id,
                                   !.total = req[h].seen.sessions]
    <3>1. req[h].seen \in Row
      BY <1>1, <1>3 DEF HandlerState
    <3>2. /\ req[h].seen.id \in Nat /\ req[h].seen.id # 0
          /\ req[h].seen.sessions \in SUBSET Session
      BY <3>1 DEF Row
    <3>3. Becomes(h, r)
      BY <1>3, <2>3 DEF FlushReplay
    <3>4. r \in HandlerState
      BY <1>1, <3>2, ZenonT(60) DEF HandlerState, Busy
    <3>5. /\ r.pc = "flushed" /\ r.fresh = req[h].fresh /\ r.id = req[h].seen.id
          /\ r.day = req[h].day /\ r.seen = req[h].seen
          /\ r.total = req[h].seen.sessions
      BY <1>1, ZenonT(60) DEF HandlerState
    <3>6. req[h].seen.sessions \subseteq rows[req[h].day].sessions
      BY <2>3 DEF IInv, Believes
    <3> HIDE DEF r
    <3>7. r.total \subseteq rows[req[h].day].sessions \cup r.add
      BY <3>5, <3>6
    <3> QED
      BY <1>1, <2>1, <2>3, <3>2, <3>3, <3>4, <3>5, <3>7, Types, AddStep
  <2> QED
    BY <2>2, <2>3
<1> QED
  BY <1>2, <1>3

LEMMA FlushTapStep == ASSUME IInv, NEW h \in Handlers, FlushTap(h) PROVE IInv'
<1> DEFINE t == req[h].kind
           new == {[type |-> t, ts |-> clock + 1]}
<1>1. /\ rows' = rows /\ redis' = redis /\ job' = job /\ lastId' = lastId
      /\ clock' \in Nat /\ t \in SessionTypes \ {"START"}
      /\ InsertSession(h, new, StateForType[t], t = "END")
  BY Types DEF FlushTap, At
<1>2. new \in SUBSET Session /\ StateForType[t] \in MachineStates
  BY <1>1, Types DEF Session, StateForType, SessionTypes, MachineStates
<1>3. At(h, "loaded", NeedsRow)
  BY DEF FlushTap, At, NeedsRow
<1> QED
  BY <1>1, <1>2, <1>3, Types, InsertStep

LEMMA FlushAutoStep == ASSUME IInv, NEW h \in Handlers, FlushAuto(h) PROVE IInv'
<1> DEFINE new == {[type |-> "END", ts |-> clock + 1]}
<1>1. /\ rows' = rows /\ redis' = redis /\ lastId' = lastId /\ clock' \in Nat
  BY Types DEF FlushAuto
<1>2. job' \in {"waiting", "picked", "running", "done"}
  BY Types DEF FlushAuto
<1>3. InsertSession(h, new, "ENDED", TRUE)
  BY DEF FlushAuto
<1>4. new \in SUBSET Session /\ "ENDED" \in MachineStates
  BY Types DEF Session, SessionTypes, MachineStates
<1>5. At(h, "loaded", NeedsRow)
  BY DEF FlushAuto, At, NeedsRow
<1> HIDE DEF new
<1> QED
  BY <1>1, <1>2, <1>3, <1>4, <1>5, InsertStep

LEMMA FlushManualStep == ASSUME IInv, NEW h \in Handlers, FlushManual(h) PROVE IInv'
<1> DEFINE now == rows[req[h].day]
           new == req[h].add
           row == [now EXCEPT !.sessions = now.sessions \cup new,
                              !.status = req[h].seen.status]
<1>1. /\ rows' = rows /\ redis' = redis /\ lastId' = lastId /\ clock' = clock
      /\ job' = job
  BY DEF FlushManual
<1>2. /\ new \in SUBSET Session /\ now \in AnyRow /\ req[h].seen \in AnyRow
  BY Types DEF HandlerState, AnyRow
<1>3. At(h, "loaded", NeedsRow)
  BY DEF FlushManual, At, NeedsRow
<1>4. req[h].seen.id # 0
  BY <1>3 DEF At, IInv, Believes
<1>5. CASE now.id # req[h].seen.id
  <2>1. Finish(h, "error")
    BY <1>5 DEF FlushManual, InsertSession
  <2> QED
    BY <1>1, <2>1, Types, FinishStep DEF Outcomes
<1>6. CASE now.id = req[h].seen.id
  <2>1. now \in Row /\ now.sessions \cup new \in SUBSET Session /\ req[h].seen.status \in Statuses
    BY <1>2, <1>4, <1>6 DEF AnyRow, NoRow, Row, Statuses
  <2>2. row \in Row
    <3> HIDE DEF now, new
    <3> QED
      BY <2>1, ZenonT(60) DEF Row
  <2>3. StateOf(row) \in MachineStates
    BY <2>2, StateOfType DEF AnyRow
  <2>4. InsertSession(h, new, StateOf(row), TRUE)
    <3>1. [now EXCEPT !.sessions = @ \cup new, !.status = req[h].seen.status] = row
      BY <2>1, Zenon DEF Row
    <3> QED
      BY <3>1 DEF FlushManual
  <2> HIDE DEF row
  <2> QED
    BY <1>1, <1>2, <1>3, <2>3, <2>4, Types, InsertStep
<1> QED
  BY <1>5, <1>6

LEMMA WriteRedisStep == ASSUME IInv, NEW h \in Handlers, WriteRedis(h) PROVE IInv'
<1> DEFINE r == [req[h] EXCEPT !.pc = "cached"]
<1>1. req[h] \in HandlerState /\ req[h].pc = "flushed"
  BY Types DEF WriteRedis, At
<1>2. r \in HandlerState
  BY <1>1, ZenonT(60) DEF HandlerState, Busy
<1>3. /\ r.pc = "cached" /\ r.seen = req[h].seen /\ r.day = req[h].day
      /\ r.fresh = req[h].fresh /\ r.total = req[h].total /\ r.id = req[h].id
      /\ r.add = req[h].add
  BY <1>1, ZenonT(60) DEF HandlerState
<1>4. /\ rows' = rows /\ clock' = clock /\ lastId' = lastId /\ job' = job
      /\ redis' \in [state : MachineStates, id : Nat] /\ Becomes(h, r)
  BY <1>1 DEF WriteRedis, HandlerState
<1> HIDE DEF r
<1>5. /\ Believes(r, rows[r.day], lastId) /\ Holds(r, rows[r.day], lastId)
      /\ Creates(r) <=> Creates(req[h])
  <2>1. Believes(req[h], rows[req[h].day], lastId) /\ Holds(req[h], rows[req[h].day], lastId)
    BY DEF IInv
  <2> QED
    BY <1>1, <1>3, <2>1 DEF Believes, Holds, Creates, InTransaction
<1>6. /\ \A g \in Handlers \ {h} :
           /\ Creates(req[g]) /\ req[g].day = r.day => r.seen.id # req[g].id /\ ~Creates(r)
           /\ Creates(r) /\ req[g].day = r.day => req[g].seen.id # r.id
      /\ Creates(r) => r.seen.id # r.id
  BY <1>3, <1>5 DEF IInv, NewIds
<1> QED
  BY <1>2, <1>4, <1>5, <1>6, Types, HandlerStep

LEMMA CommitActionStep == ASSUME IInv, NEW h \in Handlers, Commit(h) PROVE IInv'
<1> DEFINE r == Done("idle")
<1>1. r \in HandlerState /\ r.pc = "idle" /\ r.seen = NoRow /\ Becomes(h, r)
  BY DoneType DEF Outcomes, Done, Commit, Finish
<1>2. /\ rows' = [rows EXCEPT ![req[h].day] = Committed(h)]
      /\ redis' = redis /\ clock' = clock /\ lastId' = lastId
      /\ job' \in {"waiting", "picked", "running", "done"}
      /\ InTransaction(req[h])
  BY Types DEF Commit, At, InTransaction
<1> HIDE DEF r
<1> QED
  BY <1>1, <1>2, CommitStep

LEMMA CommitReplayStep == ASSUME IInv, NEW h \in Handlers, CommitReplay(h) PROVE IInv'
<1> DEFINE r == [req[h] EXCEPT !.pc = "committed"]
<1>1. req[h] \in HandlerState
  BY Types
<1>2. r \in HandlerState
  BY <1>1, ZenonT(60) DEF HandlerState, Busy
<1>3. r.pc = "committed" /\ r.seen = req[h].seen /\ r.day = req[h].day
  BY <1>1, ZenonT(60) DEF HandlerState
<1>4. /\ rows' = [rows EXCEPT ![req[h].day] = Committed(h)] /\ Becomes(h, r)
      /\ redis' = redis /\ clock' = clock /\ lastId' = lastId
      /\ job' \in {"waiting", "picked", "running", "done"}
      /\ InTransaction(req[h])
  BY Types DEF CommitReplay, At, InTransaction
<1> HIDE DEF r
<1> QED
  BY <1>2, <1>3, <1>4, CommitStep

LEMMA PublishReplayStep == ASSUME IInv, NEW h \in Handlers, PublishReplay(h) PROVE IInv'
<1> DEFINE row == [req[h].seen EXCEPT !.status = "PRESENT"]
<1>1. req[h] \in HandlerState
  BY Types
<1>2. row \in AnyRow
  <2>1. CASE req[h].seen \in Row
    BY <2>1, ZenonT(60) DEF Row, AnyRow, Statuses
  <2>2. CASE req[h].seen = NoRow
    <3> DEFINE Empty == [id : {0}, status : {"PRESENT"}, sessions : {{}}, total : {{}}]
    <3>1. NoRow \in Empty /\ \A w \in Empty : w = NoRow
      BY DEF NoRow
    <3>2. row \in Empty
      BY <2>2, <3>1, Zenon
    <3> QED
      BY <3>1, <3>2 DEF AnyRow
  <2> QED
    BY <1>1, <2>1, <2>2 DEF HandlerState
<1>3. StateOf(row) \in MachineStates /\ req[h].id \in Nat
  BY <1>1, <1>2, StateOfType DEF HandlerState
<1>4. redis' \in [state : MachineStates, id : Nat]
  <2> HIDE DEF row
  <2>1. redis' = [state |-> StateOf(row), id |-> req[h].id] \/ redis' = redis
    BY DEF PublishReplay, row
  <2> QED
    BY <1>3, <2>1, Types
<1> QED
  BY <1>4, Types, FinishStep DEF PublishReplay, Outcomes

\* The first step of the requests that find a row, or need none.
LEMMA BeginStep ==
    ASSUME IInv, NEW h \in Handlers,
           \/ \E d \in Days : BeginLeave(h, d) \/ BeginRevoke(h, d)
           \/ BeginAuto(h)
           \/ \E d \in Days, st \in Statuses : BeginOverride(h, d, st)
           \/ \E d \in Days, s \in Session : BeginManual(h, d, s) \/ BeginReplay(h, d, s)
    PROVE  IInv'
<1>1. ASSUME NEW outcome \in Outcomes, Finish(h, outcome),
             job' \in {"waiting", "picked", "running", "done"},
             UNCHANGED <<rows, redis, clock, lastId>>
      PROVE  IInv'
  BY <1>1, Types, FinishStep
<1>2. ASSUME NEW kind \in AllKinds, NEW d \in Days, NEW add \in SUBSET Session,
             NEW status \in Statuses, Load(h, kind, d, add, status),
             kind \in NeedsRow => rows[d] # NoRow,
             kind = "REVOKE" => rows[d].status = "ON_LEAVE",
             job' \in {"waiting", "picked", "running", "done"},
             UNCHANGED <<rows, redis, clock, lastId>>
      PROVE  IInv'
  BY <1>2, LoadStep
<1>3. ASSUME NEW d \in Days, BeginLeave(h, d) PROVE IInv'
  BY <1>1, <1>2, <1>3, Types
     DEF BeginLeave, Outcomes, AllKinds, Statuses, NeedsRow, SessionTypes
<1>4. ASSUME NEW d \in Days, BeginRevoke(h, d) PROVE IInv'
  BY <1>1, <1>2, <1>4, Types DEF BeginRevoke, Outcomes, AllKinds, Statuses
<1>5. ASSUME BeginAuto(h) PROVE IInv'
  <2>1. StateOf(rows[Today]) \in OpenStates => rows[Today] # NoRow
    BY NoRowIsNull DEF OpenStates
  <2> QED
    BY <1>1, <1>2, <1>5, <2>1, DaysAssumption
       DEF BeginAuto, Outcomes, AllKinds, Statuses
<1>6. ASSUME NEW d \in Days, NEW st \in Statuses, BeginOverride(h, d, st) PROVE IInv'
  BY <1>1, <1>2, <1>6, Types DEF BeginOverride, Outcomes, AllKinds
<1>7. ASSUME NEW d \in Days, NEW s \in Session, BeginManual(h, d, s) PROVE IInv'
  BY <1>1, <1>2, <1>7, Types DEF BeginManual, Outcomes, AllKinds, Statuses
<1>8. ASSUME NEW d \in Days, NEW s \in Session, BeginReplay(h, d, s) PROVE IInv'
  BY <1>1, <1>2, <1>8, Types
     DEF BeginReplay, Outcomes, AllKinds, Statuses, NeedsRow, SessionTypes
<1> QED
  BY <1>3, <1>4, <1>5, <1>6, <1>7, <1>8

LEMMA FailStep == ASSUME IInv, NEW h \in Handlers, Fail(h) PROVE IInv'
<1>1. job' \in {"waiting", "picked", "running", "done"}
  BY Types DEF Fail
<1> QED
  BY <1>1, Types, FinishStep DEF Fail, Outcomes

\* A step that leaves the table and the requests alone.
LEMMA QuietStep ==
    ASSUME IInv, rows' = rows, req' = req, lastId' = lastId, redis' = redis,
           clock' \in Nat, job' \in {"waiting", "picked", "running", "done"}
    PROVE  IInv'
  BY DEF IInv, TypeOK, TotalFromLog, Believes, Holds, NewIds, Creates, InTransaction

-----------------------------------------------------------------------------
(* The invariant                                                            *)

LEMMA InitIInv == Init => IInv
<1> SUFFICES ASSUME Init PROVE IInv
  OBVIOUS
<1>1. PICK open \in SUBSET {d \in Days : d < Today} :
          rows = [d \in Days |-> IF d \in open THEN ForgottenDay(d) ELSE NoRow]
  BY DEF Init
<1>2. Today \in Nat
  BY DaysAssumption
<1>3. ASSUME NEW d \in open
      PROVE  /\ ForgottenDay(d) \in Row /\ ForgottenDay(d).id <= Today
             /\ ForgottenDay(d).total = {}
  BY <1>2, DaysAssumption DEF ForgottenDay, Row, Session, SessionTypes, Statuses
<1>4. ASSUME NEW d \in Days
      PROVE  /\ rows[d] \in AnyRow /\ rows[d].id <= lastId
             /\ rows[d].total \subseteq rows[d].sessions
             /\ rows[d].id \in Nat
  BY <1>1, <1>2, <1>3 DEF Init, AnyRow, NoRow, Row
<1>5. \A h \in Handlers : req[h] = Done("idle")
  BY DEF Init
<1>6. TypeOK
  <2>1. rows \in [Days -> Row \cup {NoRow}]
    BY <1>1, <1>4 DEF AnyRow
  <2>2. req \in [Handlers -> HandlerState]
    BY <1>5, DoneType DEF Init, Outcomes
  <2> QED
    BY <1>2, <2>1, <2>2 DEF Init, TypeOK, NoKey, MachineStates
<1>7. ASSUME NEW h \in Handlers
      PROVE  Believes(req[h], rows[req[h].day], lastId) /\ Holds(req[h], rows[req[h].day], lastId)
  BY <1>2, <1>5 DEF Believes, Holds, InTransaction, Done, NoRow, Init
<1>8. NewIds
  BY <1>5 DEF NewIds, Creates, InTransaction, Done
<1> QED
  BY <1>4, <1>6, <1>7, <1>8 DEF IInv, TotalFromLog

LEMMA NextIInv == ASSUME IInv, [Next]_vars PROVE IInv'
<1>1. CASE UNCHANGED vars
  BY <1>1, Types, QuietStep DEF vars
<1>2. CASE Tick
  BY <1>2, Types, QuietStep DEF Tick
<1>3. CASE JobSelect
  BY <1>3, Types, QuietStep DEF JobSelect
<1>4. ASSUME NEW h \in Handlers, SelfService(h) PROVE IInv'
  BY <1>4, ReadStateStep, BeginTapStep, DeleteStaleKeyStep, FlushStartStep,
     FlushTapStep, WriteRedisStep, CommitActionStep, FailStep, BeginStep,
     FlushLeaveStep, RevokeStep, FlushAutoStep DEF SelfService
<1>5. ASSUME NEW t \in SessionTypes, NEW ts \in Corrections
      PROVE  [type |-> t, ts |-> ts] \in Session
  BY CorrectionsAssumption DEF Session
<1>6. ASSUME NEW h \in Handlers, Administration(h) PROVE IInv'
  BY <1>5, <1>6, BeginStep, OverrideStep, FlushManualStep DEF Administration
<1>7. ASSUME NEW h \in Handlers, Replay(h) PROVE IInv'
  BY <1>5, <1>7, BeginStep, FlushReplayStep, CommitReplayStep, PublishReplayStep
     DEF Replay
<1> QED
  BY <1>1, <1>2, <1>3, <1>4, <1>6, <1>7 DEF Next

LEMMA Invariance == Spec => []IInv
<1>1. IInv /\ [Next]_vars => IInv'
  BY NextIInv
<1> QED
  BY InitIInv, <1>1, PTL DEF Spec

\* Every variable of the attendance service always holds what the code can
\* put in it, for any number of requests, dates and clock readings.
THEOREM TypeCorrect == Spec => []TypeOK
<1>1. IInv => TypeOK
  BY DEF IInv
<1> QED
  BY Invariance, <1>1, PTL

\* A worked total only ever counts sessions that are committed to the log,
\* whatever requests overlap, fail or roll back.
THEOREM TotalsCountTheLog == Spec => []TotalFromLog
<1>1. IInv => TotalFromLog
  BY DEF IInv
<1> QED
  BY Invariance, <1>1, PTL

-----------------------------------------------------------------------------
(* What a step can do to the row of a date: extend its log, insert it, or   *)
(* delete it for a revoker that saw it.                                     *)

LEMMA RowChange ==
    ASSUME IInv, [Next]_vars, NEW d \in Days
    PROVE  \/ rows'[d].id = rows[d].id /\ rows[d].sessions \subseteq rows'[d].sessions
           \/ rows'[d].id # rows[d].id /\ rows[d].sessions = {}
           \/ /\ rows'[d].id # rows[d].id
              /\ \E h \in Handlers : /\ req[h].kind = "REVOKE"
                                   /\ req[h].seen.id = rows[d].id
                                   /\ req[h].seen.status = "ON_LEAVE"
<1>1. ASSUME NEW h \in Handlers, InTransaction(req[h]),
             rows' = [rows EXCEPT ![req[h].day] = Committed(h)]
      PROVE  \/ rows'[d].id = rows[d].id /\ rows[d].sessions \subseteq rows'[d].sessions
             \/ rows'[d].id # rows[d].id /\ rows[d].sessions = {}
  <2>1. CASE d = req[h].day
    <3>1. rows'[d] = Committed(h)
      BY <1>1, <2>1, Types
    <3>2. CASE req[h].fresh
      BY <1>1, <2>1, <3>1, <3>2, CommittedRow DEF NoRow, Row
    <3>3. CASE ~req[h].fresh
      BY <1>1, <2>1, <3>1, <3>3, CommittedRow
    <3> QED
      BY <3>2, <3>3
  <2>2. CASE d # req[h].day
    BY <1>1, <2>2, Types
  <2> QED
    BY <2>1, <2>2
<1>2. ASSUME NEW h \in Handlers, Commit(h) \/ CommitReplay(h)
      PROVE  \/ rows'[d].id = rows[d].id /\ rows[d].sessions \subseteq rows'[d].sessions
             \/ rows'[d].id # rows[d].id /\ rows[d].sessions = {}
  BY <1>1, <1>2 DEF Commit, CommitReplay, At, InTransaction
<1>3. ASSUME NEW h \in Handlers, CommitRevoke(h)
      PROVE  \/ rows'[d] = rows[d]
             \/ /\ rows'[d].id # rows[d].id
                /\ \E g \in Handlers : /\ req[g].kind = "REVOKE"
                                     /\ req[g].seen.id = rows[d].id
                                     /\ req[g].seen.status = "ON_LEAVE"
  <2>1. req[h].kind = "REVOKE" /\ req[h].seen.id # 0 /\ req[h].seen.status = "ON_LEAVE"
    BY <1>3 DEF CommitRevoke, At, IInv, Believes, NeedsRow
  <2> QED
    BY <1>3, <2>1, Types DEF CommitRevoke, NoRow
<1>4. ASSUME NEW h \in Handlers, CommitOverride(h)
      PROVE  rows'[d].id = rows[d].id /\ rows'[d].sessions = rows[d].sessions
  <2>1. rows' = rows \/ rows' = [rows EXCEPT ![req[h].day].status =
                                     Emit(req[h].status, req[h].seen.status, @)]
    BY <1>4 DEF CommitOverride
  <2>2. rows \in [Days -> AnyRow] /\ req[h].day \in Days
    BY Types DEF HandlerState
  <2>3. \A x : \A row \in AnyRow :
            /\ [row EXCEPT !.status = x].id = row.id
            /\ [row EXCEPT !.status = x].sessions = row.sessions
    <3>1. \A x : \A row \in Row : /\ [row EXCEPT !.status = x].id = row.id
                                  /\ [row EXCEPT !.status = x].sessions = row.sessions
      BY Zenon DEF Row
    <3>2. NoRow \in [id : {0}, status : {"PRESENT"}, sessions : {{}}, total : {{}}]
      BY DEF NoRow
    <3>3. \A x : /\ [NoRow EXCEPT !.status = x].id = NoRow.id
                 /\ [NoRow EXCEPT !.status = x].sessions = NoRow.sessions
      BY <3>2, Zenon
    <3> QED
      BY <3>1, <3>3 DEF AnyRow
  <2>4. CASE rows' = [rows EXCEPT ![req[h].day].status =
                         Emit(req[h].status, req[h].seen.status, @)]
    <3>1. rows' = [rows EXCEPT ![req[h].day] =
                      [rows[req[h].day] EXCEPT !.status =
                          Emit(req[h].status, req[h].seen.status, rows[req[h].day].status)]]
      BY <2>2, <2>4, Zenon
    <3> DEFINE row == [rows[req[h].day] EXCEPT !.status =
                          Emit(req[h].status, req[h].seen.status, rows[req[h].day].status)]
    <3>2. row.id = rows[req[h].day].id /\ row.sessions = rows[req[h].day].sessions
      BY <2>2, <2>3
    <3> HIDE DEF row
    <3> QED
      BY <2>2, <3>1, <3>2 DEF row
  <2> QED
    BY <2>1, <2>4
<1>5. CASE rows' = rows
  BY <1>5
<1>6. CASE UNCHANGED vars \/ Tick \/ JobSelect
  BY <1>5, <1>6 DEF vars, Tick, JobSelect
<1>7. ASSUME NEW h \in Handlers, SelfService(h)
      PROVE  rows' = rows \/ Commit(h) \/ CommitRevoke(h)
  BY <1>7 DEF SelfService, ReadState, BeginTap, DeleteStaleKey, FlushStart,
     FlushTap, WriteRedis, Fail, BeginLeave, BeginRevoke, FlushLeave, BeginAuto,
     FlushAuto
<1>8. ASSUME NEW h \in Handlers, Administration(h)
      PROVE  rows' = rows \/ CommitOverride(h)
  BY <1>8 DEF Administration, BeginOverride, BeginManual, FlushManual
<1>9. ASSUME NEW h \in Handlers, Replay(h)
      PROVE  rows' = rows \/ CommitReplay(h)
  BY <1>9 DEF Replay, BeginReplay, FlushReplay, PublishReplay
<1> QED
  BY <1>2, <1>3, <1>4, <1>5, <1>6, <1>7, <1>8, <1>9 DEF Next

\* The session log is append-only: no request, job, correction or replay
\* removes a session from a row that stays.
THEOREM LogIsAppendOnly == Spec => LogAppendOnly
<1>1. IInv /\ [Next]_vars =>
        [\A d \in Days : rows'[d].id = rows[d].id =>
            rows[d].sessions \subseteq rows'[d].sessions]_vars
  BY RowChange
<1> QED
  BY Invariance, <1>1, PTL DEF Spec, LogAppendOnly

\* Recorded work disappears only with a row its revoker saw as leave.
THEOREM OnlyLeaveLosesWork == Spec => WorkLostOnlyWithLeave
<1>1. IInv /\ [Next]_vars =>
        [\A d \in Days :
            rows[d].sessions # {} /\ rows'[d].id # rows[d].id =>
              \E h \in Handlers : /\ req[h].kind = "REVOKE"
                                   /\ req[h].seen.id = rows[d].id
                                   /\ req[h].seen.status = "ON_LEAVE"]_vars
  BY RowChange
<1> QED
  BY Invariance, <1>1, PTL DEF Spec, WorkLostOnlyWithLeave

-----------------------------------------------------------------------------
(* What the session log looks like as long as nobody corrects it: only     *)
(* taps, leave and the system checkout, with any number of overlapping and *)
(* failing requests.                                                       *)

Uncorrected == Kinds \cap {"OVERRIDE", "MANUAL", "REPLAY"} = {}

\* The sessions S allow one more of type t after them.
Follows(a, S) == \E s \in S : s.ts < a.ts /\ Justifies(s, a)

Appends == (SessionTypes \ {"START"}) \cup {"AUTO"}

Allows(s, kind) ==
    \/ kind \in SessionTypes /\ StateForType[s.type] \in AllowedFrom[kind]
    \/ kind = "AUTO" /\ StateForType[s.type] \in OpenStates

\* The log of one row at clock reading now.
LogOK(row, now) ==
    /\ row.status = "ON_LEAVE" => row.sessions = {}
    /\ \A s \in row.sessions : s.ts <= now
    /\ row.sessions # {} =>
         \E s \in row.sessions :
            /\ s.type = "START"
            /\ \A t \in row.sessions \ {s} : t.type # "START" /\ s.ts < t.ts
    /\ \A t \in row.sessions : t.type # "START" => Follows(t, row.sessions)

\* A handler r about to insert: what it decided on is still so if the row it
\* saw is still there.
Decided(r, row) ==
    /\ r.pc \in Busy => r.kind \in Kinds \cup {"READ"}
    /\ r.seen.id = row.id => r.seen.status = row.status
    /\ r.pc = "stale" => r.status = "PRESENT"
    /\ r.pc = "loaded" /\ r.kind = "START" => r.status = "PRESENT"
    /\ r.pc = "loaded" /\ r.kind = "LEAVE" => r.status = "ON_LEAVE" /\ r.add = {}
    /\ r.pc = "loaded" /\ r.kind \in Appends =>
         /\ r.seen.status = "PRESENT"
         /\ \E s \in r.seen.sessions : Allows(s, r.kind)

\* What a handler r is about to commit.
Pending(r, row, now) ==
    InTransaction(r) =>
        /\ r.fresh =>
             \/ r.status = "ON_LEAVE" /\ r.add = {}
             \/ /\ r.status = "PRESENT"
                /\ \E a \in r.add : r.add = {a} /\ a.type = "START" /\ a.ts <= now
        /\ ~r.fresh =>
             /\ r.add # {} => row.status = "PRESENT"
             /\ \A a \in r.add : a.type # "START" /\ a.ts <= now /\ Follows(a, row.sessions)

LogInv ==
    /\ \A d \in Days : LogOK(rows[d], clock)
    /\ \A h \in Handlers : /\ Decided(req[h], rows[req[h].day])
                           /\ Pending(req[h], rows[req[h].day], clock)

-----------------------------------------------------------------------------
(* A state with a session behind it.                                        *)

LEMMA LastSession ==
    ASSUME NEW row \in AnyRow, NEW state, StateOf(row) = state,
           state \notin {"NULL", "ON_LEAVE"}
    PROVE  /\ row.status = "PRESENT"
           /\ \E s \in row.sessions : StateForType[s.type] = state
<1> DEFINE last == CHOOSE s \in row.sessions : IsLast(s, row.sessions)
<1>1. ~(row.id # 0 /\ row.status = "ON_LEAVE")
  BY DEF StateOf
<1>2. \E s \in row.sessions : IsLast(s, row.sessions)
  BY <1>1 DEF StateOf
<1>3. last \in row.sessions /\ StateForType[last.type] = state
  <2>1. StateOf(row) = StateForType[last.type]
    BY <1>1, <1>2 DEF StateOf
  <2> QED
    BY <1>2, <2>1
<1>4. row.status = "PRESENT"
  BY <1>1 DEF AnyRow, Row, NoRow, Statuses
<1> QED
  BY <1>3, <1>4

LEMMA Unleft == ASSUME NEW row \in AnyRow, row.id = 0 PROVE row = NoRow
  BY DEF AnyRow, Row

\* A step that leaves the table alone and moves one handler.
LEMMA LogHandlerStep ==
    ASSUME IInv, LogInv, NEW h \in Handlers, NEW r \in HandlerState,
           Becomes(h, r), rows' = rows, clock' \in Nat, clock <= clock',
           Decided(r, rows[r.day]), Pending(r, rows[r.day], clock')
    PROVE  LogInv'
<1>1. req' = [req EXCEPT ![h] = r] /\ req'[h] = r /\ \A g \in Handlers \ {h} : req'[g] = req[g]
  BY Types DEF Becomes
<1>2. ASSUME NEW d \in Days PROVE LogOK(rows'[d], clock')
  <2>1. LogOK(rows[d], clock) /\ rows[d].sessions \subseteq Session
    BY Types DEF LogInv, AnyRow, Row, NoRow
  <2>2. \A s \in rows[d].sessions : s.ts \in Nat
    BY <2>1 DEF Session
  <2> QED
    BY <2>1, <2>2, Types DEF LogOK
<1>3. ASSUME NEW g \in Handlers
      PROVE  Decided(req'[g], rows'[req'[g].day]) /\ Pending(req'[g], rows'[req'[g].day], clock')
  <2>1. CASE g = h
    BY <1>1, <2>1
  <2>2. CASE g # h
    <3>1. /\ req'[g] = req[g] /\ Decided(req[g], rows[req[g].day])
          /\ Pending(req[g], rows[req[g].day], clock)
      BY <1>1, <2>2 DEF LogInv
    <3>2. \A a \in req[g].add : a.ts \in Nat
      BY Types DEF HandlerState, Session
    <3>3. Pending(req[g], rows[req[g].day], clock')
      BY <3>1, <3>2, Types DEF Pending
    <3> QED
      BY <3>1, <3>3
  <2> QED
    BY <2>1, <2>2
<1> QED
  BY <1>2, <1>3 DEF LogInv

\* Handlers at rest decided nothing.
LEMMA LogFinishStep ==
    ASSUME IInv, LogInv, NEW h \in Handlers, NEW outcome \in Outcomes,
           Finish(h, outcome), rows' = rows, clock' \in Nat, clock <= clock'
    PROVE  LogInv'
<1> DEFINE r == Done(outcome)
<1>1. r \in HandlerState /\ r.seen = NoRow /\ r.pc = outcome
  BY DoneType DEF Done
<1>2. rows[r.day] \in AnyRow
  BY <1>1, Types DEF HandlerState
<1>3. r.seen.id = rows[r.day].id => rows[r.day] = NoRow
  <2>1. r.seen.id = 0
    BY <1>1 DEF NoRow
  <2> HIDE DEF r
  <2> QED
    BY <1>2, <2>1, Unleft
<1>4. Decided(r, rows[r.day]) /\ Pending(r, rows[r.day], clock')
  BY <1>1, <1>3 DEF Decided, Pending, InTransaction, Outcomes, Busy
<1>5. Becomes(h, r)
  BY DEF Finish
<1> HIDE DEF r
<1> QED
  BY <1>1, <1>4, <1>5, LogHandlerStep

\* A request that has just read the row.
LEMMA LogLoadStep ==
    ASSUME IInv, LogInv, NEW h \in Handlers, NEW kind \in AllKinds, NEW day \in Days,
           NEW add \in SUBSET Session, NEW status \in Statuses,
           Load(h, kind, day, add, status), kind \in Kinds,
           kind = "START" => status = "PRESENT",
           kind = "LEAVE" => status = "ON_LEAVE" /\ add = {},
           kind \in Appends =>
               /\ rows[day].status = "PRESENT"
               /\ \E s \in rows[day].sessions : Allows(s, kind),
           rows' = rows, clock' = clock
    PROVE  LogInv'
<1> DEFINE r == [Done("loaded") EXCEPT !.kind = kind, !.day = day,
                                       !.seen = rows[day], !.add = add,
                                       !.status = status]
<1>1. Done("loaded") \in HandlerState /\ rows[day] \in Row \cup {NoRow}
  BY DoneType, Types DEF Busy, AnyRow
<1>2. r \in HandlerState
  BY <1>1, ZenonT(60) DEF HandlerState
<1>3. /\ r.kind = kind /\ r.day = day /\ r.seen = rows[day] /\ r.add = add
      /\ r.status = status /\ r.pc = Done("loaded").pc
  BY <1>1, ZenonT(60) DEF HandlerState
<1>4. r.pc = "loaded"
  BY <1>3 DEF Done
<1>5. Becomes(h, r)
  BY DEF Load
<1> HIDE DEF r
<1>6. Decided(r, rows[r.day]) /\ Pending(r, rows[r.day], clock')
  BY <1>3, <1>4 DEF Decided, Pending, InTransaction
<1> QED
  BY <1>2, <1>5, <1>6, Types, LogHandlerStep

-----------------------------------------------------------------------------
(* The steps that write to the table.                                       *)

\* The row of one date changes, and every other handler's decision on that
\* date stands.
LEMMA LogRowStep ==
    ASSUME IInv, LogInv, NEW h \in Handlers, NEW d \in Days, NEW row \in AnyRow,
           rows' = [rows EXCEPT ![d] = row], clock' = clock, Finish(h, "idle"),
           LogOK(row, clock),
           \A g \in Handlers \ {h} : req[g].day = d =>
               /\ req[g].seen.id = row.id => req[g].seen.status = row.status
               /\ Pending(req[g], row, clock)
    PROVE  LogInv'
<1> DEFINE r == Done("idle")
<1>1. req' = [req EXCEPT ![h] = r] /\ req'[h] = r /\ \A g \in Handlers \ {h} : req'[g] = req[g]
  BY Types DEF Finish, Becomes
<1>2. /\ rows \in [Days -> AnyRow] /\ req \in [Handlers -> HandlerState]
      /\ rows'[d] = row /\ \A e \in Days \ {d} : rows'[e] = rows[e]
      /\ \A e \in Days : rows'[e] \in AnyRow
  BY Types
<1>3. \A e \in Days : LogOK(rows'[e], clock')
  BY <1>2 DEF LogInv
<1>4. ASSUME NEW g \in Handlers
      PROVE  Decided(req'[g], rows'[req'[g].day]) /\ Pending(req'[g], rows'[req'[g].day], clock')
  <2>1. CASE g = h
    <3>1. r.pc = "idle" /\ r.day \in Days /\ r.seen.id = 0 /\ r.seen.status = "PRESENT"
      BY DoneType, DaysAssumption DEF Done, NoRow
    <3>2. rows'[r.day].id = 0 => rows'[r.day].status = "PRESENT"
      <4>1. rows'[r.day] \in AnyRow
        BY <1>2, <3>1
      <4> QED
        BY <4>1 DEF AnyRow, Row, NoRow
    <3> HIDE DEF r
    <3>3. Decided(r, rows'[r.day]) /\ Pending(r, rows'[r.day], clock')
      BY <3>1, <3>2 DEF Decided, Pending, InTransaction, Busy
    <3> QED
      BY <1>1, <2>1, <3>3
  <2>2. CASE g # h
    <3>1. /\ req'[g] = req[g] /\ Decided(req[g], rows[req[g].day])
          /\ Pending(req[g], rows[req[g].day], clock) /\ req[g].day \in Days
      BY <1>1, <1>2, <2>2 DEF LogInv, HandlerState
    <3>2. CASE req[g].day # d
      BY <1>2, <3>1, <3>2
    <3>3. CASE req[g].day = d
      BY <1>2, <2>2, <3>1, <3>3 DEF Decided
    <3> QED
      BY <3>2, <3>3
  <2> QED
    BY <2>1, <2>2
<1> QED
  BY <1>3, <1>4 DEF LogInv

LEMMA CommittedLog ==
    ASSUME IInv, LogInv, NEW h \in Handlers, InTransaction(req[h])
    PROVE  LogOK(Committed(h), clock)
<1> DEFINE r == req[h]
           old == rows[r.day]
           row == Committed(h)
<1>1. LogOK(old, clock) /\ Pending(r, old, clock) /\ old \in AnyRow /\ r \in HandlerState
  BY Types DEF LogInv, HandlerState
<1>2. /\ row \in Row
      /\ r.fresh => row.sessions = r.add /\ row.status = r.status
      /\ ~r.fresh => row.sessions = old.sessions \cup r.add /\ row.status = old.status
  BY CommittedRow
<1>3. (\A s \in old.sessions : s.ts \in Nat) /\ (\A s \in r.add : s.ts \in Nat) /\ clock \in Nat
  BY <1>1, Types DEF AnyRow, Row, NoRow, HandlerState, Session
<1> HIDE DEF r, old, row
<1>4. ASSUME r.fresh PROVE LogOK(row, clock)
  <2>1. CASE r.add = {}
    BY <1>2, <1>4, <2>1 DEF LogOK
  <2>2. CASE /\ r.status = "PRESENT"
             /\ \E a \in r.add : r.add = {a} /\ a.type = "START" /\ a.ts <= clock
    BY <1>2, <1>4, <2>2 DEF LogOK
  <2>3. InTransaction(r)
    BY DEF r
  <2> QED
    BY <1>1, <1>4, <2>1, <2>2, <2>3 DEF Pending
<1>5. ASSUME ~r.fresh PROVE LogOK(row, clock)
  <2>1. /\ r.add # {} => old.status = "PRESENT"
        /\ \A a \in r.add : a.type # "START" /\ a.ts <= clock /\ Follows(a, old.sessions)
    BY <1>1, <1>5 DEF Pending, r
  <2>2. row.sessions = old.sessions \cup r.add /\ row.status = old.status
    BY <1>2, <1>5
  <2>3. row.status = "ON_LEAVE" => row.sessions = {}
    BY <1>1, <2>1, <2>2 DEF LogOK
  <2>4. \A s \in row.sessions : s.ts <= clock
    BY <1>1, <2>1, <2>2 DEF LogOK
  <2>5. \A t \in row.sessions : t.type # "START" => Follows(t, row.sessions)
    BY <1>1, <2>1, <2>2 DEF LogOK, Follows
  <2>6. ASSUME row.sessions # {}
        PROVE  \E s \in row.sessions :
                 /\ s.type = "START"
                 /\ \A t \in row.sessions \ {s} : t.type # "START" /\ s.ts < t.ts
    <3>1. old.sessions # {}
      BY <2>1, <2>2, <2>6 DEF Follows
    <3>2. PICK s \in old.sessions :
             /\ s.type = "START"
             /\ \A t \in old.sessions \ {s} : t.type # "START" /\ s.ts < t.ts
      BY <1>1, <3>1 DEF LogOK
    <3>3. ASSUME NEW a \in r.add PROVE s.ts < a.ts
      <4>1. PICK u \in old.sessions : u.ts < a.ts
        BY <2>1 DEF Follows
      <4> QED
        BY <1>3, <3>2, <4>1
    <3> QED
      BY <2>1, <2>2, <3>2, <3>3
  <2> QED
    BY <2>3, <2>4, <2>5, <2>6 DEF LogOK
<1> QED
  BY <1>4, <1>5 DEF row

LEMMA LogCommitStep ==
    ASSUME IInv, LogInv, NEW h \in Handlers, Commit(h)
    PROVE  LogInv'
<1> DEFINE d == req[h].day
           row == Committed(h)
<1>1. /\ InTransaction(req[h]) /\ Finish(h, "idle") /\ clock' = clock
      /\ rows' = [rows EXCEPT ![d] = row]
  BY DEF Commit, At, InTransaction
<1>2. d \in Days /\ row \in AnyRow /\ LogOK(row, clock)
  BY <1>1, Types, CommittedRow, CommittedLog DEF HandlerState, AnyRow
<1>3. ASSUME NEW g \in Handlers \ {h}, req[g].day = d
      PROVE  /\ req[g].seen.id = row.id => req[g].seen.status = row.status
             /\ Pending(req[g], row, clock)
  <2>1. /\ Decided(req[g], rows[d]) /\ Pending(req[g], rows[d], clock)
        /\ Holds(req[g], rows[d], lastId)
    BY <1>3 DEF LogInv, IInv
  <2>2. CASE req[h].fresh
    <3>1. req[g].seen.id # row.id /\ ~Creates(req[g]) /\ rows[d].id = 0
      BY <1>1, <1>3, <2>2, CommittedRow DEF IInv, NewIds, Creates, NoRow
    <3>2. ~InTransaction(req[g])
      BY <2>1, <3>1 DEF Holds, Creates
    <3> QED
      BY <3>1, <3>2 DEF Pending
  <2>3. CASE ~req[h].fresh
    <3>1. /\ row.id = rows[d].id /\ row.status = rows[d].status
          /\ rows[d].sessions \subseteq row.sessions
      BY <1>1, <2>3, CommittedRow
    <3> HIDE DEF row, d
    <3> QED
      BY <2>1, <3>1 DEF Decided, Pending, Follows
  <2> QED
    BY <2>2, <2>3
<1> HIDE DEF row, d
<1> QED
  BY <1>1, <1>2, <1>3, LogRowStep

LEMMA LogRevokeStep ==
    ASSUME IInv, LogInv, NEW h \in Handlers, CommitRevoke(h)
    PROVE  LogInv'
<1>1. req[h].day \in Days /\ clock' = clock /\ Finish(h, "idle") /\ req[h].seen.id # 0
  BY Types DEF CommitRevoke, HandlerState, At, IInv, Believes, NeedsRow
<1>2. CASE rows[req[h].day].id # req[h].seen.id
  BY <1>1, <1>2, Types, LogFinishStep DEF CommitRevoke, Outcomes
<1>3. CASE rows[req[h].day].id = req[h].seen.id
  <2> DEFINE d == req[h].day
  <2>1. rows' = [rows EXCEPT ![d] = NoRow] /\ LogOK(NoRow, clock) /\ NoRow \in AnyRow
    BY <1>3 DEF CommitRevoke, LogOK, NoRow, AnyRow
  <2>2. ASSUME NEW g \in Handlers \ {h}, req[g].day = d
        PROVE  /\ req[g].seen.id = NoRow.id => req[g].seen.status = NoRow.status
               /\ Pending(req[g], NoRow, clock)
    <3>1. Holds(req[g], rows[d], lastId)
      BY <2>2 DEF IInv
    <3>2. ~(InTransaction(req[g]) /\ ~req[g].fresh /\ req[g].id = req[h].seen.id)
      BY DEF CommitRevoke, InTransaction, Inserting
    <3>3. ~InTransaction(req[g])
      BY <1>1, <1>3, <3>1, <3>2 DEF Holds, NoRow
    <3>4. req[g].seen.id = 0 => req[g].seen.status = "PRESENT"
      BY Types DEF HandlerState, Row, NoRow
    <3> QED
      BY <3>3, <3>4 DEF Pending, NoRow
  <2> HIDE DEF d
  <2>3. d \in Days
    BY <1>1 DEF d
  <2> QED
    BY <1>1, <2>1, <2>2, <2>3, LogRowStep
<1> QED
  BY <1>2, <1>3

-----------------------------------------------------------------------------
(* One lemma per action.                                                    *)

LEMMA LogReadStep == ASSUME IInv, LogInv, NEW h \in Handlers, ReadState(h) PROVE LogInv'
<1> DEFINE r == Done("stale")
<1>1. r \in HandlerState /\ r.pc = "stale" /\ r.seen.id = 0 /\ r.seen.status = "PRESENT"
      /\ r.status = "PRESENT" /\ r.kind = "READ" /\ Becomes(h, r)
  BY DoneType DEF ReadState, Done, Busy, NoRow
<1>2. rows[r.day] \in AnyRow
  BY <1>1, Types DEF HandlerState
<1> HIDE DEF r
<1>3. rows[r.day].id = 0 => rows[r.day].status = "PRESENT"
  BY <1>2 DEF AnyRow, Row, NoRow
<1>4. Decided(r, rows[r.day]) /\ Pending(r, rows[r.day], clock)
  BY <1>1, <1>3 DEF Decided, Pending, InTransaction
<1> QED
  BY <1>1, <1>4, Types, LogHandlerStep DEF ReadState

LEMMA LogBeginTapStep ==
    ASSUME IInv, LogInv, NEW h \in Handlers, NEW t \in SessionTypes, BeginTap(h, t)
    PROVE  LogInv'
<1>1. rows' = rows /\ clock' = clock /\ t \in Kinds
  BY DEF BeginTap, Ready
<1>2. CASE StaleKey
  <2> DEFINE r == [Done("stale") EXCEPT !.kind = t]
  <2>1. Done("stale") \in HandlerState
    BY DoneType DEF Busy
  <2>2. r \in HandlerState
    BY <2>1, ZenonT(60) DEF HandlerState, AllKinds
  <2>3. /\ r.pc = Done("stale").pc /\ r.seen = Done("stale").seen
        /\ r.status = Done("stale").status /\ r.day = Done("stale").day
        /\ r.kind = t
    BY <2>1, ZenonT(60) DEF HandlerState
  <2>4. Becomes(h, r)
    BY <1>2 DEF BeginTap
  <2> HIDE DEF r
  <2>5. /\ r.pc = "stale" /\ r.seen = NoRow /\ r.status = "PRESENT"
        /\ rows[r.day] = NoRow
    BY <1>2, <2>3 DEF Done, StaleKey
  <2>6. Decided(r, rows[r.day]) /\ Pending(r, rows[r.day], clock)
    BY <1>1, <2>3, <2>5 DEF Decided, Pending, InTransaction
  <2> QED
    BY <1>1, <2>2, <2>4, <2>6, Types, LogHandlerStep
<1>3. CASE ~StaleKey /\ Accepted(t, rows[Today])
  <2>1. ASSUME t \in Appends
        PROVE  /\ rows[Today].status = "PRESENT"
               /\ \E s \in rows[Today].sessions : Allows(s, t)
    <3>1. /\ StateOf(rows[Today]) \in AllowedFrom[t]
          /\ StateOf(rows[Today]) \notin {"NULL", "ON_LEAVE"}
      BY <1>3, <2>1 DEF Accepted, AllowedFrom, Appends, SessionTypes
    <3>2. rows[Today] \in AnyRow
      BY Types, DaysAssumption
    <3>3. /\ rows[Today].status = "PRESENT"
          /\ \E s \in rows[Today].sessions : StateForType[s.type] = StateOf(rows[Today])
      BY <3>1, <3>2, LastSession
    <3> QED
      BY <3>1, <3>3 DEF Allows
  <2>2. Load(h, t, Today, {}, "PRESENT")
    BY <1>3 DEF BeginTap
  <2> QED
    BY <1>1, <2>1, <2>2, DaysAssumption, LogLoadStep DEF AllKinds, Statuses, SessionTypes
<1>4. CASE ~StaleKey /\ ~Accepted(t, rows[Today])
  BY <1>1, <1>4, Types, LogFinishStep DEF BeginTap, Outcomes
<1> QED
  BY <1>2, <1>3, <1>4

LEMMA LogDeleteStaleKeyStep ==
    ASSUME IInv, LogInv, NEW h \in Handlers, DeleteStaleKey(h)
    PROVE  LogInv'
<1>1. rows' = rows /\ clock' = clock /\ req[h].pc = "stale"
  BY DEF DeleteStaleKey
<1>2. CASE Finish(h, "idle") \/ Finish(h, "conflict")
  BY <1>1, <1>2, Types, LogFinishStep DEF Outcomes
<1>3. CASE /\ req[h].kind # "READ" /\ Accepted(req[h].kind, NoRow)
           /\ Becomes(h, [req[h] EXCEPT !.pc = "loaded"])
  <2> DEFINE r == [req[h] EXCEPT !.pc = "loaded"]
  <2>1. req[h] \in HandlerState
    BY Types
  <2>2. r \in HandlerState
    BY <2>1, ZenonT(60) DEF HandlerState, Busy
  <2>3. /\ r.pc = "loaded" /\ r.seen = req[h].seen /\ r.kind = req[h].kind
        /\ r.day = req[h].day /\ r.status = req[h].status
    BY <2>1, ZenonT(60) DEF HandlerState
  <2>4. Becomes(h, r)
    BY <1>3
  <2>5. req[h].kind \in SessionTypes /\ Decided(req[h], rows[req[h].day])
    BY <1>1, <1>3 DEF IInv, Believes, LogInv
  <2>6. req[h].kind = "START"
    BY <1>3, <2>5, NoRowIsNull DEF Accepted, AllowedFrom, SessionTypes
  <2> HIDE DEF r
  <2>7. Decided(r, rows[r.day]) /\ Pending(r, rows[r.day], clock)
    BY <1>1, <2>3, <2>5, <2>6 DEF Decided, Pending, InTransaction, Busy, Appends
  <2> QED
    BY <1>1, <2>2, <2>4, <2>7, Types, LogHandlerStep
<1> QED
  BY <1>2, <1>3 DEF DeleteStaleKey

\* The START session is stamped after everything that is in the log.
LEMMA LogFlushStartStep ==
    ASSUME IInv, LogInv, NEW h \in Handlers, FlushStart(h)
    PROVE  LogInv'
<1>1. /\ rows' = rows /\ clock' = clock + 1 /\ clock' \in Nat /\ clock <= clock'
      /\ req[h].pc = "loaded" /\ req[h].kind = "START"
  BY Types DEF FlushStart, At
<1>2. CASE rows[req[h].day] # NoRow
  BY <1>1, <1>2, LogFinishStep DEF FlushStart, Outcomes
<1>3. CASE rows[req[h].day] = NoRow
  <2> DEFINE a == [type |-> "START", ts |-> clock + 1]
             add == {a}
             r == [req[h] EXCEPT !.pc = "flushed", !.fresh = TRUE,
                                 !.id = lastId + 1, !.label = "STARTED",
                                 !.add = add]
  <2>1. req[h] \in HandlerState
    BY Types
  <2>2. add \in SUBSET Session /\ lastId + 1 \in Nat
    BY Types DEF Session, SessionTypes
  <2>3. Becomes(h, r)
    BY <1>3 DEF FlushStart
  <2>4. a \in add /\ a.type = "START" /\ a.ts <= clock'
    BY <1>1
  <2>5. add = {a}
    OBVIOUS
  <2> HIDE DEF add
  <2>6. r \in HandlerState
    BY <2>1, <2>2, ZenonT(60) DEF HandlerState, Busy, MachineStates
  <2>7. /\ r.pc = "flushed" /\ r.fresh = TRUE /\ r.add = add /\ r.kind = req[h].kind
        /\ r.day = req[h].day /\ r.seen = req[h].seen /\ r.status = req[h].status
    BY <2>1, ZenonT(60) DEF HandlerState
  <2> HIDE DEF r, a
  <2>8. Decided(req[h], rows[req[h].day])
    BY DEF LogInv
  <2>9. Decided(r, rows[r.day]) /\ Pending(r, rows[r.day], clock')
    BY <1>1, <2>4, <2>5, <2>7, <2>8 DEF Decided, Pending, Busy
  <2> QED
    BY <1>1, <2>3, <2>6, <2>9, LogHandlerStep
<1> QED
  BY <1>2, <1>3

LEMMA LogFlushLeaveStep ==
    ASSUME IInv, LogInv, NEW h \in Handlers, FlushLeave(h)
    PROVE  LogInv'
<1>1. rows' = rows /\ clock' = clock /\ req[h].pc = "loaded" /\ req[h].kind = "LEAVE"
  BY DEF FlushLeave, At
<1>2. CASE rows[req[h].day] # NoRow
  BY <1>1, <1>2, Types, LogFinishStep DEF FlushLeave, Outcomes
<1>3. CASE rows[req[h].day] = NoRow
  <2> DEFINE r == [req[h] EXCEPT !.pc = "flushed", !.fresh = TRUE,
                                 !.id = lastId + 1]
  <2>1. req[h] \in HandlerState /\ lastId + 1 \in Nat
    BY Types
  <2>2. Becomes(h, r)
    BY <1>3 DEF FlushLeave
  <2>3. r \in HandlerState
    BY <2>1, ZenonT(60) DEF HandlerState, Busy
  <2>4. /\ r.pc = "flushed" /\ r.fresh = TRUE /\ r.add = req[h].add /\ r.kind = req[h].kind
        /\ r.day = req[h].day /\ r.seen = req[h].seen /\ r.status = req[h].status
    BY <2>1, ZenonT(60) DEF HandlerState
  <2> HIDE DEF r
  <2>5. Decided(req[h], rows[req[h].day])
    BY DEF LogInv
  <2>6. Decided(r, rows[r.day]) /\ Pending(r, rows[r.day], clock)
    BY <1>1, <2>4, <2>5 DEF Decided, Pending, Busy
  <2> QED
    BY <1>1, <2>2, <2>3, <2>6, Types, LogHandlerStep
<1> QED
  BY <1>2, <1>3

\* A session is added to the row the request decided on, after everything
\* that is in its log.
LEMMA LogInsertStep ==
    ASSUME IInv, LogInv, NEW h \in Handlers, NEW t \in SessionTypes \ {"START"},
           At(h, "loaded", {t} \cup (IF t = "END" THEN {"AUTO"} ELSE {})),
           NEW label \in MachineStates, NEW recompute \in BOOLEAN,
           InsertSession(h, {[type |-> t, ts |-> clock + 1]}, label, recompute),
           rows' = rows, clock' = clock + 1
    PROVE  LogInv'
<1> DEFINE a == [type |-> t, ts |-> clock + 1]
           new == {a}
<1>1. clock' \in Nat /\ clock <= clock' /\ req[h].pc = "loaded" /\ req[h].kind \in Appends
  BY Types DEF At, Appends, SessionTypes
<1>2. CASE rows[req[h].day].id # req[h].seen.id
  <2>1. Finish(h, "error")
    BY <1>2 DEF InsertSession
  <2> QED
    BY <1>1, <2>1, LogFinishStep DEF Outcomes
<1>3. CASE rows[req[h].day].id = req[h].seen.id
  <2> DEFINE total == IF recompute THEN rows[req[h].day].sessions \cup new
                                   ELSE req[h].seen.total
             r == [req[h] EXCEPT !.pc = "flushed", !.add = new,
                                 !.id = req[h].seen.id, !.label = label,
                                 !.total = total]
             row == rows[req[h].day]
  <2>1. /\ req[h] \in HandlerState /\ row \in AnyRow /\ req[h].seen \in AnyRow
        /\ new \in SUBSET Session
    BY Types DEF HandlerState, AnyRow, Session
  <2>2. total \in SUBSET Session /\ req[h].seen.id \in Nat
    BY <2>1 DEF AnyRow, Row, NoRow
  <2>3. Becomes(h, r)
    BY <1>3 DEF InsertSession
  <2>4. /\ row.status = "PRESENT"
        /\ \E s \in row.sessions : Allows(s, req[h].kind)
    BY <1>1, <1>3 DEF LogInv, Decided, IInv, Believes
  <2>5. a.type = t /\ a.ts = clock' /\ new = {a}
    OBVIOUS
  <2>6. \A s \in row.sessions : s.ts < clock'
    <3>1. LogOK(row, clock)
      BY <2>1 DEF LogInv, HandlerState
    <3>2. \A s \in row.sessions : s.ts \in Nat
      BY <2>1 DEF AnyRow, Row, NoRow, Session
    <3> HIDE DEF row
    <3> QED
      BY <3>1, <3>2, Types DEF LogOK
  <2> HIDE DEF a
  <2>7. Follows(a, row.sessions)
    <3>1. PICK s \in row.sessions : Allows(s, req[h].kind)
      BY <2>4
    <3>2. Justifies(s, a)
      BY <2>5, <3>1 DEF Allows, At, Justifies, SessionTypes
    <3> QED
      BY <2>5, <2>6, <3>2 DEF Follows
  <2> HIDE DEF new, total
  <2>8. r \in HandlerState
    BY <2>1, <2>2, ZenonT(60) DEF HandlerState, Busy
  <2>9. /\ r.pc = "flushed" /\ r.fresh = req[h].fresh /\ r.add = new
        /\ r.kind = req[h].kind /\ r.day = req[h].day /\ r.seen = req[h].seen
    BY <2>1, ZenonT(60) DEF HandlerState
  <2> HIDE DEF r
  <2>10. ~req[h].fresh /\ Decided(req[h], row)
    BY <1>1 DEF IInv, Believes, LogInv
  <2>11. Decided(r, row) /\ Pending(r, row, clock')
    BY <1>1, <2>4, <2>5, <2>7, <2>9, <2>10 DEF Decided, Pending, Busy
  <2> QED
    BY <1>1, <2>3, <2>8, <2>9, <2>11, LogHandlerStep
<1> QED
  BY <1>2, <1>3

LEMMA LogFlushTapStep ==
    ASSUME IInv, LogInv, NEW h \in Handlers, FlushTap(h)
    PROVE  LogInv'
<1>1. /\ req[h].kind \in SessionTypes \ {"START"} /\ rows' = rows /\ clock' = clock + 1
      /\ InsertSession(h, {[type |-> req[h].kind, ts |-> clock + 1]},
                       StateForType[req[h].kind], req[h].kind = "END")
      /\ req[h].pc = "loaded"
  BY DEF FlushTap, At
<1>2. StateForType[req[h].kind] \in MachineStates
  BY <1>1 DEF StateForType, SessionTypes, MachineStates
<1>3. At(h, "loaded", {req[h].kind} \cup (IF req[h].kind = "END" THEN {"AUTO"} ELSE {}))
  BY <1>1 DEF At
<1> QED
  BY <1>1, <1>2, <1>3, LogInsertStep

LEMMA LogFlushAutoStep ==
    ASSUME IInv, LogInv, NEW h \in Handlers, FlushAuto(h)
    PROVE  LogInv'
<1>1. /\ rows' = rows /\ clock' = clock + 1
      /\ InsertSession(h, {[type |-> "END", ts |-> clock + 1]}, "ENDED", TRUE)
  BY DEF FlushAuto
<1>2. /\ At(h, "loaded", {"END"} \cup (IF "END" = "END" THEN {"AUTO"} ELSE {}))
      /\ "ENDED" \in MachineStates /\ "END" \in SessionTypes \ {"START"}
  BY DEF FlushAuto, At, MachineStates, SessionTypes
<1> QED
  BY <1>1, <1>2, LogInsertStep

LEMMA LogWriteRedisStep ==
    ASSUME IInv, LogInv, NEW h \in Handlers, WriteRedis(h)
    PROVE  LogInv'
<1> DEFINE r == [req[h] EXCEPT !.pc = "cached"]
<1>1. req[h] \in HandlerState /\ req[h].pc = "flushed" /\ Becomes(h, r)
  BY Types DEF WriteRedis, At
<1>2. r \in HandlerState
  BY <1>1, ZenonT(60) DEF HandlerState, Busy
<1>3. /\ r.pc = "cached" /\ r.fresh = req[h].fresh /\ r.add = req[h].add
      /\ r.kind = req[h].kind /\ r.day = req[h].day /\ r.seen = req[h].seen
      /\ r.status = req[h].status
  BY <1>1, ZenonT(60) DEF HandlerState
<1> HIDE DEF r
<1>4. Decided(r, rows[r.day]) /\ Pending(r, rows[r.day], clock)
  BY <1>1, <1>3 DEF LogInv, Decided, Pending, InTransaction, Busy
<1> QED
  BY <1>1, <1>2, <1>4, Types, LogHandlerStep DEF WriteRedis

LEMMA LogBeginStep ==
    ASSUME IInv, LogInv, NEW h \in Handlers,
           \/ \E d \in Days : BeginLeave(h, d) \/ BeginRevoke(h, d)
           \/ BeginAuto(h)
           \/ Fail(h)
    PROVE  LogInv'
<1>1. ASSUME NEW outcome \in Outcomes, Finish(h, outcome), UNCHANGED <<rows, clock>>
      PROVE  LogInv'
  BY <1>1, Types, LogFinishStep
<1>2. ASSUME NEW d \in Days, BeginLeave(h, d) PROVE LogInv'
  <2>1. CASE Finish(h, "conflict")
    BY <1>1, <1>2, <2>1 DEF BeginLeave, Outcomes
  <2>2. CASE Load(h, "LEAVE", d, {}, "ON_LEAVE")
    BY <1>2, <2>2, LogLoadStep
       DEF BeginLeave, Ready, AllKinds, Statuses, Appends, SessionTypes
  <2> QED
    BY <1>2, <2>1, <2>2 DEF BeginLeave
<1>3. ASSUME NEW d \in Days, BeginRevoke(h, d) PROVE LogInv'
  <2>1. CASE Finish(h, "conflict")
    BY <1>1, <1>3, <2>1 DEF BeginRevoke, Outcomes
  <2>2. CASE Load(h, "REVOKE", d, {}, "ON_LEAVE")
    BY <1>3, <2>2, LogLoadStep
       DEF BeginRevoke, Ready, AllKinds, Statuses, Appends, SessionTypes
  <2> QED
    BY <1>3, <2>1, <2>2 DEF BeginRevoke
<1>4. ASSUME BeginAuto(h) PROVE LogInv'
  <2>1. CASE Finish(h, "idle")
    BY <1>1, <1>4, <2>1 DEF BeginAuto, Outcomes
  <2>2. CASE StateOf(rows[Today]) \in OpenStates /\ Load(h, "AUTO", Today, {}, "PRESENT")
    <3>1. rows[Today] \in AnyRow /\ StateOf(rows[Today]) \notin {"NULL", "ON_LEAVE"}
      BY <2>2, Types, DaysAssumption DEF OpenStates
    <3>2. /\ rows[Today].status = "PRESENT"
          /\ \E s \in rows[Today].sessions : Allows(s, "AUTO")
      BY <2>2, <3>1, LastSession DEF Allows
    <3> QED
      BY <1>4, <2>2, <3>2, DaysAssumption, LogLoadStep
         DEF BeginAuto, Ready, AllKinds, Statuses
  <2> QED
    BY <1>4, <2>1, <2>2 DEF BeginAuto
<1>5. ASSUME Fail(h) PROVE LogInv'
  BY <1>1, <1>5 DEF Fail, Outcomes
<1> QED
  BY <1>2, <1>3, <1>4, <1>5

-----------------------------------------------------------------------------
(* The invariant                                                            *)

LEMMA InitLogInv == Init => LogInv
<1> SUFFICES ASSUME Init PROVE LogInv
  OBVIOUS
<1>1. IInv
  BY InitIInv
<1>2. ASSUME NEW d \in Days PROVE LogOK(rows[d], clock)
  <2>1. rows[d] = NoRow \/ rows[d] = ForgottenDay(d)
    BY DEF Init
  <2> QED
    BY <2>1 DEF Init, LogOK, NoRow, ForgottenDay, Follows
<1>3. ASSUME NEW h \in Handlers
      PROVE  Decided(req[h], rows[req[h].day]) /\ Pending(req[h], rows[req[h].day], clock)
  <2>1. rows[req[h].day] \in AnyRow
    BY <1>1, Types DEF HandlerState
  <2>2. req[h].pc = "idle" /\ req[h].seen = NoRow
    BY DEF Init, Done
  <2> QED
    BY <2>1, <2>2 DEF Decided, Pending, InTransaction, Busy, AnyRow, Row, NoRow
<1> QED
  BY <1>2, <1>3 DEF LogInv

LEMMA NextLogInv ==
    ASSUME Uncorrected, IInv, LogInv, [Next]_vars
    PROVE  LogInv'
<1>1. ASSUME rows' = rows, req' = req, clock' \in Nat, clock <= clock' PROVE LogInv'
  <2>1. ASSUME NEW d \in Days PROVE LogOK(rows[d], clock')
    <3>1. \A s \in rows[d].sessions : s.ts \in Nat
      BY Types DEF AnyRow, Row, NoRow, Session
    <3> QED
      BY <1>1, <3>1, Types DEF LogInv, LogOK
  <2>2. ASSUME NEW h \in Handlers PROVE Pending(req[h], rows[req[h].day], clock')
    <3>1. \A a \in req[h].add : a.ts \in Nat
      BY Types DEF HandlerState, Session
    <3> QED
      BY <1>1, <3>1, Types DEF LogInv, Pending
  <2> QED
    BY <1>1, <2>1, <2>2 DEF LogInv
<1>2. CASE UNCHANGED vars \/ Tick \/ JobSelect
  BY <1>1, <1>2, Types DEF vars, Tick, JobSelect
<1>3. ASSUME NEW h \in Handlers, SelfService(h) PROVE LogInv'
  BY <1>3, LogReadStep, LogBeginTapStep, LogDeleteStaleKeyStep, LogFlushStartStep,
     LogFlushTapStep, LogWriteRedisStep, LogCommitStep, LogBeginStep,
     LogFlushLeaveStep, LogRevokeStep, LogFlushAutoStep DEF SelfService
<1>4. ASSUME NEW h \in Handlers PROVE ~Administration(h) /\ ~Replay(h)
  <2>1. Decided(req[h], rows[req[h].day])
    BY DEF LogInv
  <2>2. req[h].pc \in Busy => req[h].kind \notin {"OVERRIDE", "MANUAL", "REPLAY"}
    BY <2>1 DEF Decided, Uncorrected
  <2> QED
    BY <2>2 DEF Administration, Replay, BeginOverride, CommitOverride, BeginManual,
       FlushManual, BeginReplay, FlushReplay, CommitReplay, PublishReplay, Ready,
       At, Busy, Uncorrected
<1> QED
  BY <1>2, <1>3, <1>4 DEF Next

LEMMA LogInvariance == ASSUME Uncorrected PROVE Spec => []LogInv
<1>1. LogInv /\ IInv /\ [Next]_vars => LogInv'
  BY NextLogInv
<1> QED
  BY InitLogInv, Invariance, <1>1, PTL DEF Spec

\* A day's log never has two STARTs nor anything before its START.
THEOREM OneStart == ASSUME Uncorrected PROVE Spec => []StartIsFirst
<1>1. LogInv => StartIsFirst
  BY DEF LogInv, LogOK, StartIsFirst
<1> QED
  BY LogInvariance, <1>1, PTL

\* Nobody works on a leave day, and nobody takes leave on a worked one.
THEOREM LeaveExcludesWork == ASSUME Uncorrected PROVE Spec => []LeaveHasNoWork
<1>1. LogInv => LeaveHasNoWork
  BY DEF LogInv, LogOK, LeaveHasNoWork
<1> QED
  BY LogInvariance, <1>1, PTL

\* However requests overlap, every session was allowed by an earlier one.
THEOREM SessionsAreJustified == ASSUME Uncorrected PROVE Spec => []EverySessionJustified
<1>1. LogInv => EverySessionJustified
  BY DEF LogInv, LogOK, EverySessionJustified, Follows
<1> QED
  BY LogInvariance, <1>1, PTL

-----------------------------------------------------------------------------
(* One request at a time, without failures (MCAttendanceDays): what it read  *)
(* is still so when it writes.                                              *)

OneAtATime ==
    /\ \E h : Handlers = {h}
    /\ 0 \in Days /\ Today # 0 /\ "FAIL" \notin Kinds

TapKinds == SessionTypes \cup {"AUTO"}

\* The session that a tap or the checkout inserts, and the states it may do so in.
Inserts(kind) == IF kind = "AUTO" THEN "END" ELSE kind
Permitted(state, kind) == IF kind = "AUTO" THEN state \in OpenStates ELSE state \in AllowedFrom[kind]

\* What a request r knows of its row.
Knows(r, row, now) ==
    /\ \A s \in r.add : s.ts <= now
    /\ r.pc \in {"stale", "loaded", "flushed", "cached"} => r.seen = row
    /\ (r.pc \in Busy /\ r.kind \in TapKinds) => r.day = Today
    /\ (r.pc \in {"loaded", "flushed", "cached"} /\ r.kind \in TapKinds) =>
          Permitted(StateOf(r.seen), r.kind)
    /\ (r.pc \in {"loaded", "flushed"} /\ r.kind = "LEAVE") =>
          r.seen = NoRow /\ r.status = "ON_LEAVE" /\ r.add = {}
    /\ (r.pc \in {"stale", "loaded"} /\ r.kind = "START") => r.status = "PRESENT"
    /\ (InTransaction(r) /\ r.kind \in TapKinds) =>
          /\ r.label = StateForType[Inserts(r.kind)] /\ (r.fresh => r.status = "PRESENT")
          /\ \E a \in r.add : /\ r.add = {a} /\ a.type = Inserts(r.kind)
                              /\ \A s \in r.seen.sessions : s.ts < a.ts
    /\ (InTransaction(r) /\ r.kind \in {"END", "AUTO", "MANUAL"}) =>
          ~r.fresh /\ r.total = r.seen.sessions \cup r.add

\* What the key in Redis tells: today's state, or what r is about to commit.
Published(r, key, today) ==
    /\ key.state # "ON_LEAVE"
    /\ IF r.pc = "cached" THEN key = [state |-> r.label, id |-> r.id]
       ELSE key # NoKey => key = [state |-> StateOf(today), id |-> today.id]

DayInv ==
    /\ \A h \in Handlers : /\ Knows(req[h], rows[req[h].day], clock)
                           /\ req[h].kind \in Uses \cup {"READ"} /\ req[h].day # 0
    /\ \A d \in Days : \A s \in rows[d].sessions : s.ts <= clock
    /\ ~Corrected => \A h \in Handlers : Published(req[h], redis, rows[Today])

-----------------------------------------------------------------------------
(* States of a row                                                          *)

LEMMA LastAdded ==
    ASSUME NEW row \in AnyRow, row.status = "PRESENT", NEW a \in row.sessions,
           \A s \in row.sessions \ {a} : s.ts < a.ts
    PROVE  StateOf(row) = StateForType[a.type]
<1>1. \A s \in row.sessions : s.ts \in Nat
  BY DEF AnyRow, Row, NoRow, Session
<1>2. IsLast(a, row.sessions)
  BY <1>1 DEF IsLast
<1>3. \A s \in row.sessions : IsLast(s, row.sessions) => s = a
  BY <1>1 DEF IsLast
<1>4. (CHOOSE s \in row.sessions : IsLast(s, row.sessions)) = a
  BY <1>2, <1>3
<1> QED
  BY <1>2, <1>4 DEF StateOf

LEMMA NotOnLeave ==
    ASSUME NEW row \in AnyRow, StateOf(row) # "ON_LEAVE"
    PROVE  row.status = "PRESENT"
  BY DEF AnyRow, Row, NoRow, StateOf, Statuses

LEMMA TapStates ==
    ASSUME NEW kind \in TapKinds, NEW state, Permitted(state, kind)
    PROVE  state # "ON_LEAVE" /\ Inserts(kind) \in SessionTypes
           /\ StateForType[Inserts(kind)] \in MachineStates \ {"ON_LEAVE"}
  BY DEF TapKinds, Permitted, Inserts, SessionTypes, AllowedFrom, OpenStates, StateForType, MachineStates

\* What a tap or the checkout commits has the state that it published.
LEMMA CommittedState ==
    ASSUME IInv, NEW h \in Handlers, Knows(req[h], rows[req[h].day], clock),
           InTransaction(req[h]), req[h].kind \in TapKinds
    PROVE  /\ StateOf(Committed(h)) = StateForType[Inserts(req[h].kind)]
           /\ req[h].label = StateForType[Inserts(req[h].kind)]
           /\ Permitted(StateOf(rows[req[h].day]), req[h].kind)
<1> DEFINE r == req[h]
           row == rows[r.day]
           new == Committed(h)
<1>1. r \in HandlerState /\ row \in AnyRow /\ new \in Row
  BY Types, CommittedRow DEF HandlerState
<1>2. r.seen = row /\ Permitted(StateOf(row), r.kind) /\ r.label = StateForType[Inserts(r.kind)]
  BY DEF Knows, InTransaction
<1>3. PICK a \in r.add : r.add = {a} /\ a.type = Inserts(r.kind) /\ \A s \in row.sessions : s.ts < a.ts
  BY <1>2 DEF Knows
<1>4. row.status = "PRESENT"
  BY <1>1, <1>2, TapStates, NotOnLeave
<1>5. new.status = "PRESENT"
  <2>1. CASE r.fresh
    BY <2>1, CommittedRow DEF Knows
  <2>2. CASE ~r.fresh
    BY <2>2, <1>4, CommittedRow
  <2> QED BY <2>1, <2>2
<1>6. a \in new.sessions /\ \A s \in new.sessions \ {a} : s.ts < a.ts
  <2>1. CASE r.fresh
    BY <2>1, <1>3, CommittedRow
  <2>2. CASE ~r.fresh
    BY <2>2, <1>3, CommittedRow
  <2> QED BY <2>1, <2>2
<1> HIDE DEF new, row, r
<1>7. StateOf(new) = StateForType[a.type]
  BY <1>1, <1>5, <1>6, LastAdded DEF AnyRow
<1> QED
  BY <1>2, <1>3, <1>7 DEF new, row, r

-----------------------------------------------------------------------------
(* The steps of the one request                                             *)

LEMMA DayStep ==
    ASSUME OneAtATime, IInv, DayInv, DayUses, NEW h \in Handlers, NEW r, Becomes(h, r),
           rows'[0] = rows[0], \A d \in Days : \A s \in rows'[d].sessions : s.ts <= clock',
           Knows(r, rows'[r.day], clock'), ~Corrected => Published(r, redis', rows'[Today])
    PROVE  DayInv'
<1>1. Handlers = {h}
  BY DEF OneAtATime
<1>2. req'[h] = r
  BY Types DEF Becomes
<1>3. Corrected' = Corrected /\ Uses' = Uses
  BY DEF Corrected, Uses
<1> QED
  BY <1>1, <1>2, <1>3 DEF DayInv, DayUses

\* The table stands, and Redis too unless the request says why.
LEMMA DayHandlerStep ==
    ASSUME OneAtATime, IInv, DayInv, DayUses, NEW h \in Handlers, NEW r \in HandlerState,
           Becomes(h, r), rows' = rows, clock' \in Nat, clock <= clock',
           Knows(r, rows[r.day], clock'),
           \/ ~Corrected => Published(r, redis', rows[Today])
           \/ redis' = redis /\ req[h].pc # "cached" /\ r.pc # "cached"
    PROVE  DayInv'
<1>1. ASSUME NEW d \in Days, NEW s \in rows'[d].sessions PROVE s.ts <= clock'
  <2>1. s \in rows[d].sessions /\ s.ts <= clock
    BY DEF DayInv
  <2>2. s.ts \in Nat
    BY <2>1, Types DEF AnyRow, Row, NoRow, Session
  <2> QED
    BY <2>1, <2>2, Types
<1>2. ~Corrected => Published(r, redis', rows'[Today])
  BY DEF DayInv, Published
<1>3. Knows(r, rows'[r.day], clock')
  OBVIOUS
<1>4. rows'[0] = rows[0]
  OBVIOUS
<1> QED
  BY <1>1, <1>2, <1>3, <1>4, DayStep

LEMMA DoneKnows ==
    ASSUME NEW outcome \in Outcomes, NEW row, NEW now PROVE Knows(Done(outcome), row, now)
  BY DEF Done, Knows, Outcomes, Busy, InTransaction

LEMMA DayFinishStep ==
    ASSUME OneAtATime, IInv, DayInv, DayUses, NEW h \in Handlers, NEW outcome \in Outcomes,
           Finish(h, outcome), rows' = rows, redis' = redis, req[h].pc # "cached",
           clock' \in Nat, clock <= clock'
    PROVE  DayInv'
<1> DEFINE r == Done(outcome)
<1>1. r \in HandlerState /\ r.pc # "cached" /\ Knows(r, rows[r.day], clock') /\ Becomes(h, r)
  BY DoneType, DoneKnows DEF Done, Outcomes, Finish
<1> HIDE DEF r
<1> QED
  BY <1>1, DayHandlerStep

\* A request that has just read the row.
LEMMA DayLoadStep ==
    ASSUME OneAtATime, IInv, DayInv, DayUses, NEW h \in Handlers,
           NEW kind \in AllKinds, NEW day \in Days,
           NEW add \in SUBSET Session, NEW status \in Statuses,
           Load(h, kind, day, add, status), req[h].pc # "cached",
           kind \in TapKinds => day = Today /\ Permitted(StateOf(rows[day]), kind),
           kind = "LEAVE" => rows[day] = NoRow /\ status = "ON_LEAVE" /\ add = {},
           kind = "START" => status = "PRESENT",
           \A s \in add : s.ts <= clock,
           rows' = rows, redis' = redis, clock' = clock
    PROVE  DayInv'
<1> DEFINE r == [Done("loaded") EXCEPT !.kind = kind, !.day = day,
                                       !.seen = rows[day], !.add = add,
                                       !.status = status]
<1>1. Done("loaded") \in HandlerState /\ rows[day] \in Row \cup {NoRow}
  BY DoneType, Types DEF Busy, AnyRow
<1>2. r \in HandlerState
  BY <1>1, ZenonT(60) DEF HandlerState
<1>3. /\ r.kind = kind /\ r.day = day /\ r.seen = rows[day] /\ r.add = add
      /\ r.status = status /\ r.pc = Done("loaded").pc
  BY <1>1, ZenonT(60) DEF HandlerState
<1>4. r.pc = "loaded"
  BY <1>3 DEF Done
<1>5. Becomes(h, r)
  BY DEF Load
<1> HIDE DEF r
<1>6. Knows(r, rows[r.day], clock)
  BY <1>3, <1>4 DEF Knows, InTransaction
<1> QED
  BY <1>2, <1>4, <1>5, <1>6, Types, DayHandlerStep

LEMMA DayReadStep ==
    ASSUME OneAtATime, IInv, DayInv, DayUses, NEW h \in Handlers, ReadState(h)
    PROVE  DayInv'
<1> DEFINE r == Done("stale")
<1>1. r.pc = "stale" /\ r.seen = NoRow /\ r.day = Today /\ r.kind = "READ" /\ r.add = {}
  BY DEF Done
<1>2. r \in HandlerState /\ Becomes(h, r) /\ req[h].pc # "cached"
  BY DoneType DEF Busy, ReadState, Ready, Outcomes
<1> HIDE DEF r
<1>3. Knows(r, rows[r.day], clock)
  BY <1>1 DEF Knows, InTransaction, TapKinds, SessionTypes, ReadState, StaleKey
<1> QED
  BY <1>1, <1>2, <1>3, Types, DayHandlerStep DEF ReadState

LEMMA DayBeginTapStep ==
    ASSUME OneAtATime, IInv, DayInv, DayUses, NEW h \in Handlers,
           NEW t \in SessionTypes, BeginTap(h, t)
    PROVE  DayInv'
<1>1. rows' = rows /\ redis' = redis /\ clock' = clock /\ req[h].pc # "cached"
  BY DEF BeginTap, Ready, Outcomes
<1>2. CASE StaleKey
  <2> DEFINE r == [Done("stale") EXCEPT !.kind = t]
  <2>1. Done("stale") \in HandlerState
    BY DoneType DEF Busy
  <2>2. r \in HandlerState
    BY <2>1, ZenonT(60) DEF HandlerState, AllKinds
  <2>3. /\ r.pc = Done("stale").pc /\ r.seen = Done("stale").seen
        /\ r.status = Done("stale").status /\ r.day = Done("stale").day
        /\ r.add = Done("stale").add /\ r.kind = t
    BY <2>1, ZenonT(60) DEF HandlerState
  <2>4. Becomes(h, r)
    BY <1>2 DEF BeginTap
  <2> HIDE DEF r
  <2>5. /\ r.pc = "stale" /\ r.seen = NoRow /\ r.status = "PRESENT" /\ r.add = {}
        /\ r.day = Today /\ rows[r.day] = NoRow
    BY <1>2, <2>3 DEF Done, StaleKey
  <2>6. Knows(r, rows[r.day], clock)
    BY <2>3, <2>5 DEF Knows, InTransaction
  <2> QED
    BY <1>1, <2>2, <2>4, <2>5, <2>6, Types, DayHandlerStep
<1>3. CASE ~StaleKey /\ Accepted(t, rows[Today])
  <2>1. Permitted(StateOf(rows[Today]), t)
    BY <1>3 DEF Accepted, Permitted, SessionTypes
  <2>2. Load(h, t, Today, {}, "PRESENT")
    BY <1>3 DEF BeginTap
  <2> QED
    BY <1>1, <2>1, <2>2, DaysAssumption, DayLoadStep DEF AllKinds, Statuses, SessionTypes
<1>4. CASE ~StaleKey /\ ~Accepted(t, rows[Today])
  BY <1>1, <1>4, Types, DayFinishStep DEF BeginTap, Outcomes
<1> QED
  BY <1>2, <1>3, <1>4

LEMMA DayDeleteStaleKeyStep ==
    ASSUME OneAtATime, IInv, DayInv, DayUses, NEW h \in Handlers, DeleteStaleKey(h)
    PROVE  DayInv'
<1>1. rows' = rows /\ redis' = NoKey /\ clock' = clock /\ req[h].pc = "stale"
  BY DEF DeleteStaleKey
<1>2. ASSUME NEW r \in HandlerState, Becomes(h, r), Knows(r, rows[r.day], clock), r.pc # "cached"
      PROVE  DayInv'
  <2>1. Published(r, redis', rows[Today])
    BY <1>1, <1>2 DEF Published, NoKey
  <2> QED
    BY <1>1, <1>2, <2>1, Types, DayHandlerStep
<1>3. CASE Finish(h, "idle") \/ Finish(h, "conflict")
  <2>1. ASSUME NEW outcome \in Outcomes, Finish(h, outcome) PROVE DayInv'
    <3> DEFINE r == Done(outcome)
    <3>1. r \in HandlerState /\ r.pc # "cached" /\ Knows(r, rows[r.day], clock) /\ Becomes(h, r)
      BY <2>1, DoneType, DoneKnows DEF Done, Outcomes, Finish
    <3> HIDE DEF r
    <3> QED
      BY <3>1, <1>2
  <2> QED
    BY <1>3, <2>1 DEF Outcomes
<1>4. CASE /\ req[h].kind # "READ" /\ Accepted(req[h].kind, NoRow)
           /\ Becomes(h, [req[h] EXCEPT !.pc = "loaded"])
  <2> DEFINE r == [req[h] EXCEPT !.pc = "loaded"]
  <2>1. req[h] \in HandlerState
    BY Types
  <2>2. r \in HandlerState
    BY <2>1, ZenonT(60) DEF HandlerState, Busy
  <2>3. /\ r.pc = "loaded" /\ r.seen = req[h].seen /\ r.kind = req[h].kind /\ r.add = req[h].add
        /\ r.day = req[h].day /\ r.status = req[h].status
    BY <2>1, ZenonT(60) DEF HandlerState
  <2>4. Becomes(h, r)
    BY <1>4
  <2>5. req[h].kind \in SessionTypes /\ req[h].seen = NoRow /\ Knows(req[h], rows[req[h].day], clock)
    BY <1>1, <1>4 DEF IInv, Believes, DayInv
  <2>6. Permitted(StateOf(req[h].seen), req[h].kind)
    BY <1>4, <2>5 DEF Accepted, Permitted, SessionTypes
  <2> HIDE DEF r
  <2>7. Knows(r, rows[r.day], clock)
    BY <1>1, <2>3, <2>5, <2>6 DEF Knows, InTransaction, Busy, SessionTypes, TapKinds
  <2> QED
    BY <1>2, <2>2, <2>3, <2>4, <2>7
<1> QED
  BY <1>3, <1>4 DEF DeleteStaleKey

LEMMA DayFlushStartStep ==
    ASSUME OneAtATime, IInv, DayInv, DayUses, NEW h \in Handlers, FlushStart(h)
    PROVE  DayInv'
<1>1. /\ rows' = rows /\ redis' = redis /\ req[h].pc = "loaded" /\ req[h].kind = "START"
      /\ clock' = clock + 1 /\ clock' \in Nat /\ clock <= clock'
  BY Types DEF FlushStart, At
<1>2. CASE rows[req[h].day] # NoRow
  BY <1>1, <1>2, DayFinishStep DEF FlushStart, Outcomes
<1>3. CASE rows[req[h].day] = NoRow
  <2> DEFINE a == [type |-> "START", ts |-> clock + 1]
             r == [req[h] EXCEPT !.pc = "flushed", !.fresh = TRUE,
                                 !.id = lastId + 1, !.label = "STARTED",
                                 !.add = {a}]
  <2>1. req[h] \in HandlerState
    BY Types
  <2>2. {a} \in SUBSET Session /\ lastId + 1 \in Nat /\ a.type = "START" /\ a.ts = clock'
    BY <1>1, Types DEF Session, SessionTypes
  <2>3. Becomes(h, r)
    BY <1>3 DEF FlushStart
  <2> HIDE DEF a
  <2>4. r \in HandlerState
    BY <2>1, <2>2, ZenonT(60) DEF HandlerState, Busy, MachineStates
  <2>5. /\ r.pc = "flushed" /\ r.add = {a} /\ r.label = "STARTED" /\ r.status = req[h].status
        /\ r.day = req[h].day /\ r.seen = req[h].seen /\ r.kind = req[h].kind
    BY <2>1, ZenonT(60) DEF HandlerState
  <2> HIDE DEF r
  <2>6. Knows(req[h], rows[req[h].day], clock)
    BY DEF DayInv
  <2>7. r.seen = NoRow /\ r.status = "PRESENT"
    BY <1>1, <1>3, <2>5, <2>6 DEF Knows
  <2>8. \E b \in r.add : /\ r.add = {b} /\ b.type = Inserts(r.kind)
                         /\ \A s \in r.seen.sessions : s.ts < b.ts
    BY <1>1, <2>2, <2>5, <2>7 DEF NoRow, Inserts
  <2>9. r.label = StateForType[Inserts(r.kind)]
    BY <1>1, <2>5 DEF Inserts, StateForType
  <2>10. \A s \in r.add : s.ts <= clock'
    BY <1>1, <2>2, <2>5
  <2>11. Knows(r, rows[r.day], clock')
    BY <1>1, <2>5, <2>6, <2>7, <2>8, <2>9, <2>10 DEF Knows, Busy, TapKinds, SessionTypes
  <2> QED
    BY <1>1, <2>3, <2>4, <2>5, <2>11, DayHandlerStep
<1> QED
  BY <1>2, <1>3

\* A tap, the checkout and a correction insert into the row that was loaded.
LEMMA DayInsertStep ==
    ASSUME OneAtATime, IInv, DayInv, DayUses, NEW h \in Handlers,
           req[h].pc = "loaded", req[h].kind \in NeedsRow \ {"REVOKE", "OVERRIDE"},
           NEW new \in SUBSET Session, NEW label \in MachineStates, NEW recompute \in BOOLEAN,
           InsertSession(h, new, label, recompute), rows' = rows, redis' = redis,
           clock' \in Nat, clock <= clock', \A s \in new : s.ts <= clock',
           req[h].kind \in {"END", "AUTO", "MANUAL"} => recompute,
           req[h].kind \in TapKinds =>
               /\ label = StateForType[Inserts(req[h].kind)]
               /\ \E a \in new : /\ new = {a} /\ a.type = Inserts(req[h].kind)
                                 /\ \A s \in rows[req[h].day].sessions : s.ts < a.ts
    PROVE  DayInv'
<1>1. CASE rows[req[h].day].id # req[h].seen.id
  <2>1. Finish(h, "error")
    BY <1>1 DEF InsertSession
  <2> QED
    BY <2>1, DayFinishStep DEF Outcomes
<1>2. CASE rows[req[h].day].id = req[h].seen.id
  <2> DEFINE total == IF recompute THEN rows[req[h].day].sessions \cup new
                                   ELSE req[h].seen.total
             r == [req[h] EXCEPT !.pc = "flushed", !.add = new,
                                 !.id = req[h].seen.id, !.label = label,
                                 !.total = total]
             row == rows[req[h].day]
  <2>1. req[h] \in HandlerState /\ row \in AnyRow /\ req[h].seen \in AnyRow
    BY Types DEF HandlerState, AnyRow
  <2>2. total \in SUBSET Session /\ req[h].seen.id \in Nat
    BY <2>1 DEF AnyRow, Row, NoRow
  <2>3. Becomes(h, r)
    BY <1>2 DEF InsertSession
  <2>4. ~req[h].fresh /\ Knows(req[h], row, clock)
    BY DEF IInv, Believes, DayInv
  <2>5. req[h].seen = row
    BY <2>4 DEF Knows
  <2>6. req[h].kind \in {"END", "AUTO", "MANUAL"} => total = req[h].seen.sessions \cup new
    BY <2>5
  <2> HIDE DEF total
  <2>7. r \in HandlerState
    BY <2>1, <2>2, ZenonT(60) DEF HandlerState, Busy
  <2>8. /\ r.pc = "flushed" /\ r.fresh = req[h].fresh /\ r.add = new /\ r.label = label
        /\ r.kind = req[h].kind /\ r.day = req[h].day /\ r.seen = req[h].seen
        /\ r.status = req[h].status /\ r.total = total
    BY <2>1, ZenonT(60) DEF HandlerState
  <2> HIDE DEF r
  <2>9. Knows(r, row, clock')
    <3>1. r.kind \notin {"LEAVE"}
      BY <2>8 DEF NeedsRow, SessionTypes
    <3>2. r.kind \in {"END", "AUTO", "MANUAL"} => ~r.fresh /\ r.total = r.seen.sessions \cup r.add
      BY <2>4, <2>6, <2>8
    <3>3. r.kind \in TapKinds =>
            /\ r.day = Today /\ Permitted(StateOf(r.seen), r.kind)
            /\ r.label = StateForType[Inserts(r.kind)] /\ ~r.fresh
            /\ \E a \in r.add : /\ r.add = {a} /\ a.type = Inserts(r.kind)
                                /\ \A s \in r.seen.sessions : s.ts < a.ts
      BY <2>4, <2>5, <2>8 DEF Knows, Busy
    <3> QED
      BY <2>5, <2>8, <3>1, <3>2, <3>3 DEF Knows
  <2> QED
    BY <2>3, <2>7, <2>8, <2>9, DayHandlerStep
<1> QED
  BY <1>1, <1>2

LEMMA DayFlushStep ==
    ASSUME OneAtATime, IInv, DayInv, DayUses, NEW h \in Handlers,
           FlushTap(h) \/ FlushAuto(h)
    PROVE  DayInv'
<1> DEFINE a == [type |-> Inserts(req[h].kind), ts |-> clock + 1]
           recompute == req[h].kind \in {"END", "AUTO"}
<1>1. /\ req[h].pc = "loaded" /\ req[h].kind \in (SessionTypes \ {"START"}) \cup {"AUTO"}
      /\ rows' = rows /\ redis' = redis /\ clock' = clock + 1
  BY DEF FlushTap, FlushAuto, At
<1>2. InsertSession(h, {a}, StateForType[Inserts(req[h].kind)], recompute)
  <2>1. CASE FlushTap(h)
    <3>1. req[h].kind \in SessionTypes
      BY <2>1 DEF FlushTap, At
    <3>2. Inserts(req[h].kind) = req[h].kind /\ recompute = (req[h].kind = "END")
      BY <3>1 DEF Inserts, SessionTypes
    <3> QED
      BY <2>1, <3>2 DEF FlushTap
  <2>2. CASE FlushAuto(h)
    <3>1. Inserts(req[h].kind) = "END" /\ recompute = TRUE /\ StateForType["END"] = "ENDED"
      BY <2>2 DEF FlushAuto, At, Inserts, StateForType
    <3> QED
      BY <2>2, <3>1 DEF FlushAuto
  <2> QED
    BY <2>1, <2>2
<1>3. req[h].kind \in TapKinds /\ req[h].kind \in NeedsRow \ {"REVOKE", "OVERRIDE"}
  BY <1>1 DEF TapKinds, NeedsRow, SessionTypes
<1>4. Inserts(req[h].kind) \in SessionTypes /\ StateForType[Inserts(req[h].kind)] \in MachineStates
  BY <1>1 DEF Inserts, SessionTypes, StateForType, MachineStates
<1>5. a.type = Inserts(req[h].kind) /\ a.ts = clock + 1 /\ {a} \in SUBSET Session
  BY <1>4, Types DEF Session
<1>6. \A s \in rows[req[h].day].sessions : s.ts < a.ts
  <2>1. req[h].day \in Days /\ rows[req[h].day] \in AnyRow
    BY Types DEF HandlerState
  <2>2. ASSUME NEW s \in rows[req[h].day].sessions PROVE s.ts < a.ts
    <3>1. s.ts \in Nat /\ s.ts <= clock
      BY <2>1, <2>2 DEF DayInv, AnyRow, Row, NoRow, Session
    <3> QED
      BY <1>5, <3>1, Types
  <2> QED
    BY <2>2
<1> HIDE DEF a
<1>7. \E b \in {a} : /\ {a} = {b} /\ b.type = Inserts(req[h].kind)
                     /\ \A s \in rows[req[h].day].sessions : s.ts < b.ts
  BY <1>5, <1>6
<1>8. clock' \in Nat /\ clock <= clock' /\ \A s \in {a} : s.ts <= clock'
  BY <1>1, <1>5, Types
<1>9. (req[h].kind \in {"END", "AUTO", "MANUAL"} => recompute) /\ recompute \in BOOLEAN
  BY <1>1 DEF SessionTypes
<1> HIDE DEF recompute
<1> QED
  BY <1>1, <1>2, <1>3, <1>4, <1>5, <1>7, <1>8, <1>9, DayInsertStep

LEMMA DayFlushManualStep ==
    ASSUME OneAtATime, IInv, DayInv, DayUses, NEW h \in Handlers, FlushManual(h)
    PROVE  DayInv'
<1> DEFINE r == req[h]
           label == StateOf([rows[r.day] EXCEPT !.sessions = @ \cup r.add, !.status = r.seen.status])
<1>1. /\ r.pc = "loaded" /\ r.kind = "MANUAL" /\ InsertSession(h, r.add, label, TRUE)
      /\ UNCHANGED <<rows, redis, clock>>
  BY DEF FlushManual, At
<1>2. r \in HandlerState /\ r.day \in Days /\ rows[r.day] \in AnyRow /\ r.seen \in AnyRow
      /\ r.add \in SUBSET Session
  BY Types DEF HandlerState, AnyRow
<1>3. Knows(r, rows[r.day], clock) /\ Believes(r, rows[r.day], lastId)
  BY DEF DayInv, IInv
<1>4. rows[r.day] \in Row /\ r.seen = rows[r.day]
  BY <1>1, <1>2, <1>3 DEF Knows, Believes, NeedsRow, AnyRow, NoRow
<1>5. label \in MachineStates
  <2> DEFINE new == [rows[r.day] EXCEPT !.sessions = @ \cup r.add, !.status = r.seen.status]
  <2>1. r.seen.status \in Statuses /\ rows[r.day].sessions \cup r.add \in SUBSET Session
    BY <1>2, <1>4 DEF Row
  <2>2. new \in Row
    BY <1>4, <2>1 DEF Row
  <2> HIDE DEF new
  <2>3. StateOf(new) \in MachineStates
    BY <2>2, StateOfType DEF AnyRow
  <2> QED
    BY <2>3 DEF new
<1>6. \A s \in r.add : s.ts <= clock'
  BY <1>1, <1>3 DEF Knows
<1>7. r.kind \in NeedsRow \ {"REVOKE", "OVERRIDE"} /\ r.kind \notin TapKinds
  BY <1>1 DEF NeedsRow, TapKinds, SessionTypes
<1> DEFINE recompute == TRUE
<1>8. InsertSession(h, r.add, label, recompute) /\ recompute \in BOOLEAN /\ recompute
  BY <1>1
<1>9. clock' \in Nat /\ clock <= clock'
  BY <1>1, Types
<1> HIDE DEF label, r, recompute
<1> QED
  BY <1>1, <1>2, <1>5, <1>6, <1>7, <1>8, <1>9, DayInsertStep DEF r

LEMMA DayWriteRedisStep ==
    ASSUME OneAtATime, IInv, DayInv, DayUses, NEW h \in Handlers, WriteRedis(h)
    PROVE  DayInv'
<1> DEFINE r == [req[h] EXCEPT !.pc = "cached"]
<1>1. /\ req[h].pc = "flushed" /\ req[h].kind \in TapKinds \cup {"MANUAL"}
      /\ redis' = [state |-> req[h].label, id |-> req[h].id] /\ Becomes(h, r)
      /\ rows' = rows /\ clock' = clock
  BY DEF WriteRedis, At, TapKinds
<1>2. req[h] \in HandlerState
  BY Types
<1>3. r \in HandlerState
  BY <1>2, ZenonT(60) DEF HandlerState, Busy
<1>4. /\ r.pc = "cached" /\ r.fresh = req[h].fresh /\ r.add = req[h].add /\ r.label = req[h].label
      /\ r.kind = req[h].kind /\ r.day = req[h].day /\ r.seen = req[h].seen
      /\ r.status = req[h].status /\ r.total = req[h].total /\ r.id = req[h].id
  BY <1>2, ZenonT(60) DEF HandlerState
<1> HIDE DEF r
<1>5. Knows(req[h], rows[req[h].day], clock) /\ req[h].kind \in Uses \cup {"READ"}
  BY DEF DayInv
<1>6. Knows(r, rows[r.day], clock)
  BY <1>1, <1>4, <1>5 DEF Knows, InTransaction, Busy
<1>7. ~Corrected => Published(r, redis', rows[Today])
  <2> SUFFICES ASSUME ~Corrected PROVE Published(r, redis', rows[Today])
    OBVIOUS
  <2>1. req[h].kind \in TapKinds
    BY <1>1, <1>5 DEF Uses, SelfServiceKinds, SessionTypes
  <2>2. Permitted(StateOf(req[h].seen), req[h].kind) /\ req[h].label = StateForType[Inserts(req[h].kind)]
    BY <1>1, <1>5, <2>1 DEF Knows, InTransaction
  <2>3. req[h].label # "ON_LEAVE"
    BY <2>1, <2>2, TapStates
  <2> QED
    BY <1>1, <1>4, <2>3 DEF Published
<1> QED
  BY <1>1, <1>3, <1>6, <1>7, Types, DayHandlerStep

\* What the request writes to the table.
LEMMA DayRowStep ==
    ASSUME OneAtATime, IInv, DayInv, DayUses, NEW h \in Handlers, NEW row \in AnyRow,
           NEW r \in HandlerState, Becomes(h, r),
           rows' = [rows EXCEPT ![req[h].day] = row], clock' = clock,
           \A s \in row.sessions : s.ts <= clock, Knows(r, rows'[r.day], clock),
           ~Corrected => Published(r, redis', rows'[Today])
    PROVE  DayInv'
<1>1. req[h].day \in Days /\ req[h].day # 0
  BY Types DEF HandlerState, DayInv
<1>2. rows'[0] = rows[0]
  BY <1>1, Types DEF OneAtATime
<1>3. \A d \in Days : \A s \in rows'[d].sessions : s.ts <= clock
  BY <1>1, Types DEF DayInv
<1> QED
  BY <1>2, <1>3, DayStep

\* With no row there is no key: what a request publishes has an id.
LEMMA NoRowNoKey ==
    ASSUME DayInv, ~Corrected, NEW h \in Handlers, req[h].pc # "cached", rows[Today] = NoRow
    PROVE  redis = NoKey
  BY NoRowIsNull DEF DayInv, Published, NoRow, NoKey

LEMMA DayCommitStep ==
    ASSUME OneAtATime, IInv, DayInv, DayUses, NEW h \in Handlers, Commit(h)
    PROVE  DayInv'
<1> DEFINE r == Done("idle")
           day == req[h].day
<1>1. /\ rows' = [rows EXCEPT ![day] = Committed(h)] /\ redis' = redis /\ clock' = clock
      /\ InTransaction(req[h])
      /\ \/ req[h].pc = "cached" /\ req[h].kind \in TapKinds \cup {"MANUAL"}
         \/ req[h].pc = "flushed" /\ req[h].kind = "LEAVE"
  BY DEF Commit, At, InTransaction, TapKinds
<1>2. r \in HandlerState /\ Becomes(h, r) /\ r.pc = "idle"
  BY DoneType DEF Outcomes, Commit, Finish, Done
<1>3. Knows(req[h], rows[day], clock) /\ req[h].kind \in Uses \cup {"READ"} /\ day \in Days
  BY Types DEF DayInv, HandlerState
<1>4. /\ Committed(h) \in AnyRow /\ Committed(h).id = req[h].id
      /\ Committed(h).sessions \subseteq rows[day].sessions \cup req[h].add
  BY <1>1, CommittedRow DEF AnyRow
<1>5. \A s \in Committed(h).sessions : s.ts <= clock
  BY <1>3, <1>4 DEF DayInv, Knows
<1>6. Knows(r, rows'[r.day], clock)
  BY DoneKnows DEF Outcomes
<1> HIDE DEF r
<1>7. ASSUME ~Corrected PROVE Published(r, redis', rows'[Today])
  <2>1. Published(req[h], redis, rows[Today]) /\ Today \in Days
    BY <1>7, DaysAssumption DEF DayInv
  <2>2. CASE req[h].kind \in TapKinds
    <3>1. req[h].pc = "cached" /\ day = Today
      BY <1>1, <1>3, <2>2 DEF Knows, TapKinds, SessionTypes, Busy
    <3>2. redis = [state |-> req[h].label, id |-> req[h].id] /\ redis.state # "ON_LEAVE"
      BY <2>1, <3>1 DEF Published
    <3>3. StateOf(Committed(h)) = req[h].label
      BY <1>1, <1>3, <2>2, CommittedState
    <3>4. rows'[Today] = Committed(h)
      BY <1>1, <2>1, <3>1, Types
    <3> QED
      BY <1>1, <1>2, <1>4, <3>2, <3>3, <3>4 DEF Published
  <2>3. CASE req[h].kind = "LEAVE"
    <3>1. req[h].pc = "flushed" /\ rows[day] = NoRow
      BY <1>1, <1>3, <2>3 DEF TapKinds, SessionTypes, Knows
    <3>2. CASE day = Today
      <4>1. redis = NoKey
        BY <1>7, <3>1, <3>2, NoRowNoKey
      <4> QED
        BY <1>1, <1>2, <2>1, <4>1 DEF Published
    <3>3. CASE day # Today
      BY <1>1, <1>2, <1>3, <2>1, <3>1, <3>3, Types DEF Published
    <3> QED
      BY <3>2, <3>3
  <2>4. CASE req[h].kind = "MANUAL"
    BY <1>3, <1>7, <2>4 DEF Uses, SelfServiceKinds, SessionTypes
  <2> QED
    BY <1>1, <2>2, <2>3, <2>4
<1>8. ~Corrected => Published(r, redis', rows'[Today])
  BY <1>7
<1> DEFINE row == Committed(h)
<1> HIDE DEF row
<1>9. /\ rows' = [rows EXCEPT ![req[h].day] = row] /\ row \in AnyRow
      /\ \A s \in row.sessions : s.ts <= clock
  BY <1>1, <1>4, <1>5 DEF row
<1> QED
  BY <1>1, <1>2, <1>6, <1>8, <1>9, DayRowStep

LEMMA DayRevokeStep ==
    ASSUME OneAtATime, IInv, DayInv, DayUses, NEW h \in Handlers, CommitRevoke(h)
    PROVE  DayInv'
<1> DEFINE r == Done("idle")
           day == req[h].day
<1>1. req[h].pc = "loaded" /\ req[h].kind = "REVOKE" /\ redis' = redis /\ clock' = clock
  BY DEF CommitRevoke, At
<1>2. r \in HandlerState /\ Becomes(h, r) /\ r.pc = "idle"
  BY DoneType DEF Outcomes, CommitRevoke, Finish, Done
<1>3. Knows(req[h], rows[day], clock) /\ Believes(req[h], rows[day], lastId) /\ day \in Days
  BY Types DEF DayInv, HandlerState, IInv
<1>4. req[h].seen = rows[day] /\ StateOf(rows[day]) = "ON_LEAVE"
  BY <1>1, <1>3 DEF Knows, Believes, NeedsRow, StateOf
<1>5. rows' = [rows EXCEPT ![day] = NoRow]
  BY <1>4 DEF CommitRevoke
<1>6. Knows(r, rows'[r.day], clock)
  BY DoneKnows DEF Outcomes
<1> HIDE DEF r
<1>7. ASSUME ~Corrected PROVE Published(r, redis', rows'[Today])
  <2>1. Published(req[h], redis, rows[Today]) /\ Today \in Days
    BY <1>7, DaysAssumption DEF DayInv
  <2>2. CASE day = Today
    <3>1. redis = NoKey
      BY <1>1, <1>4, <2>1, <2>2 DEF Published
    <3> QED
      BY <1>1, <1>2, <2>1, <3>1 DEF Published
  <2>3. CASE day # Today
    BY <1>1, <1>2, <1>3, <1>5, <2>1, <2>3, Types DEF Published
  <2> QED
    BY <2>2, <2>3
<1>8. ~Corrected => Published(r, redis', rows'[Today])
  BY <1>7
<1>9. NoRow \in AnyRow /\ \A s \in NoRow.sessions : s.ts <= clock
  BY DEF AnyRow, NoRow
<1> QED
  BY <1>1, <1>2, <1>5, <1>6, <1>8, <1>9, DayRowStep

LEMMA DayOverrideStep ==
    ASSUME OneAtATime, IInv, DayInv, DayUses, NEW h \in Handlers, CommitOverride(h)
    PROVE  DayInv'
<1> DEFINE r == req[h]
<1>1. /\ r.pc = "loaded" /\ r.kind = "OVERRIDE" /\ redis' = redis /\ clock' = clock
      /\ r \in HandlerState /\ r.day \in Days /\ r.day # 0 /\ r.status \in Statuses
      /\ clock \in Nat /\ clock <= clock
  BY Types DEF CommitOverride, At, HandlerState, DayInv
<1>2. Corrected
  BY <1>1 DEF DayInv, Uses, SelfServiceKinds, SessionTypes
<1>3. CASE rows[r.day].id # r.seen.id
  BY <1>1, <1>3, DayFinishStep DEF CommitOverride, Outcomes
<1>4. CASE rows[r.day].id = r.seen.id
  <2>1. rows' = [rows EXCEPT ![r.day].status = Emit(r.status, r.seen.status, @)] /\ Finish(h, "idle")
    BY <1>4 DEF CommitOverride
  <2>2. rows'[0] = rows[0]
    BY <1>1, <2>1, Types DEF OneAtATime
  <2>3. \A d \in Days : rows'[d].sessions = rows[d].sessions
    BY <2>1, Types DEF AnyRow, Row, NoRow
  <2>4. \A d \in Days : \A s \in rows'[d].sessions : s.ts <= clock'
    BY <1>1, <2>3 DEF DayInv
  <2> DEFINE new == Done("idle")
  <2>5. Becomes(h, new) /\ Knows(new, rows'[new.day], clock')
    BY <2>1, DoneKnows DEF Finish, Outcomes
  <2> HIDE DEF new
  <2> QED
    BY <1>2, <2>2, <2>4, <2>5, DayStep
<1> QED
  BY <1>3, <1>4

LEMMA DayFlushLeaveStep ==
    ASSUME OneAtATime, IInv, DayInv, DayUses, NEW h \in Handlers, FlushLeave(h)
    PROVE  DayInv'
<1>1. /\ rows' = rows /\ redis' = redis /\ req[h].pc = "loaded" /\ req[h].kind = "LEAVE"
      /\ clock' = clock /\ clock' \in Nat /\ clock <= clock' /\ lastId + 1 \in Nat
  BY Types DEF FlushLeave, At
<1>2. CASE rows[req[h].day] # NoRow
  BY <1>1, <1>2, DayFinishStep DEF FlushLeave, Outcomes
<1>3. CASE rows[req[h].day] = NoRow
  <2> DEFINE r == [req[h] EXCEPT !.pc = "flushed", !.fresh = TRUE, !.id = lastId + 1]
  <2>1. req[h] \in HandlerState
    BY Types
  <2>2. Becomes(h, r)
    BY <1>3 DEF FlushLeave
  <2>3. r \in HandlerState
    BY <1>1, <2>1, ZenonT(60) DEF HandlerState, Busy
  <2>4. /\ r.pc = "flushed" /\ r.add = req[h].add /\ r.status = req[h].status
        /\ r.day = req[h].day /\ r.seen = req[h].seen /\ r.kind = req[h].kind
    BY <2>1, ZenonT(60) DEF HandlerState
  <2> HIDE DEF r
  <2>5. Knows(req[h], rows[req[h].day], clock)
    BY DEF DayInv
  <2>6. Knows(r, rows[r.day], clock')
    BY <1>1, <2>4, <2>5 DEF Knows, TapKinds, SessionTypes
  <2> QED
    BY <1>1, <2>2, <2>3, <2>4, <2>6, DayHandlerStep
<1> QED
  BY <1>2, <1>3

\* A replay runs on days that are corrected, where Redis is left aside.
LEMMA DayReplayStep ==
    ASSUME OneAtATime, IInv, DayInv, DayUses, NEW h \in Handlers,
           FlushReplay(h) \/ CommitReplay(h) \/ PublishReplay(h)
    PROVE  DayInv'
<1>1. /\ req[h].kind = "REPLAY" /\ clock' = clock /\ clock \in Nat /\ clock <= clock
      /\ req[h] \in HandlerState /\ Knows(req[h], rows[req[h].day], clock)
  BY Types DEF FlushReplay, CommitReplay, PublishReplay, At, DayInv
<1>2. Corrected
  BY <1>1 DEF DayInv, Uses, SelfServiceKinds, SessionTypes
<1>3. ASSUME NEW r \in HandlerState, Becomes(h, r), rows' = rows, r.kind = "REPLAY", r.add = req[h].add,
             r.pc \in {"flushed", "committed"}, r.day = req[h].day,
             r.pc = "flushed" => r.seen = rows[r.day]
      PROVE  DayInv'
  <2>1. Knows(r, rows[r.day], clock)
    BY <1>1, <1>3 DEF Knows, TapKinds, SessionTypes
  <2> QED
    BY <1>1, <1>2, <1>3, <2>1, DayHandlerStep
<1>4. ASSUME NEW outcome \in Outcomes, Finish(h, outcome), rows' = rows PROVE DayInv'
  <2> DEFINE r == Done(outcome)
  <2>1. r \in HandlerState /\ Becomes(h, r) /\ Knows(r, rows[r.day], clock)
    BY <1>4, DoneType, DoneKnows DEF Finish
  <2> HIDE DEF r
  <2> QED
    BY <1>1, <1>2, <1>4, <2>1, DayHandlerStep
<1>5. CASE FlushReplay(h)
  <2>1. req[h].pc = "loaded" /\ rows' = rows /\ req[h].seen = rows[req[h].day]
    BY <1>1, <1>5 DEF FlushReplay, At, Knows
  <2>2. \/ Finish(h, "error")
        \/ Becomes(h, [req[h] EXCEPT !.pc = "flushed", !.fresh = TRUE, !.id = lastId + 1])
        \/ Becomes(h, [req[h] EXCEPT !.pc = "flushed", !.id = req[h].seen.id,
                                     !.total = req[h].seen.sessions])
    BY <1>5 DEF FlushReplay
  <2>3. CASE Finish(h, "error")
    BY <1>4, <2>1, <2>3 DEF Outcomes
  <2>4. CASE Becomes(h, [req[h] EXCEPT !.pc = "flushed", !.fresh = TRUE, !.id = lastId + 1])
    <3> DEFINE r == [req[h] EXCEPT !.pc = "flushed", !.fresh = TRUE, !.id = lastId + 1]
    <3>1. lastId + 1 \in Nat
      BY Types
    <3>2. r \in HandlerState
      BY <1>1, <3>1, ZenonT(60) DEF HandlerState, Busy
    <3>3. r.pc = "flushed" /\ r.kind = req[h].kind /\ r.add = req[h].add /\ r.day = req[h].day
          /\ r.seen = req[h].seen
      BY <1>1, ZenonT(60) DEF HandlerState
    <3>4. Becomes(h, r)
      BY <2>4
    <3> HIDE DEF r
    <3> QED
      BY <1>1, <1>3, <2>1, <3>2, <3>3, <3>4
  <2>5. CASE Becomes(h, [req[h] EXCEPT !.pc = "flushed", !.id = req[h].seen.id,
                                       !.total = req[h].seen.sessions])
    <3> DEFINE r == [req[h] EXCEPT !.pc = "flushed", !.id = req[h].seen.id,
                                   !.total = req[h].seen.sessions]
    <3>1. req[h].seen.id \in Nat /\ req[h].seen.sessions \in SUBSET Session
      BY <1>1 DEF HandlerState, Row, NoRow
    <3>2. r \in HandlerState
      BY <1>1, <3>1, ZenonT(60) DEF HandlerState, Busy
    <3>3. r.pc = "flushed" /\ r.kind = req[h].kind /\ r.add = req[h].add /\ r.day = req[h].day
          /\ r.seen = req[h].seen
      BY <1>1, ZenonT(60) DEF HandlerState
    <3>4. Becomes(h, r)
      BY <2>5
    <3> HIDE DEF r
    <3> QED
      BY <1>1, <1>3, <2>1, <3>2, <3>3, <3>4
  <2> QED
    BY <2>2, <2>3, <2>4, <2>5
<1>6. CASE CommitReplay(h)
  <2> DEFINE r == [req[h] EXCEPT !.pc = "committed"]
             row == Committed(h)
  <2>1. rows' = [rows EXCEPT ![req[h].day] = row] /\ Becomes(h, r) /\ InTransaction(req[h])
    BY <1>6 DEF CommitReplay, At, InTransaction
  <2>2. row \in AnyRow /\ row.sessions \subseteq rows[req[h].day].sessions \cup req[h].add
    BY <2>1, CommittedRow DEF AnyRow
  <2>3. \A s \in row.sessions : s.ts <= clock
    BY <1>1, <2>2 DEF DayInv, Knows, HandlerState
  <2>4. r \in HandlerState
    BY <1>1, ZenonT(60) DEF HandlerState, Busy
  <2>5. r.pc = "committed" /\ r.kind = req[h].kind /\ r.add = req[h].add
    BY <1>1, ZenonT(60) DEF HandlerState
  <2> HIDE DEF r, row
  <2>6. Knows(r, rows'[r.day], clock)
    BY <1>1, <2>5 DEF Knows, TapKinds, SessionTypes, InTransaction
  <2> QED
    BY <1>1, <1>2, <2>1, <2>2, <2>3, <2>4, <2>6, DayRowStep
<1>7. CASE PublishReplay(h)
  BY <1>4, <1>7 DEF PublishReplay, Outcomes
<1> QED
  BY <1>5, <1>6, <1>7

LEMMA DayBeginStep ==
    ASSUME OneAtATime, IInv, DayInv, DayUses, NEW h \in Handlers,
           \/ \E d \in Days : BeginLeave(h, d) \/ BeginRevoke(h, d)
           \/ BeginAuto(h)
           \/ \E d \in Days, st \in Statuses : BeginOverride(h, d, st)
           \/ \E d \in Days, s \in Session : s.ts <= clock /\ (BeginManual(h, d, s) \/ BeginReplay(h, d, s))
    PROVE  DayInv'
<1>1. /\ rows' = rows /\ redis' = redis /\ clock' = clock /\ req[h].pc # "cached"
      /\ clock \in Nat /\ clock <= clock
  <2>1. rows' = rows /\ redis' = redis /\ clock' = clock /\ req[h].pc # "cached"
    <3>1. CASE \E d \in Days : BeginLeave(h, d) \/ BeginRevoke(h, d)
      BY <3>1 DEF BeginLeave, BeginRevoke, Ready, Outcomes
    <3>2. CASE BeginAuto(h)
      BY <3>2 DEF BeginAuto, Ready, Outcomes
    <3>3. CASE \E d \in Days, st \in Statuses : BeginOverride(h, d, st)
      BY <3>3 DEF BeginOverride, Ready, Outcomes
    <3>4. CASE \E d \in Days, s \in Session : BeginManual(h, d, s) \/ BeginReplay(h, d, s)
      BY <3>4 DEF BeginManual, BeginReplay, Ready, Outcomes
    <3> QED
      BY <3>1, <3>2, <3>3, <3>4
  <2> QED
    BY <2>1, Types
<1>2. ASSUME NEW outcome \in Outcomes, Finish(h, outcome) PROVE DayInv'
  BY <1>1, <1>2, DayFinishStep
<1>3. ASSUME NEW kind \in AllKinds, NEW d \in Days, NEW add \in SUBSET Session,
             NEW status \in Statuses, Load(h, kind, d, add, status),
             kind \in TapKinds => d = Today /\ Permitted(StateOf(rows[d]), kind),
             kind = "LEAVE" => rows[d] = NoRow /\ status = "ON_LEAVE" /\ add = {},
             kind # "START", \A s \in add : s.ts <= clock
      PROVE  DayInv'
  BY <1>1, <1>3, DayLoadStep
<1>4. ASSUME NEW d \in Days, BeginLeave(h, d) PROVE DayInv'
  BY <1>2, <1>3, <1>4 DEF BeginLeave, Outcomes, AllKinds, Statuses, TapKinds, SessionTypes
<1>5. ASSUME NEW d \in Days, BeginRevoke(h, d) PROVE DayInv'
  BY <1>2, <1>3, <1>5 DEF BeginRevoke, Outcomes, AllKinds, Statuses, TapKinds, SessionTypes
<1>6. ASSUME BeginAuto(h) PROVE DayInv'
  BY <1>2, <1>3, <1>6, DaysAssumption DEF BeginAuto, Outcomes, AllKinds, Statuses, Permitted
<1>7. ASSUME NEW d \in Days, NEW st \in Statuses, BeginOverride(h, d, st) PROVE DayInv'
  BY <1>2, <1>3, <1>7 DEF BeginOverride, Outcomes, AllKinds, TapKinds, SessionTypes
<1>8. ASSUME NEW d \in Days, NEW s \in Session, s.ts <= clock, BeginManual(h, d, s) PROVE DayInv'
  BY <1>2, <1>3, <1>8 DEF BeginManual, Outcomes, AllKinds, Statuses, TapKinds, SessionTypes
<1>9. ASSUME NEW d \in Days, NEW s \in Session, s.ts <= clock, BeginReplay(h, d, s) PROVE DayInv'
  BY <1>2, <1>3, <1>9 DEF BeginReplay, Outcomes, AllKinds, Statuses, TapKinds, SessionTypes
<1> QED
  BY <1>4, <1>5, <1>6, <1>7, <1>8, <1>9

\* Time passes, or the job looks for open days.
LEMMA DayQuietStep ==
    ASSUME IInv, DayInv, rows' = rows, req' = req, redis' = redis, clock' \in Nat, clock <= clock'
    PROVE  DayInv'
<1>1. ASSUME NEW d \in Days, NEW s \in rows[d].sessions PROVE s.ts <= clock'
  <2>1. s.ts \in Nat /\ s.ts <= clock
    BY Types DEF AnyRow, Row, NoRow, Session, DayInv
  <2> QED
    BY <2>1, Types
<1>2. ASSUME NEW h \in Handlers PROVE Knows(req[h], rows[req[h].day], clock')
  <2>1. Knows(req[h], rows[req[h].day], clock)
    BY DEF DayInv
  <2>2. \A s \in req[h].add : s.ts \in Nat
    BY Types DEF HandlerState, Session
  <2>3. \A s \in req[h].add : s.ts <= clock'
    BY <2>1, <2>2, Types DEF Knows
  <2> QED
    BY <2>1, <2>3 DEF Knows
<1>3. Corrected' = Corrected /\ Uses' = Uses
  BY DEF Corrected, Uses
<1> QED
  BY <1>1, <1>2, <1>3 DEF DayInv, Published

LEMMA InitDayInv == ASSUME OneAtATime, DayInit PROVE DayInv
<1>1. PICK open \in SUBSET {d \in Days : d < Today} :
          rows = [d \in Days |-> IF d \in open THEN ForgottenDay(d) ELSE NoRow]
  BY DEF DayInit, Init
<1>2. Today \in Nat /\ Today \in Days /\ Today \notin open /\ clock = 0 /\ redis = NoKey
  BY DaysAssumption DEF DayInit, Init
<1>3. \A h \in Handlers : req[h] = Done("idle")
  BY DEF DayInit, Init
<1>4. \A d \in Days : \A s \in rows[d].sessions : s.ts <= clock
  <2>1. ASSUME NEW d \in Days, NEW s \in rows[d].sessions PROVE s.ts <= clock
    <3>1. s \in {[type |-> "START", ts |-> 0]}
      BY <1>1, <2>1 DEF ForgottenDay, NoRow
    <3> QED
      BY <1>2, <3>1
  <2> QED
    BY <2>1
<1>5. ASSUME NEW h \in Handlers
      PROVE  /\ Knows(req[h], rows[req[h].day], clock)
             /\ req[h].kind \in Uses \cup {"READ"} /\ req[h].day # 0
             /\ Published(req[h], redis, rows[Today])
  <2>1. req[h].kind = "READ" /\ req[h].day = Today /\ req[h].pc = "idle"
    BY <1>3 DEF Done
  <2>2. Knows(req[h], rows[req[h].day], clock)
    BY <1>3, DoneKnows DEF Outcomes
  <2> QED
    BY <1>2, <2>1, <2>2 DEF OneAtATime, Published, NoKey
<1> QED
  BY <1>4, <1>5 DEF DayInv

LEMMA NextDayInv ==
    ASSUME OneAtATime, IInv, DayInv, [Next]_vars, [DayUses]_vars
    PROVE  DayInv'
<1>1. CASE UNCHANGED vars
  BY <1>1, Types, DayQuietStep DEF vars
<1>2. CASE Tick
  BY <1>2, Types, DayQuietStep DEF Tick
<1>3. CASE JobSelect
  BY <1>3, Types, DayQuietStep DEF JobSelect
<1>4. ASSUME DayUses, NEW h \in Handlers, SelfService(h) PROVE DayInv'
  <2>1. ~Fail(h)
    BY DEF OneAtATime, Fail
  <2> QED
    BY <1>4, <2>1, DayReadStep, DayBeginTapStep, DayDeleteStaleKeyStep, DayFlushStartStep,
       DayFlushStep, DayWriteRedisStep, DayCommitStep, DayBeginStep,
       DayFlushLeaveStep, DayRevokeStep DEF SelfService
<1>5. ASSUME NEW t \in SessionTypes, NEW ts \in Corrections
      PROVE  [type |-> t, ts |-> ts] \in Session /\ [type |-> t, ts |-> ts].ts = ts
  BY CorrectionsAssumption DEF Session
<1>6. ASSUME DayUses, NEW h \in Handlers, Administration(h) PROVE DayInv'
  BY <1>5, <1>6, DayBeginStep, DayOverrideStep, DayFlushManualStep DEF Administration
<1>7. ASSUME DayUses, NEW h \in Handlers, Replay(h) PROVE DayInv'
  BY <1>5, <1>7, DayBeginStep, DayReplayStep DEF Replay
<1> QED
  BY <1>1, <1>2, <1>3, <1>4, <1>6, <1>7 DEF Next

-----------------------------------------------------------------------------
(* What becomes of a row                                                    *)

LEMMA RowsWritten ==
    ASSUME Next
    PROVE  \/ rows' = rows
           \/ \E h \in Handlers : \/ Commit(h) \/ CommitRevoke(h)
                                  \/ CommitOverride(h) \/ CommitReplay(h)
<1>1. rows' = rows \/ \E h \in Handlers : SelfService(h) \/ Administration(h) \/ Replay(h)
  BY DEF Next, Tick, JobSelect
<1>2. ASSUME NEW h \in Handlers, SelfService(h) PROVE rows' = rows \/ Commit(h) \/ CommitRevoke(h)
  BY <1>2 DEF SelfService, ReadState, BeginTap, DeleteStaleKey, FlushStart, FlushTap, WriteRedis,
              Fail, BeginLeave, BeginRevoke, FlushLeave, BeginAuto, FlushAuto
<1>3. ASSUME NEW h \in Handlers, Administration(h) PROVE rows' = rows \/ CommitOverride(h)
  BY <1>3 DEF Administration, BeginOverride, BeginManual, FlushManual
<1>4. ASSUME NEW h \in Handlers, Replay(h) PROVE rows' = rows \/ CommitReplay(h)
  BY <1>4 DEF Replay, BeginReplay, FlushReplay, PublishReplay
<1> QED
  BY <1>1, <1>2, <1>3, <1>4

\* The row that a leave commits.
LEMMA LeaveCommits ==
    ASSUME IInv, DayInv, NEW h \in Handlers, Commit(h), req[h].kind = "LEAVE"
    PROVE  /\ rows[req[h].day] = NoRow /\ StateOf(Committed(h)) = "ON_LEAVE"
           /\ Committed(h).sessions = {}
<1>1. InTransaction(req[h]) /\ req[h].pc = "flushed"
  BY DEF Commit, At, InTransaction, SessionTypes
<1>2. /\ rows[req[h].day] = NoRow /\ req[h].status = "ON_LEAVE" /\ req[h].add = {}
      /\ req[h].seen = NoRow
  BY <1>1 DEF DayInv, Knows
<1>3. req[h].fresh /\ req[h].id # 0
  BY <1>1, <1>2, Types DEF IInv, Holds, NoRow, HandlerState
<1> QED
  BY <1>1, <1>2, <1>3, CommittedRow DEF StateOf

\* A revoked row was one of a leave, and takes no session with it.
LEMMA RevokeCommits ==
    ASSUME IInv, DayInv, NEW h \in Handlers, CommitRevoke(h)
    PROVE  StateOf(rows[req[h].day]) = "ON_LEAVE" /\ rows' = [rows EXCEPT ![req[h].day] = NoRow]
<1>1. /\ Knows(req[h], rows[req[h].day], clock) /\ Believes(req[h], rows[req[h].day], lastId)
      /\ req[h].pc = "loaded" /\ req[h].kind = "REVOKE"
  BY DEF DayInv, IInv, CommitRevoke, At
<1>2. req[h].seen = rows[req[h].day]
  BY <1>1 DEF Knows
<1> QED
  BY <1>1, <1>2 DEF Believes, NeedsRow, StateOf, CommitRevoke

\* The state of today's row moves as the machine does.
LEMMA StateMoves ==
    ASSUME OneAtATime, IInv, DayInv, DayUses, Next, ~Corrected,
           StateOf(rows'[Today]) # StateOf(rows[Today])
    PROVE  LET old == StateOf(rows[Today])
               new == StateOf(rows'[Today])
           IN  \/ \E t \in SessionTypes : old \in AllowedFrom[t] /\ new = StateForType[t]
               \/ old = "NULL" /\ new = "ON_LEAVE"
               \/ old = "ON_LEAVE" /\ new = "NULL"
               \/ old \in OpenStates /\ new = "ENDED"
<1>1. PICK h \in Handlers : Commit(h) \/ CommitRevoke(h) \/ CommitOverride(h) \/ CommitReplay(h)
  BY RowsWritten
<1>2. /\ req[h].kind \in SelfServiceKinds \cup {"READ"} /\ req[h].day \in Days /\ Today \in Days
      /\ Knows(req[h], rows[req[h].day], clock)
  BY Types, DaysAssumption DEF DayInv, Uses, HandlerState
<1>3. CASE CommitRevoke(h)
  <2>1. rows'[Today] = NoRow /\ StateOf(rows[Today]) = "ON_LEAVE"
    BY <1>2, <1>3, RevokeCommits, Types
  <2> QED
    BY <2>1, NoRowIsNull
<1>4. CASE Commit(h)
  <2>1. /\ InTransaction(req[h]) /\ rows' = [rows EXCEPT ![req[h].day] = Committed(h)]
        /\ req[h].kind \in TapKinds \/ req[h].kind = "LEAVE"
    BY <1>2, <1>4 DEF Commit, At, InTransaction, TapKinds, SelfServiceKinds, SessionTypes
  <2>2. req[h].day = Today /\ rows'[Today] = Committed(h)
    BY <1>2, <2>1, Types
  <2>3. CASE req[h].kind = "LEAVE"
    BY <1>4, <2>2, <2>3, LeaveCommits, NoRowIsNull
  <2>4. CASE req[h].kind \in TapKinds
    <3>1. /\ StateOf(rows'[Today]) = StateForType[Inserts(req[h].kind)]
          /\ Permitted(StateOf(rows[Today]), req[h].kind)
      BY <1>2, <2>1, <2>2, <2>4, CommittedState
    <3>2. CASE req[h].kind = "AUTO"
      BY <3>1, <3>2 DEF Inserts, Permitted, StateForType
    <3>3. CASE req[h].kind \in SessionTypes
      BY <3>1, <3>3 DEF Inserts, Permitted, SessionTypes
    <3> QED
      BY <2>4, <3>2, <3>3 DEF TapKinds
  <2> QED
    BY <2>1, <2>3, <2>4
<1>5. ~CommitOverride(h) /\ ~CommitReplay(h)
  BY <1>2 DEF CommitOverride, CommitReplay, At, SelfServiceKinds, SessionTypes
<1> QED
  BY <1>1, <1>3, <1>4, <1>5

LEMMA DayInvariance ==
    ASSUME OneAtATime
    PROVE  DaySpec /\ [][DayUses]_vars => [](IInv /\ DayInv)
<1>1. DayInit => IInv /\ DayInv
  BY InitIInv, InitDayInv DEF DayInit
<1>2. IInv /\ DayInv /\ [Next]_vars /\ [DayUses]_vars => (IInv /\ DayInv)'
  BY NextIInv, NextDayInv
<1> QED
  BY <1>1, <1>2, PTL DEF DaySpec

\* When requests come one at a time, today's row goes through the documented
\* state machine, whatever dates, hours and clock readings there are.
THEOREM DayMachineIsImplemented ==
    ASSUME OneAtATime
    PROVE  DaySpec /\ [][DayUses]_vars => ImplementsDayMachine
<1> DEFINE state == IF Corrected THEN "NULL" ELSE StateOf(rows[Today])
<1>1. DayInit => Machine!Init
  <2> SUFFICES ASSUME DayInit PROVE Machine!Init
    OBVIOUS
  <2>1. rows[Today] = NoRow
    BY DaysAssumption DEF DayInit, Init
  <2> QED
    BY <2>1, NoRowIsNull DEF Machine!Init
<1>2. IInv /\ DayInv /\ [Next]_vars /\ [DayUses]_vars => [Machine!Next]_state
  <2> SUFFICES ASSUME IInv, DayInv, [Next]_vars, [DayUses]_vars, state' # state
               PROVE  Machine!Next
    OBVIOUS
  <2>1. rows' # rows
    BY DEF Corrected
  <2>2. Next /\ DayUses
    BY <2>1 DEF vars
  <2>3. Corrected' = Corrected
    <3>1. PICK h \in Handlers : Commit(h) \/ CommitRevoke(h) \/ CommitOverride(h) \/ CommitReplay(h)
      BY <2>1, <2>2, RowsWritten
    <3>2. req[h].day # 0
      BY DEF DayInv
    <3>3. rows'[0] = rows[0]
      BY <3>1, <3>2, Types DEF OneAtATime, Commit, CommitRevoke, CommitOverride, CommitReplay
    <3> QED
      BY <3>3 DEF Corrected
  <2>4. ~Corrected /\ StateOf(rows'[Today]) # StateOf(rows[Today])
    BY <2>3
  <2>5. state = StateOf(rows[Today]) /\ state' = StateOf(rows'[Today])
    BY <2>3, <2>4
  <2> QED
    BY <2>2, <2>4, <2>5, StateMoves
       DEF Machine!Next, Machine!Tap, Machine!MarkLeave, Machine!RevokeLeave, Machine!AutoCheckout,
           Machine!AllowedFrom, Machine!StateForType, Machine!OpenStates, Machine!SessionTypes,
           AllowedFrom, StateForType, OpenStates, SessionTypes
<1> QED
  BY <1>1, <1>2, DayInvariance, PTL DEF DaySpec, ImplementsDayMachine, Machine!Spec

\* When requests come one at a time and none is under way, the key in Redis
\* has the state of today's row.
THEOREM RedisIsRight ==
    ASSUME OneAtATime
    PROVE  DaySpec /\ [][DayUses]_vars => []RedisTellsTheDay
<1>1. DayInv => RedisTellsTheDay
  BY DEF DayInv, RedisTellsTheDay, RedisTellsToday, AllReady, Published, OneAtATime, Outcomes
<1> QED
  BY <1>1, DayInvariance, PTL

\* When requests come one at a time, what ends a day or adds to an ended day
\* stores the total of the whole log; a replay is left out.
THEOREM EndedTotalsAreFresh ==
    ASSUME OneAtATime
    PROVE  DaySpec /\ [][DayUses]_vars => EndedTotalIsFresh
<1> DEFINE Fresh(d) ==
        /\ StateOf(rows'[d]) = "ENDED" /\ rows'[d].sessions # rows[d].sessions
        /\ \A h \in Handlers : ~CommitReplay(h)
        => rows'[d].total = rows'[d].sessions
<1>1. IInv /\ DayInv /\ [Next]_vars /\ [DayUses]_vars => [\A d \in Days : Fresh(d)]_vars
  <2> SUFFICES ASSUME IInv, DayInv, [Next]_vars, [DayUses]_vars, NEW d \in Days,
                      StateOf(rows'[d]) = "ENDED", rows'[d].sessions # rows[d].sessions,
                      \A h \in Handlers : ~CommitReplay(h)
               PROVE  rows'[d].total = rows'[d].sessions
    OBVIOUS
  <2>1. rows' # rows
    OBVIOUS
  <2>2. Next
    BY <2>1 DEF vars
  <2>3. PICK h \in Handlers : Commit(h) \/ CommitRevoke(h) \/ CommitOverride(h)
    BY <2>1, <2>2, RowsWritten
  <2>4. req[h] \in HandlerState /\ req[h].day \in Days /\ Knows(req[h], rows[req[h].day], clock)
    BY Types DEF HandlerState, DayInv
  <2>5. ~CommitOverride(h)
    BY <2>4, Types DEF CommitOverride, AnyRow, Row, NoRow
  <2>6. ~CommitRevoke(h)
    BY <2>4, RevokeCommits, NoRowIsNull, Types
  <2>7. Commit(h)
    BY <2>3, <2>5, <2>6
  <2>8. req[h].kind # "LEAVE" /\ d = req[h].day /\ rows'[d] = Committed(h) /\ InTransaction(req[h])
    <3>1. rows' = [rows EXCEPT ![req[h].day] = Committed(h)] /\ InTransaction(req[h])
      BY <2>7 DEF Commit, At, InTransaction
    <3>2. d = req[h].day /\ rows'[d] = Committed(h)
      BY <2>4, <3>1, Types
    <3>3. req[h].kind # "LEAVE"
      BY <2>7, <3>2, LeaveCommits
    <3> QED
      BY <3>1, <3>2, <3>3
  <2>9. req[h].kind \in {"END", "AUTO", "MANUAL"}
    <3>1. CASE req[h].kind \in TapKinds
      <4>1. StateForType[Inserts(req[h].kind)] = "ENDED"
        BY <2>4, <2>8, <3>1, CommittedState
      <4> QED
        BY <3>1, <4>1 DEF TapKinds, Inserts, StateForType, SessionTypes
    <3> QED
      BY <2>7, <2>8, <3>1 DEF Commit, At, TapKinds
  <2>10. ~req[h].fresh /\ req[h].total = rows[d].sessions \cup req[h].add /\ req[h].seen = rows[d]
    BY <2>4, <2>8, <2>9 DEF Knows, InTransaction
  <2>11. Committed(h).sessions = req[h].total
    BY <2>8, <2>10, CommittedRow
  <2>12. Committed(h).total = req[h].total
    <3>1. rows[d] \in Row
      <4>1. Holds(req[h], rows[d], lastId) /\ rows[d] \in AnyRow
        BY <2>8, Types DEF IInv
      <4> QED
        BY <2>8, <2>10, <4>1 DEF Holds, AnyRow, NoRow
    <3>2. Committed(h).total = Emit(req[h].total, req[h].seen.total, rows[d].total)
      BY <2>8, <2>10, <3>1 DEF Committed, Row
    <3> QED
      BY <2>10, <3>2 DEF Emit
  <2> QED
    BY <2>8, <2>11, <2>12
<1> HIDE DEF Fresh
<1>2. DaySpec /\ [][DayUses]_vars => [][\A d \in Days : Fresh(d)]_vars
  BY <1>1, DayInvariance, PTL DEF DaySpec
<1> QED
  BY <1>2 DEF EndedTotalIsFresh, Fresh
===============================================================================
