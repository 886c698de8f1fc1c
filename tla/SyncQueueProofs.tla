---------------------------- MODULE SyncQueueProofs ----------------------------
(***************************************************************************)
(* Proofs about SyncQueue, for any number of rows, retries and failures: a *)
(* row leaves the queue only when the server has it, and nothing that      *)
(* refers to a customer reaches the server before that customer.           *)
(*                                                                         *)
(* The argument: a pass carries the payloads of rows that were saved; an   *)
(* answer "ok" means the server has the whole batch; a customer is mapped  *)
(* only by such an answer, and a row is posted only when its customer is   *)
(* mapped. For the counts: what waits has an attempt left (Fit), and what  *)
(* a pass has read is pending unless the user deleted it (Awake).          *)
(***************************************************************************)
EXTENDS SyncQueue, TLAPS

Statuses == {"absent", "pending", "failed", "attention", "landed", "discarded"}
PayloadState == [version : Nat, verdict : {"none", "ok", "invalid", "refused"}]
RowState == [status : Statuses, retries : Nat, payload : PayloadState]
Stages == {"idle", "start"} \cup (Tables \ {"meet"})
PassState ==
    [stage : Stages, rest : SUBSET Rows,
     payload : [Rows -> PayloadState],
     phase : {"ready", "sent", "ok", "invalid", "refused"}]

\* A row that was ever saved has a payload, and one that landed is on the
\* server.
RowInv ==
    /\ row \in [Rows -> RowState] /\ saved \in [Rows -> Nat]
    /\ \A r \in Rows :
          /\ row[r].status # "absent" => row[r].payload.version # 0
          /\ row[r].status = "landed" => server[r] # 0

\* What a pass carries was saved; what it has posted had its customer mapped;
\* what was answered "ok" is on the server.
PassInv ==
    /\ pass \in PassState
    /\ \A r \in pass.rest : pass.payload[r].version # 0
    /\ \A r \in Batch :
          /\ pass.phase # "ready" => ~Unresolved(r)
          /\ pass.phase = "ok" => server[r] # 0

ServerInv ==
    /\ server \in [Rows -> Nat] /\ mapped \subseteq Rows
    /\ \A r \in mapped : server[r] # 0
    /\ CustomerComesFirst

IInv == RowInv /\ PassInv /\ ServerInv

\* Nothing disappears from the server or from the mappings.
Monotonic ==
    /\ \A r \in Rows : server[r] # 0 => server'[r] # 0
    /\ mapped \subseteq mapped'

-----------------------------------------------------------------------------
(* Rows                                                                     *)

LEMMA StatusType ==
    ASSUME NEW x \in RowState, NEW status \in Statuses
    PROVE  /\ WithStatus(x, status) \in RowState
           /\ WithStatus(x, status).status = status
           /\ WithStatus(x, status).payload = x.payload
  BY ZenonT(60) DEF WithStatus, RowState

LEMMA FailedType ==
    ASSUME NEW x \in RowState
    PROVE  /\ Failed(x) \in RowState
           /\ Failed(x).status \in {"attention", "failed"}
           /\ Failed(x).payload = x.payload
<1> DEFINE count == x.retries + 1
           status == IF count >= MaxRetries THEN "attention" ELSE "failed"
           new == [x EXCEPT !.retries = count, !.status = status]
<1>1. count \in Nat /\ status \in {"attention", "failed"} /\ status \in Statuses
  BY DEF RowState, Statuses
<1>2. Failed(x) = new
  BY Zenon DEF Failed
<1> HIDE DEF count, status
<1>3. new \in RowState /\ new.status = status /\ new.payload = x.payload
  BY <1>1, ZenonT(60) DEF RowState
<1> HIDE DEF new
<1> QED
  BY <1>1, <1>2, <1>3

\* Rows that keep their payloads, and land only if the server has them.
LEMMA RowsKept ==
    ASSUME RowInv, Monotonic, UNCHANGED saved, row' \in [Rows -> RowState],
           \A r \in Rows :
               \/ row'[r] = row[r]
               \/ /\ row[r].status # "absent" /\ row'[r].payload = row[r].payload
                  /\ row'[r].status = "landed" => server'[r] # 0
    PROVE  RowInv'
  BY DEF RowInv, Monotonic

LEMMA MarkKept ==
    ASSUME RowInv, Monotonic, UNCHANGED saved, NEW s, NEW status \in Statuses,
           MarkRows(s, status),
           status = "landed" => \A r \in s : server'[r] # 0
    PROVE  RowInv'
<1>1. \A r \in Rows : /\ WithStatus(row[r], status) \in RowState
                      /\ WithStatus(row[r], status).status = status
                      /\ WithStatus(row[r], status).payload = row[r].payload
  BY StatusType DEF RowInv
<1>2. row' = [r \in Rows |-> IF r \in s /\ Queued(r) THEN WithStatus(row[r], status)
                                                    ELSE row[r]]
  BY DEF MarkRows, Change
<1>3. row' \in [Rows -> RowState]
  BY <1>1, <1>2 DEF RowInv
<1>4. \A r \in Rows :
         \/ row'[r] = row[r]
         \/ /\ row[r].status # "absent" /\ row'[r].payload = row[r].payload
            /\ row'[r].status = "landed" => server'[r] # 0
  BY <1>1, <1>2 DEF Queued
<1> QED
  BY <1>3, <1>4, RowsKept

LEMMA FailKept ==
    ASSUME RowInv, Monotonic, UNCHANGED saved, NEW s, FailRows(s) PROVE RowInv'
<1>1. \A r \in Rows : /\ Failed(row[r]) \in RowState
                      /\ Failed(row[r]).status \in {"attention", "failed"}
                      /\ Failed(row[r]).payload = row[r].payload
  BY FailedType DEF RowInv
<1>2. row' = [r \in Rows |-> IF r \in s /\ Queued(r) THEN Failed(row[r]) ELSE row[r]]
  BY DEF FailRows, Change
<1>3. row' \in [Rows -> RowState]
  BY <1>1, <1>2 DEF RowInv
<1>4. \A r \in Rows :
         \/ row'[r] = row[r]
         \/ /\ row[r].status # "absent" /\ row'[r].payload = row[r].payload
            /\ row'[r].status = "landed" => server'[r] # 0
  BY <1>1, <1>2 DEF Queued
<1> QED
  BY <1>3, <1>4, RowsKept

LEMMA RowsUnchanged ==
    ASSUME RowInv, Monotonic, UNCHANGED <<row, saved>> PROVE RowInv'
  BY DEF RowInv, Monotonic

-----------------------------------------------------------------------------
(* The pass                                                                 *)

LEMMA BatchIsRest == Batch \subseteq pass.rest /\ Batch' \subseteq pass'.rest
  BY DEF Batch, Single, Oldest

LEMMA SameBatch == ASSUME pass'.rest = pass.rest PROVE Batch' = Batch
  BY DEF Batch, Single, Oldest

LEMMA StillResolved ==
    ASSUME Monotonic, NEW r, ~Unresolved(r) PROVE ~Unresolved(r)'
  BY DEF Monotonic, Unresolved

LEMMA AsleepType ==
    Asleep \in PassState /\ Asleep.rest = {} /\ Asleep.phase = "ready"
  BY DEF Asleep, Stages, PassState, PayloadState, NoPayload

LEMMA Monotone == UNCHANGED <<server, mapped>> => Monotonic
  BY DEF Monotonic

\* A pass that carries on with some of its rows, or with none.
LEMMA ReadyKept ==
    ASSUME NEW r \in PassState, pass' = r, r.phase = "ready",
           \A x \in r.rest : r.payload[x].version # 0
    PROVE  PassInv'
  BY DEF PassInv

LEMMA AsleepKept == ASSUME pass' = Asleep PROVE PassInv'
  BY AsleepType, ReadyKept

LEMMA ProceedKept == ASSUME PassInv, Proceed PROVE PassInv'
<1> DEFINE left == pass.rest \ Batch
           r == [pass EXCEPT !.rest = left, !.phase = "ready"]
<1>1. pass \in PassState /\ left \in SUBSET Rows /\ left \subseteq pass.rest
  BY DEF PassInv, PassState
<1>2. pass' = r
  BY DEF Proceed
<1> HIDE DEF left
<1>3. r \in PassState /\ r.phase = "ready" /\ r.rest = left /\ r.payload = pass.payload
  BY <1>1, ZenonT(60) DEF PassState
<1> HIDE DEF r
<1> QED
  BY <1>1, <1>2, <1>3, ReadyKept DEF PassInv

\* What is left of a batch of which some rows are noted is still a batch.
LEMMA NotedIsBatch ==
    ASSUME pass'.rest = pass.rest \ Noted
    PROVE  Noted \subseteq Batch /\ (Noted # Batch => Batch' \subseteq Batch)
<1>1. Noted \subseteq Batch
  BY DEF Noted, Oldest
<1>2. ASSUME Noted # Batch PROVE Batch' \subseteq Batch
  <2>1. Of({"meet"})
    BY <1>2 DEF Noted
  <2>2. CASE Single = {}
    <3>1. Batch = pass.rest /\ pass'.rest \subseteq pass.rest
      BY <2>2 DEF Batch
    <3> QED
      BY <3>1, BatchIsRest
  <2>3. CASE Single # {}
    <3>1. Batch \subseteq Single
      BY <2>3 DEF Batch, Oldest
    <3>2. Batch = {}
      BY <2>1, <3>1 DEF Of, Single
    <3> QED
      BY <1>1, <1>2, <3>2
  <2> QED
    BY <2>2, <2>3
<1> QED
  BY <1>1, <1>2

\* A pass whose batch is noted, whole or in part.
LEMMA NotedKept ==
    ASSUME PassInv, Monotonic, pass.phase = "ok",
           pass' = [pass EXCEPT !.rest = @ \ Noted,
                                !.phase = IF Batch = Noted THEN "ready" ELSE @]
    PROVE  PassInv'
<1> DEFINE left == pass.rest \ Noted
           phase == IF Batch = Noted THEN "ready" ELSE pass.phase
           new == [pass EXCEPT !.rest = left, !.phase = phase]
<1>1. pass \in PassState /\ left \in SUBSET Rows /\ left \subseteq pass.rest
  BY DEF PassInv, PassState
<1>2. pass' = new
  OBVIOUS
<1>3. phase \in {"ready", "ok"} /\ (phase = "ok" => Noted # Batch)
  OBVIOUS
<1> HIDE DEF left, phase
<1>4. new \in PassState /\ new.phase = phase /\ new.rest = left /\ new.payload = pass.payload
  BY <1>1, <1>3, ZenonT(60) DEF PassState
<1> HIDE DEF new
<1>5. CASE phase = "ready"
  BY <1>1, <1>2, <1>4, <1>5, ReadyKept DEF PassInv
<1>6. CASE phase = "ok"
  <2>1. Batch' \subseteq Batch
    BY <1>2, <1>3, <1>4, <1>6, NotedIsBatch DEF left
  <2>2. Batch \subseteq Rows
    BY <1>1, BatchIsRest DEF PassState
  <2>3. \A r \in Batch : server'[r] # 0 /\ ~Unresolved(r)'
    BY <2>2, StillResolved DEF PassInv, Monotonic
  <2>4. pass'.rest = left /\ pass'.payload = pass.payload /\ pass' \in PassState
    BY <1>2, <1>4
  <2>5. \A r \in pass'.rest : pass'.payload[r].version # 0
    BY <1>1, <2>4 DEF PassInv
  <2> QED
    BY <2>1, <2>3, <2>4, <2>5 DEF PassInv
<1> QED
  BY <1>3, <1>5, <1>6

\* A pass whose batch is posted or answered.
LEMMA PhaseKept ==
    ASSUME PassInv, Monotonic, NEW phase \in {"sent", "ok", "invalid", "refused"},
           pass' = [pass EXCEPT !.phase = phase],
           \A r \in Batch : ~Unresolved(r),
           phase = "ok" => \A r \in Batch : server'[r] # 0
    PROVE  PassInv'
<1>1. pass \in PassState
  BY DEF PassInv
<1>2. /\ pass' \in PassState /\ pass'.phase = phase /\ pass'.rest = pass.rest
      /\ pass'.payload = pass.payload
  BY <1>1, ZenonT(60) DEF PassState
<1>3. Batch' = Batch
  BY <1>2, SameBatch
<1>4. \A r \in Batch : ~Unresolved(r)'
  BY StillResolved
<1> QED
  BY <1>2, <1>3, <1>4 DEF PassInv

LEMMA PassUnchanged == ASSUME PassInv, Monotonic, UNCHANGED pass PROVE PassInv'
<1>1. Batch' = Batch /\ Batch \subseteq Rows
  BY SameBatch, BatchIsRest DEF PassInv, PassState
<1>2. \A r \in Batch : ~Unresolved(r) => ~Unresolved(r)'
  BY StillResolved
<1> QED
  BY <1>1, <1>2 DEF PassInv, Monotonic

LEMMA ServerUnchanged == ASSUME ServerInv, UNCHANGED <<server, mapped>> PROVE ServerInv'
  BY DEF ServerInv, CustomerComesFirst

-----------------------------------------------------------------------------
(* The steps of a pass                                                      *)

\* A step that leaves the server and the mappings alone.
LEMMA Combine ==
    ASSUME IInv, UNCHANGED <<server, mapped>>, RowInv', PassInv' PROVE IInv'
  BY ServerUnchanged DEF IInv

LEMMA StartPassStep == ASSUME IInv, StartPass PROVE IInv'
<1> DEFINE back(r) == row[r].status = "failed" /\ Requeues(Table[r])
           status == "pending"
<1>1. Monotonic /\ UNCHANGED <<server, mapped, saved>> /\ RowInv
  BY Monotone DEF StartPass, IInv
<1>2. \A r \in Rows : /\ WithStatus(row[r], status) \in RowState
                      /\ WithStatus(row[r], status).status = status
                      /\ WithStatus(row[r], status).payload = row[r].payload
  BY StatusType DEF IInv, RowInv, Statuses
<1>3. row' = [r \in Rows |-> IF back(r) THEN WithStatus(row[r], status) ELSE row[r]]
  BY DEF StartPass
<1>4. row' \in [Rows -> RowState]
  BY <1>2, <1>3 DEF IInv, RowInv
<1>5. \A r \in Rows :
         \/ row'[r] = row[r]
         \/ /\ row[r].status # "absent" /\ row'[r].payload = row[r].payload
            /\ row'[r].status = "landed" => server'[r] # 0
  BY <1>2, <1>3
<1>6. RowInv'
  BY <1>1, <1>4, <1>5, RowsKept
<1> DEFINE started == [Asleep EXCEPT !.stage = "start"]
<1>7. "start" \in Stages
  BY DEF Stages
<1>8. started \in PassState /\ started.phase = "ready" /\ started.rest = {}
  BY <1>7, AsleepType, ZenonT(60) DEF PassState
<1>9. pass' = started
  BY DEF StartPass
<1> HIDE DEF started
<1>10. PassInv'
  BY <1>8, <1>9, ReadyKept
<1> QED
  BY <1>1, <1>6, <1>10, Combine

LEMMA ReadType ==
    ASSUME RowInv, NEW stage
    PROVE  /\ Read(stage) \subseteq Rows
           /\ \A r \in Read(stage) : row[r].status = "pending"
  BY DEF Read, Pending, Oldest

LEMMA NextStageStep == ASSUME IInv, NextStage PROVE IInv'
<1> DEFINE stage == IF pass.stage = "location" /\ Pending("location") # {}
                    THEN "location" ELSE Following[pass.stage]
           rows == Read(stage)
           payload == [r \in Rows |-> IF r \in rows THEN row[r].payload ELSE NoPayload]
           next == [Asleep EXCEPT !.stage = stage, !.rest = rows, !.payload = payload]
<1>1. Monotonic /\ UNCHANGED <<server, mapped, saved, row>> /\ RowInv
  BY Monotone DEF NextStage, IInv
<1>2. stage \in Stages
<2>1. pass.stage \in Stages \ {"idle"}
  BY DEF NextStage, IInv, PassInv, PassState
<2>2. Following[pass.stage] \in Stages
  BY <2>1 DEF Following, Stages, Tables
<2> QED
  BY <2>1, <2>2
<1>3. pass' = next
  BY DEF NextStage
<1> HIDE DEF stage
<1>4. rows \in SUBSET Rows /\ \A r \in rows : row[r].status = "pending"
  BY <1>1, ReadType
<1> HIDE DEF rows
<1>5. NoPayload \in PayloadState /\ \A r \in Rows : row[r].payload \in PayloadState
  BY <1>1 DEF NoPayload, PayloadState, RowInv, RowState
<1>6. payload \in [Rows -> PayloadState]
  BY <1>5
<1>7. \A r \in rows : payload[r].version # 0
  BY <1>1, <1>4 DEF RowInv
<1> HIDE DEF payload
<1>8. /\ next \in PassState /\ next.phase = "ready"
      /\ next.rest = rows /\ next.payload = payload
  BY <1>2, <1>4, <1>6, AsleepType, ZenonT(60) DEF PassState
<1> HIDE DEF next
<1>9. PassInv'
  BY <1>3, <1>7, <1>8, ReadyKept
<1> QED
  BY <1>1, <1>9, RowsUnchanged, Combine

LEMMA SkipStep == ASSUME IInv, Skip PROVE IInv'
<1>1. Monotonic /\ UNCHANGED <<server, mapped, saved, row>> /\ RowInv /\ PassInv
  BY Monotone DEF Skip, IInv
<1> QED
  BY <1>1, ProceedKept, RowsUnchanged, Combine DEF Skip

LEMMA PostStep == ASSUME IInv, Post PROVE IInv'
<1>1. Monotonic /\ UNCHANGED <<server, mapped, saved, row>> /\ RowInv /\ PassInv
  BY Monotone DEF Post, IInv
<1>2. pass' = [pass EXCEPT !.phase = "sent"] /\ \A r \in Batch : ~Unresolved(r)
  BY DEF Post
<1>3. PassInv'
  BY <1>1, <1>2, PhaseKept
<1> QED
  BY <1>1, <1>3, RowsUnchanged, Combine

\* The server answers "ok" to a batch it then has, and only a batch whose
\* customers it has is posted.
LEMMA ServeStep == ASSUME IInv, Serve PROVE IInv'
<1> DEFINE kept(r) == \/ r \notin Batch \/ Answer # "ok"
                      \/ Of(Deduplicated) /\ server[r] # 0
<1>1. RowInv /\ PassInv /\ ServerInv /\ UNCHANGED <<row, saved, mapped>>
  BY DEF IInv, Serve
<1>2. server' = [r \in Rows |-> IF kept(r) THEN server[r] ELSE pass.payload[r].version]
  BY DEF Serve
<1>3. Batch \subseteq Rows /\ \A r \in Batch : pass.payload[r].version # 0
  BY <1>1, BatchIsRest DEF PassInv, PassState
<1>4. \A r \in Rows : pass.payload[r].version \in Nat
  BY <1>1 DEF PassInv, PassState, PayloadState
<1>5. \A r \in Batch : ~Unresolved(r)
  BY <1>1 DEF PassInv, Serve
<1>6. \A r \in Rows : server[r] # 0 => server'[r] # 0
  BY <1>2, <1>3
<1>7. \A r \in Rows : server'[r] # 0 => server[r] # 0 \/ r \in Batch
  BY <1>2
<1>8. Answer = "ok" => \A r \in Batch : server'[r] # 0
  BY <1>2, <1>3
<1>9. server' \in [Rows -> Nat]
  BY <1>1, <1>2, <1>4 DEF ServerInv
<1>10. Answer \in {"invalid", "ok", "refused"}
  BY DEF Answer
<1> HIDE DEF kept
<1>11. Monotonic
  BY <1>1, <1>6 DEF Monotonic
<1>12. PassInv'
  BY <1>1, <1>5, <1>8, <1>10, <1>11, PhaseKept DEF Serve
<1>13. CustomerComesFirst'
<2> SUFFICES ASSUME NEW r \in Rows, server'[r] # 0, Customer[r] # 0
             PROVE  server'[Customer[r]] # 0
  BY DEF CustomerComesFirst
<2>1. Customer[r] \in Rows
  BY QueueAssumption
<2>2. CASE server[r] # 0
  BY <1>1, <1>6, <2>1, <2>2 DEF ServerInv, CustomerComesFirst
<2>3. CASE r \in Batch
  BY <1>1, <1>5, <1>6, <2>1, <2>3 DEF Unresolved, ServerInv
<2> QED
  BY <1>7, <2>2, <2>3
<1>14. ServerInv'
  BY <1>1, <1>6, <1>9, <1>13 DEF ServerInv
<1> QED
  BY <1>1, <1>11, <1>12, <1>14, RowsUnchanged DEF IInv

LEMMA LandStep == ASSUME IInv, Land PROVE IInv'
<1>1. RowInv /\ PassInv /\ ServerInv /\ UNCHANGED <<server, saved>>
  BY DEF IInv, Land
<1>2. Batch \subseteq Rows /\ Noted \subseteq Batch /\ \A r \in Batch : server[r] # 0
  BY <1>1, BatchIsRest DEF PassInv, PassState, Land, Noted, Oldest
<1>3. mapped \subseteq mapped' /\ mapped' \subseteq mapped \cup Batch
  BY <1>2 DEF Land
<1>4. Monotonic
  BY <1>1, <1>3 DEF Monotonic
<1>5. RowInv'
  BY <1>1, <1>2, <1>4, MarkKept DEF Land, Statuses
<1>6. PassInv'
  BY <1>1, <1>4, NotedKept DEF Land
<1>7. ServerInv'
  BY <1>1, <1>2, <1>3 DEF ServerInv, CustomerComesFirst
<1> QED
  BY <1>5, <1>6, <1>7 DEF IInv

LEMMA SetAsideStep == ASSUME IInv, SetAside PROVE IInv'
<1>1. Monotonic /\ UNCHANGED <<server, mapped, saved>> /\ RowInv /\ PassInv
  BY Monotone DEF SetAside, IInv
<1>2. UNCHANGED row \/ MarkRows(Batch, "failed") \/ MarkRows(Batch, "attention")
  BY DEF SetAside
<1>3. RowInv'
  BY <1>1, <1>2, RowsUnchanged, MarkKept DEF Statuses
<1>4. PassInv'
  BY <1>1, ProceedKept DEF SetAside
<1> QED
  BY <1>1, <1>3, <1>4, Combine

LEMMA AbortStep ==
    ASSUME IInv, Abort, UNCHANGED <<saved, mapped, server>> PROVE IInv'
<1>1. Monotonic /\ RowInv
  BY Monotone DEF IInv
<1>2. UNCHANGED row \/ FailRows(Batch)
  BY DEF Abort
<1>3. RowInv'
  BY <1>1, <1>2, RowsUnchanged, FailKept
<1>4. PassInv'
  BY AsleepKept DEF Abort
<1> QED
  BY <1>3, <1>4, Combine

LEMMA KillStep == ASSUME IInv, Kill PROVE IInv'
<1>1. Monotonic /\ RowInv /\ UNCHANGED <<server, mapped, saved, row>>
  BY Monotone DEF IInv, Kill
<1> QED
  BY <1>1, AsleepKept, RowsUnchanged, Combine DEF Kill

-----------------------------------------------------------------------------
(* The steps of the user                                                    *)

\* A row in its next state: one that was saved has a payload.
LEMMA OneRowKept ==
    ASSUME IInv, NEW r \in Rows, NEW x \in RowState, row' = [row EXCEPT ![r] = x],
           x.status # "landed", x.payload.version # 0,
           saved' \in [Rows -> Nat], UNCHANGED <<mapped, server, pass>>
    PROVE  IInv'
<1>1. RowInv'
  BY DEF IInv, RowInv
<1>2. PassInv'
  BY PassUnchanged, Monotone DEF IInv
<1> QED
  BY <1>1, <1>2, Combine

LEMMA SavedType ==
    ASSUME IInv, NEW r \in Rows, Saved(r), NEW v \in Verdicts[r]
    PROVE  /\ saved' \in [Rows -> Nat]
           /\ NewPayload(r, v) \in PayloadState /\ NewPayload(r, v).version # 0
<1>1. saved[r] \in Nat /\ v \in {"ok", "invalid", "refused"}
  BY QueueAssumption DEF IInv, RowInv
<1> QED
  BY <1>1 DEF Saved, NewPayload, PayloadState, IInv, RowInv

LEMMA FreshRowStep ==
    ASSUME IInv, NEW r \in Rows, NEW v \in Verdicts[r], Saved(r),
           row' = [row EXCEPT ![r] = [Absent EXCEPT !.status = "pending",
                                                    !.payload = NewPayload(r, v)]],
           UNCHANGED <<mapped, server, pass>>
    PROVE  IInv'
<1> DEFINE new == NewPayload(r, v)
           x == [Absent EXCEPT !.status = "pending", !.payload = new]
<1>1. saved' \in [Rows -> Nat] /\ new \in PayloadState /\ new.version # 0
  BY SavedType
<1>2. row' = [row EXCEPT ![r] = x]
  OBVIOUS
<1> HIDE DEF new
<1>3. x \in RowState /\ x.status = "pending" /\ x.payload = new
  BY <1>1 DEF Absent, RowState, Statuses
<1> HIDE DEF x
<1> QED
  BY <1>1, <1>2, <1>3, OneRowKept

LEMMA EditCustomerStep ==
    ASSUME IInv, NEW r \in Rows, NEW v \in Verdicts[r], EditCustomer(r, v) PROVE IInv'
<1> DEFINE new == NewPayload(r, v)
           x == [row[r] EXCEPT !.status = "pending", !.payload = new]
<1>1. Saved(r) /\ UNCHANGED <<mapped, server, pass>> /\ row[r] \in RowState
  BY DEF EditCustomer, IInv, RowInv
<1>2. saved' \in [Rows -> Nat] /\ new \in PayloadState /\ new.version # 0
  BY <1>1, SavedType
<1>3. row' = [row EXCEPT ![r].status = "pending", ![r].payload = new]
  BY DEF EditCustomer
<1> HIDE DEF new
<1>4. row' = [row EXCEPT ![r] = x]
  BY <1>3 DEF IInv, RowInv
<1>5. "pending" \in Statuses
  BY DEF Statuses
<1>6. x \in RowState /\ x.status = "pending" /\ x.payload = new
  BY <1>1, <1>2, <1>5, ZenonT(60) DEF RowState
<1> HIDE DEF x
<1> QED
  BY <1>1, <1>2, <1>4, <1>6, OneRowKept

\* The save goes past the queue, and only when its customer is mapped.
LEMMA SaveOnlineStep == ASSUME IInv, NEW r \in Rows, SaveOnline(r) PROVE IInv'
<1>1. RowInv /\ ServerInv /\ PassInv /\ UNCHANGED <<row, mapped, pass>> /\ ~Unresolved(r)
  BY DEF IInv, SaveOnline
<1>2. saved[r] + 1 \in Nat /\ saved[r] + 1 # 0 /\ saved' \in [Rows -> Nat]
  BY <1>1 DEF RowInv, SaveOnline, Saved
<1>3. server' \in [Rows -> Nat] /\ server'[r] # 0
  BY <1>1, <1>2 DEF SaveOnline, ServerInv
<1>4. \A q \in Rows : q # r => server'[q] = server[q]
  BY <1>1 DEF SaveOnline, ServerInv
<1>5. Monotonic
  BY <1>1, <1>3, <1>4 DEF Monotonic
<1>6. CustomerComesFirst'
<2> SUFFICES ASSUME NEW q \in Rows, server'[q] # 0, Customer[q] # 0
             PROVE  server'[Customer[q]] # 0
  BY DEF CustomerComesFirst
<2>1. Customer[q] \in Rows
  BY QueueAssumption
<2>2. CASE q = r
  BY <1>1, <1>5, <2>1, <2>2 DEF Unresolved, ServerInv, Monotonic
<2>3. CASE q # r
  BY <1>1, <1>4, <1>5, <2>1, <2>3 DEF ServerInv, CustomerComesFirst, Monotonic
<2> QED
  BY <2>2, <2>3
<1>7. ServerInv'
  BY <1>1, <1>3, <1>5, <1>6 DEF ServerInv, Monotonic
<1>8. RowInv'
  BY <1>1, <1>2, <1>5 DEF RowInv, Monotonic
<1> QED
  BY <1>1, <1>5, <1>7, <1>8, PassUnchanged DEF IInv

\* A row that was set aside goes back to the queue, or away.
LEMMA ByHandStep ==
    ASSUME IInv, NEW r \in Rows, RetryByHand(r) \/ Discard(r) PROVE IInv'
<1> PICK status \in {"pending", "discarded"} :
         row[r].status = "attention" /\ row' = [row EXCEPT ![r].status = status]
  BY DEF RetryByHand, Discard
<1> DEFINE x == [row[r] EXCEPT !.status = status]
<1>1. /\ row[r] \in RowState /\ row[r].payload.version # 0 /\ status \in Statuses
      /\ UNCHANGED <<saved, mapped, server, pass>> /\ saved' \in [Rows -> Nat]
  BY DEF IInv, RowInv, RetryByHand, Discard, Statuses
<1>2. row' = [row EXCEPT ![r] = x]
  BY DEF IInv, RowInv
<1>3. x \in RowState /\ x.status = status /\ x.payload = row[r].payload
  BY <1>1, ZenonT(60) DEF RowState
<1> HIDE DEF x
<1> QED
  BY <1>1, <1>2, <1>3, OneRowKept

LEMMA UserSteps == ASSUME IInv, NEW r \in Rows, UserStep(r) PROVE IInv'
<1>1. ASSUME NEW v \in Verdicts[r], Capture(r, v) PROVE IInv'
  BY <1>1, FreshRowStep DEF Capture
<1>2. ASSUME NEW v \in Verdicts[r], SaveAgain(r, v) PROVE IInv'
  BY <1>2, FreshRowStep DEF SaveAgain
<1> QED
  BY <1>1, <1>2, EditCustomerStep, SaveOnlineStep, ByHandStep DEF UserStep

-----------------------------------------------------------------------------
(* The invariant                                                            *)

LEMMA Start == Init => IInv
<1> SUFFICES ASSUME Init PROVE IInv
  OBVIOUS
<1>1. RowInv
  BY DEF Init, RowInv, Absent, RowState, Statuses, NoPayload, PayloadState
<1>2. ServerInv
  BY DEF Init, ServerInv, CustomerComesFirst
<1>3. PassInv
  BY AsleepType, BatchIsRest DEF Init, PassInv
<1> QED
  BY <1>1, <1>2, <1>3 DEF IInv

LEMMA Kept == IInv /\ [Next]_vars => IInv'
<1> SUFFICES ASSUME IInv, [Next]_vars PROVE IInv'
  OBVIOUS
<1>1. CASE StartPass
  BY <1>1, StartPassStep
<1>2. CASE NextStage
  BY <1>2, NextStageStep
<1>3. CASE Skip
  BY <1>3, SkipStep
<1>4. CASE Post
  BY <1>4, PostStep
<1>5. CASE Serve
  BY <1>5, ServeStep
<1>6. CASE Land
  BY <1>6, LandStep
<1>7. CASE SetAside
  BY <1>7, SetAsideStep
<1>8. CASE Refuse \/ Lose
  BY <1>8, AbortStep DEF Refuse, Lose
<1>9. CASE Kill
  BY <1>9, KillStep
<1>10. ASSUME NEW r \in Rows, UserStep(r) PROVE IInv'
  BY <1>10, UserSteps
<1>11. CASE UNCHANGED vars
<2>1. RowInv /\ PassInv /\ Monotonic /\ UNCHANGED <<row, saved, mapped, server, pass>>
  BY <1>11, Monotone DEF IInv, vars
<2> QED
  BY <2>1, RowsUnchanged, PassUnchanged, Combine
<1> QED
  BY <1>1, <1>2, <1>3, <1>4, <1>5, <1>6, <1>7, <1>8, <1>9, <1>10, <1>11
     DEF Next, PassStep

\* A row leaves the queue only when the server has it, whatever answers its
\* batch got and whatever the user did to it meanwhile (the mark...Synced and
\* delete... calls of the sync engine).
THEOREM RowsLeaveOnceLanded == Spec => []LeavesOnceLanded
<1>1. IInv => LeavesOnceLanded
  BY DEF IInv, RowInv, LeavesOnceLanded
<1> QED
  BY <1>1, Start, Kept, PTL DEF Spec

\* A visit or a plan reaches the server only after the customer it refers to,
\* though customers, visits and plans are retried, edited and discarded
\* independently (_checkInPendingVisit and _syncVisitPlans of the engine).
THEOREM CustomersComeFirst == Spec => []CustomerComesFirst
<1>1. IInv => CustomerComesFirst
  BY DEF IInv, ServerInv
<1> QED
  BY <1>1, Start, Kept, PTL DEF Spec

-----------------------------------------------------------------------------
(* Counts: retries, versions and what may be set aside                      *)

Waiting == {"pending", "failed"}

\* A row x of table t that was saved n times, after k touches of the user: what
\* waits has an attempt left.
Fit(t, x, n, k) ==
    /\ x.retries <= MaxRetries + k
    /\ x.status \in Waiting => x.retries < MaxRetries + k
    /\ t \in {"profile", "location"} => x.status # "attention" /\ x.retries = 0
    /\ x.status = "absent" => n = 0
    /\ x.payload.version <= n /\ n <= k + 1

\* What a pass has read and not yet posted is pending, unless the user deleted it.
Awake ==
    \A r \in pass.rest :
        /\ row[r].status \notin {"attention", "failed"}
        /\ Table[r] = pass.stage \/ (Table[r] = "meet" /\ pass.stage = "farmer")

Counted ==
    /\ \A r \in Rows :
          /\ Fit(Table[r], row[r], saved[r], touches)
          /\ pass.payload[r].version <= saved[r] /\ server[r] <= saved[r]
    /\ failures \in 0..MaxFailures /\ touches \in 0..MaxTouches

QueueInv == IInv /\ Counted /\ Awake

LEMMA QueueTypes ==
    ASSUME IInv
    PROVE  /\ row \in [Rows -> RowState] /\ saved \in [Rows -> Nat] /\ server \in [Rows -> Nat]
           /\ pass \in PassState /\ mapped \subseteq Rows /\ Batch \subseteq pass.rest
           /\ pass.rest \subseteq Rows
           /\ MaxRetries \in Nat \ {0} /\ MaxTouches \in Nat /\ MaxFailures \in Nat
           /\ Table \in [Rows -> Tables]
  BY BatchIsRest, QueueAssumption DEF IInv, RowInv, PassInv, ServerInv, PassState

LEMMA FitStatus ==
    ASSUME NEW t, NEW x \in RowState, NEW n \in Nat, NEW k \in Nat, Fit(t, x, n, k),
           NEW status \in Statuses \ {"absent"}, x.status # "absent",
           status \in Waiting => x.status \in Waiting,
           status = "attention" => t \notin {"profile", "location"}
    PROVE  Fit(t, WithStatus(x, status), n, k)
<1>1. /\ WithStatus(x, status).status = status /\ WithStatus(x, status).payload = x.payload
      /\ WithStatus(x, status).retries = x.retries
  BY DEF WithStatus, RowState
<1> QED
  BY <1>1 DEF Fit

LEMMA FitFailed ==
    ASSUME NEW t, t \notin {"profile", "location"}, NEW x \in RowState, NEW n \in Nat, NEW k \in Nat,
           Fit(t, x, n, k), x.status = "pending"
    PROVE  Fit(t, Failed(x), n, k)
<1>1. /\ Failed(x).retries = x.retries + 1 /\ Failed(x).payload = x.payload
      /\ Failed(x).status = IF x.retries + 1 >= MaxRetries THEN "attention" ELSE "failed"
  BY DEF Failed, RowState
<1>2. x.retries \in Nat /\ MaxRetries \in Nat
  BY QueueAssumption DEF RowState
<1> QED
  BY <1>1, <1>2 DEF Fit, Waiting

\* A row that is saved anew, or edited: one more save, and one more touch but
\* for the first.
LEMMA FitSaved ==
    ASSUME NEW t, NEW x \in RowState, NEW n \in Nat, NEW k \in Nat, Fit(t, x, n, k),
           NEW y, y.status = "pending", y.payload.version = n + 1,
           NEW m \in Nat, m = k + 1 \/ (n = 0 /\ m = k),
           \/ y.retries = 0
           \/ y.retries = x.retries /\ m = k + 1 /\ t \notin {"profile", "location"}
    PROVE  Fit(t, y, n + 1, m)
<1>1. x.retries \in Nat /\ MaxRetries \in Nat \ {0}
  BY QueueAssumption DEF RowState
<1> QED
  BY <1>1 DEF Fit, Waiting

LEMMA FitTouched ==
    ASSUME NEW t, NEW x \in RowState, NEW n \in Nat, NEW k \in Nat, Fit(t, x, n, k),
           NEW m \in {n, n + 1}, m = n \/ x.status # "absent"
    PROVE  Fit(t, x, m, k + 1)
<1>1. x.retries \in Nat /\ MaxRetries \in Nat \ {0} /\ x.payload.version \in Nat
  BY QueueAssumption DEF RowState, PayloadState
<1> QED
  BY <1>1 DEF Fit

-----------------------------------------------------------------------------
(* The steps of a pass                                                      *)

LEMMA CountsKept ==
    ASSUME QueueInv, IInv', UNCHANGED <<saved, touches>>, failures' \in 0..MaxFailures, Awake',
           \A r \in Rows : row'[r] = row[r] \/ Fit(Table[r], row'[r], saved[r], touches),
           \A r \in Rows : pass'.payload[r].version <= saved[r] /\ server'[r] <= saved[r]
    PROVE  QueueInv'
  BY DEF QueueInv, Counted

\* Some rows that a pass has read are dealt with, and nothing else.
LEMMA DealtCounts ==
    ASSUME QueueInv, IInv', NEW S, pass'.rest = pass.rest \ S,
           pass'.stage = pass.stage, pass'.payload = pass.payload,
           UNCHANGED <<saved, touches, failures, server>>,
           \A r \in Rows \ S : row'[r] = row[r],
           \A r \in S : row'[r] = row[r] \/ Fit(Table[r], row'[r], saved[r], touches)
    PROVE  QueueInv'
<1>1. Awake'
  BY QueueTypes DEF QueueInv, Awake
<1> QED
  BY <1>1, CountsKept DEF QueueInv, Counted

\* The batch of a pass is dealt with, and nothing else.
LEMMA ProceedCounts ==
    ASSUME QueueInv, IInv', Proceed, UNCHANGED <<saved, touches, failures, server>>,
           \A r \in Rows \ Batch : row'[r] = row[r],
           \A r \in Batch : row'[r] = row[r] \/ Fit(Table[r], row'[r], saved[r], touches)
    PROVE  QueueInv'
<1>1. pass'.rest = pass.rest \ Batch /\ pass'.stage = pass.stage /\ pass'.payload = pass.payload
  BY QueueTypes DEF QueueInv, Proceed, PassState
<1> QED
  BY <1>1, DealtCounts

\* The pass ends, or begins.
LEMMA RestingCounts ==
    ASSUME QueueInv, IInv', UNCHANGED <<saved, touches, server>>, failures' \in 0..MaxFailures,
           pass'.rest = {}, \A r \in Rows : pass'.payload[r].version = 0,
           \A r \in Rows : row'[r] = row[r] \/ Fit(Table[r], row'[r], saved[r], touches)
    PROVE  QueueInv'
<1>1. \A r \in Rows : 0 <= saved[r]
  BY QueueTypes DEF QueueInv
<1> QED
  BY <1>1, CountsKept DEF Awake, QueueInv, Counted

LEMMA AsleepIsEmpty ==
    /\ Asleep.rest = {} /\ \A r \in Rows : Asleep.payload[r].version = 0
    /\ Asleep.stage = "idle"
  BY DEF Asleep, NoPayload

LEMMA StartPassCounts == ASSUME QueueInv, IInv', StartPass PROVE QueueInv'
<1>1. ASSUME NEW r \in Rows PROVE row'[r] = row[r] \/ Fit(Table[r], row'[r], saved[r], touches)
  <2>1. row'[r] = row[r] \/ (row[r].status = "failed" /\ row'[r] = WithStatus(row[r], "pending"))
    BY DEF StartPass
  <2>2. row[r].status = "failed" => Fit(Table[r], WithStatus(row[r], "pending"), saved[r], touches)
    BY FitStatus, QueueTypes DEF QueueInv, Counted, Statuses, Waiting
  <2> QED
    BY <2>1, <2>2
<1>2. pass'.rest = {} /\ \A r \in Rows : pass'.payload[r].version = 0
  BY DEF StartPass, Asleep, NoPayload
<1> QED
  BY <1>1, <1>2, RestingCounts DEF StartPass, QueueInv, Counted

LEMMA NextStageCounts == ASSUME QueueInv, IInv', NextStage PROVE QueueInv'
<1>1. PICK stage : pass' = [Asleep EXCEPT !.stage = stage, !.rest = Read(stage),
                               !.payload = [r \in Rows |-> IF r \in Read(stage)
                                               THEN row[r].payload ELSE NoPayload]]
  BY DEF NextStage
<1>2. /\ pass'.stage = stage /\ pass'.rest = Read(stage)
      /\ \A r \in Rows : pass'.payload[r] = IF r \in Read(stage) THEN row[r].payload ELSE NoPayload
  BY <1>1 DEF Asleep
<1>3. \A r \in Rows : pass'.payload[r].version <= saved[r]
  <2>1. \A r \in Rows : row[r].payload.version <= saved[r] /\ NoPayload.version <= saved[r]
    BY QueueTypes DEF QueueInv, Counted, Fit, NoPayload
  <2> QED
    BY <1>2, <2>1
<1>4. \A r \in Read(stage) :
         /\ row[r].status = "pending"
         /\ Table[r] = stage \/ (Table[r] = "meet" /\ stage = "farmer")
  BY DEF Read, Pending, Oldest
<1>5. Awake'
  BY <1>2, <1>4 DEF NextStage, Awake
<1> QED
  BY <1>3, <1>5, CountsKept DEF NextStage, QueueInv, Counted

LEMMA SkipCounts == ASSUME QueueInv, IInv', Skip PROVE QueueInv'
  BY ProceedCounts DEF Skip

\* The batch is sent or answered.
LEMMA PhaseCounts ==
    ASSUME QueueInv, IInv', NEW phase, pass' = [pass EXCEPT !.phase = phase],
           UNCHANGED <<row, saved, touches, failures>>,
           \A r \in Rows : server'[r] \in {server[r], pass.payload[r].version}
    PROVE  QueueInv'
<1>1. pass'.rest = pass.rest /\ pass'.stage = pass.stage /\ pass'.payload = pass.payload
  BY QueueTypes DEF QueueInv, PassState
<1>2. Awake'
  BY <1>1 DEF QueueInv, Awake
<1> QED
  BY <1>1, <1>2, CountsKept DEF QueueInv, Counted

LEMMA PostCounts == ASSUME QueueInv, IInv', Post PROVE QueueInv'
  BY PhaseCounts DEF Post

LEMMA ServeCounts == ASSUME QueueInv, IInv', Serve PROVE QueueInv'
<1>1. \A r \in Rows : server'[r] \in {server[r], pass.payload[r].version}
  BY DEF Serve
<1> QED
  BY <1>1, PhaseCounts DEF Serve

\* Rows of the batch are landed or set aside.
LEMMA MarkFits ==
    ASSUME QueueInv, NEW S, S \subseteq Batch,
           NEW status \in {"landed", "failed", "attention"}, MarkRows(S, status),
           status = "attention" => \A r \in Batch : Table[r] \notin {"profile", "location"}
    PROVE  /\ \A r \in Rows \ S : row'[r] = row[r]
           /\ \A r \in S : row'[r] = row[r] \/ Fit(Table[r], row'[r], saved[r], touches)
<1>1. /\ \A r \in Rows \ S : row'[r] = row[r]
      /\ \A r \in S : row'[r] = row[r] \/ (Queued(r) /\ row'[r] = WithStatus(row[r], status))
  BY QueueTypes DEF QueueInv, MarkRows, Change
<1>2. ASSUME NEW r \in S, Queued(r)
      PROVE  Fit(Table[r], WithStatus(row[r], status), saved[r], touches)
  <2>1. row[r].status = "pending" /\ r \in Batch
    BY <1>2, QueueTypes DEF QueueInv, Awake, Queued
  <2> QED
    BY <2>1, QueueTypes, FitStatus DEF QueueInv, Counted, Statuses, Waiting
<1> QED
  BY <1>1, <1>2

LEMMA MarkCounts ==
    ASSUME QueueInv, IInv', Proceed, UNCHANGED <<saved, touches, failures, server>>,
           NEW status \in {"landed", "failed", "attention"}, MarkRows(Batch, status),
           status = "attention" => \A r \in Batch : Table[r] \notin {"profile", "location"}
    PROVE  QueueInv'
  BY MarkFits, ProceedCounts

LEMMA LandCounts == ASSUME QueueInv, IInv', Land PROVE QueueInv'
<1>1. Noted \subseteq Batch
  BY DEF Noted, Oldest
<1>2. /\ \A r \in Rows \ Noted : row'[r] = row[r]
      /\ \A r \in Noted : row'[r] = row[r] \/ Fit(Table[r], row'[r], saved[r], touches)
  BY <1>1, MarkFits DEF Land
<1>3. pass'.rest = pass.rest \ Noted /\ pass'.stage = pass.stage /\ pass'.payload = pass.payload
  BY QueueTypes DEF QueueInv, Land, PassState
<1> QED
  BY <1>2, <1>3, DealtCounts DEF Land

LEMMA SetAsideCounts == ASSUME QueueInv, IInv', SetAside PROVE QueueInv'
<1>1. Proceed /\ UNCHANGED <<saved, touches, failures, server>>
  BY DEF SetAside
<1>2. CASE UNCHANGED row
  BY <1>1, <1>2, ProceedCounts
<1>3. CASE MarkRows(Batch, "failed")
  BY <1>1, <1>3, MarkCounts
<1>4. CASE MarkRows(Batch, "attention") /\ ~Of({"profile"}) /\ ~Of({"location"})
  <2>1. \A r \in Batch : Table[r] \notin {"profile", "location"}
    BY <1>4, QueueTypes DEF Of, QueueInv, Awake
  <2> QED
    BY <1>1, <1>4, <2>1, MarkCounts
<1> QED
  BY <1>2, <1>3, <1>4 DEF SetAside

LEMMA AbortCounts ==
    ASSUME QueueInv, IInv', Working, Abort, UNCHANGED <<saved, touches, server>>,
           failures' \in 0..MaxFailures
    PROVE  QueueInv'
<1>1. ASSUME NEW r \in Rows PROVE row'[r] = row[r] \/ Fit(Table[r], row'[r], saved[r], touches)
  <2>1. \/ row'[r] = row[r]
        \/ ~Of({"profile", "location"}) /\ r \in Batch /\ Queued(r) /\ row'[r] = Failed(row[r])
    BY <1>1 DEF Abort, FailRows, Change
  <2>2. CASE ~Of({"profile", "location"}) /\ r \in Batch /\ Queued(r) /\ row'[r] = Failed(row[r])
    <3>1. row[r].status = "pending" /\ Table[r] \notin {"profile", "location"}
      BY <2>2, QueueTypes DEF QueueInv, Awake, Queued, Of
    <3> QED
      BY <2>2, <3>1, QueueTypes, FitFailed DEF QueueInv, Counted
  <2> QED
    BY <2>1, <2>2
<1> QED
  BY <1>1, AsleepIsEmpty, RestingCounts DEF Abort

LEMMA KillCounts == ASSUME QueueInv, IInv', Kill PROVE QueueInv'
<1>1. failures' \in 0..MaxFailures
  BY QueueTypes DEF Kill, QueueInv, Counted
<1> QED
  BY <1>1, AsleepIsEmpty, RestingCounts DEF Kill

-----------------------------------------------------------------------------
(* The steps of the user                                                    *)

\* Row r becomes x, or the server's copy changes.
LEMMA UserCounts ==
    ASSUME QueueInv, IInv', NEW r \in Rows, UNCHANGED <<pass, failures>>, touches' \in 0..MaxTouches,
           touches' \in {touches, touches + 1},
           \A s \in Rows \ {r} : row'[s] = row[s] /\ saved'[s] = saved[s] /\ server'[s] = server[s],
           saved'[r] \in {saved[r], saved[r] + 1},
           server'[r] <= saved'[r],
           Fit(Table[r], row'[r], saved'[r], touches'),
           r \in pass.rest => row'[r].status \notin {"attention", "failed"}
    PROVE  QueueInv'
<1>1. Awake'
  BY QueueTypes DEF QueueInv, Awake
<1>2. ASSUME NEW s \in Rows
      PROVE  /\ Fit(Table[s], row'[s], saved'[s], touches')
             /\ pass'.payload[s].version <= saved'[s] /\ server'[s] <= saved'[s]
  <2>0. pass.payload[s].version \in Nat /\ touches \in Nat /\ saved[s] \in Nat
    BY QueueTypes DEF QueueInv, Counted, PassState, PayloadState
  <2>1. CASE s = r
    BY <2>0, <2>1 DEF QueueInv, Counted
  <2>2. CASE s # r
    <3>1. Fit(Table[s], row[s], saved[s], touches)
      BY DEF QueueInv, Counted
    <3>2. Fit(Table[s], row[s], saved[s], touches + 1)
      BY <2>0, <3>1, FitTouched, QueueTypes DEF QueueInv
    <3> QED
      BY <2>2, <3>1, <3>2 DEF QueueInv, Counted
  <2> QED
    BY <2>1, <2>2
<1> QED
  BY <1>1, <1>2 DEF QueueInv, Counted

LEMMA TouchCounts ==
    ASSUME QueueInv, Touch
    PROVE  touches \in Nat /\ touches' = touches + 1 /\ touches' \in 0..MaxTouches
  BY QueueTypes DEF QueueInv, Counted, Touch

\* A new version of row r, by hand or for the first time.
LEMMA SaveCounts ==
    ASSUME QueueInv, IInv', NEW r \in Rows, NEW v, NEW y, row' = [row EXCEPT ![r] = y],
           Saved(r), UNCHANGED <<server, pass, failures>>,
           Touch \/ (row[r].status = "absent" /\ touches' = touches),
           y.status = "pending", y.payload = NewPayload(r, v),
           \/ y.retries = 0
           \/ y.retries = row[r].retries /\ Touch /\ Table[r] \notin {"profile", "location"}
    PROVE  QueueInv'
<1>1. /\ saved[r] \in Nat /\ saved' = [saved EXCEPT ![r] = saved[r] + 1] /\ row[r] \in RowState
      /\ touches \in Nat /\ Fit(Table[r], row[r], saved[r], touches)
  BY QueueTypes DEF QueueInv, Counted, Saved
<1>2. touches' \in 0..MaxTouches /\ (touches' = touches + 1 \/ (saved[r] = 0 /\ touches' = touches))
  BY <1>1, TouchCounts DEF QueueInv, Counted, Fit
<1>3. y.payload.version = saved[r] + 1
  BY DEF NewPayload
<1>4. Fit(Table[r], y, saved[r] + 1, touches')
  BY <1>1, <1>2, <1>3, FitSaved, TouchCounts
<1>5. saved'[r] = saved[r] + 1 /\ row'[r] = y /\ server'[r] <= saved[r]
      /\ \A s \in Rows \ {r} : saved'[s] = saved[s] /\ row'[s] = row[s]
  BY <1>1, QueueTypes DEF QueueInv, Counted
<1>6. server'[r] <= saved'[r]
  BY <1>1, <1>5, QueueTypes DEF QueueInv
<1> QED
  BY <1>1, <1>2, <1>4, <1>5, <1>6, UserCounts

LEMMA UserStepCounts == ASSUME QueueInv, IInv', NEW r \in Rows, UserStep(r) PROVE QueueInv'
<1>1. /\ row \in [Rows -> RowState] /\ saved[r] \in Nat /\ server[r] \in Nat
      /\ touches \in Nat /\ Fit(Table[r], row[r], saved[r], touches) /\ server[r] <= saved[r]
  BY QueueTypes DEF QueueInv, Counted
<1>2. ASSUME NEW v \in Verdicts[r], Capture(r, v) \/ SaveAgain(r, v) PROVE QueueInv'
  <2> DEFINE y == [Absent EXCEPT !.status = "pending", !.payload = NewPayload(r, v)]
  <2>1. y.status = "pending" /\ y.payload = NewPayload(r, v) /\ y.retries = 0
    BY DEF Absent
  <2>2. row' = [row EXCEPT ![r] = y]
    BY <1>2 DEF Capture, SaveAgain
  <2> HIDE DEF y
  <2> QED
    BY <1>2, <2>1, <2>2, SaveCounts DEF Capture, SaveAgain
<1>3. ASSUME NEW v \in Verdicts[r], EditCustomer(r, v) PROVE QueueInv'
  <2> DEFINE y == [row[r] EXCEPT !.status = "pending", !.payload = NewPayload(r, v)]
  <2>1. y.status = "pending" /\ y.payload = NewPayload(r, v) /\ y.retries = row[r].retries
    BY <1>1 DEF RowState
  <2>2. row' = [row EXCEPT ![r] = y]
    BY <1>1, <1>3 DEF EditCustomer
  <2> HIDE DEF y
  <2> QED
    BY <1>3, <2>1, <2>2, SaveCounts DEF EditCustomer
<1>4. CASE SaveOnline(r)
  <2>1. /\ saved'[r] = saved[r] + 1 /\ server'[r] = saved[r] + 1 /\ row' = row
        /\ \A s \in Rows \ {r} : saved'[s] = saved[s] /\ server'[s] = server[s]
    BY <1>4, QueueTypes DEF SaveOnline, Saved, QueueInv
  <2>2. Fit(Table[r], row'[r], saved'[r], touches + 1)
    BY <1>1, <1>4, <2>1, FitTouched DEF SaveOnline
  <2>3. r \in pass.rest => row'[r].status \notin {"attention", "failed"}
    BY <2>1 DEF QueueInv, Awake
  <2> QED
    BY <1>1, <1>4, <2>1, <2>2, <2>3, TouchCounts, UserCounts DEF SaveOnline
<1>5. ASSUME NEW status \in {"pending", "discarded"}, row[r].status = "attention",
             row' = [row EXCEPT ![r].status = status], Touch,
             UNCHANGED <<saved, server, pass, failures>>
      PROVE  QueueInv'
  <2>1. /\ row'[r].status = status /\ row'[r].payload = row[r].payload
        /\ row'[r].retries = row[r].retries /\ \A s \in Rows \ {r} : row'[s] = row[s]
    BY <1>1, <1>5 DEF RowState
  <2>2. row[r].retries \in Nat /\ row[r].payload.version \in Nat /\ MaxRetries \in Nat
    BY <1>1, QueueAssumption DEF RowState, PayloadState
  <2>3. Fit(Table[r], row'[r], saved'[r], touches + 1)
    BY <1>1, <1>5, <2>1, <2>2 DEF Fit, Waiting
  <2> QED
    BY <1>1, <1>5, <2>1, <2>3, TouchCounts, UserCounts
<1> QED
  BY <1>2, <1>3, <1>4, <1>5 DEF UserStep, RetryByHand, Discard

-----------------------------------------------------------------------------

LEMMA CountsStart == Init => QueueInv
<1> SUFFICES ASSUME Init PROVE QueueInv
  OBVIOUS
<1>1. Counted
  BY QueueAssumption DEF Init, Counted, Fit, Absent, NoPayload, Asleep, Waiting
<1>2. Awake
  BY AsleepIsEmpty DEF Init, Awake
<1> QED
  BY <1>1, <1>2, Start DEF QueueInv

LEMMA CountsInvariance == QueueInv /\ [Next]_vars => QueueInv'
<1> SUFFICES ASSUME QueueInv, [Next]_vars PROVE QueueInv'
  OBVIOUS
<1>1. IInv'
  BY Kept DEF QueueInv
<1>2. CASE StartPass
  BY <1>1, <1>2, StartPassCounts
<1>3. CASE PassStep
  <2>1. CASE Refuse
    BY <1>1, <2>1, AbortCounts DEF Refuse, QueueInv, Counted
  <2> QED
    BY <1>1, <1>3, <2>1, NextStageCounts, SkipCounts, PostCounts, ServeCounts, LandCounts,
       SetAsideCounts DEF PassStep
<1>4. CASE Lose
  <2>1. failures' \in 0..MaxFailures
    BY <1>4, QueueTypes DEF Lose, QueueInv, Counted
  <2> QED
    BY <1>1, <1>4, <2>1, AbortCounts DEF Lose
<1>5. CASE Kill
  BY <1>1, <1>5, KillCounts
<1>6. ASSUME NEW r \in Rows, UserStep(r) PROVE QueueInv'
  BY <1>1, <1>6, UserStepCounts
<1>7. CASE UNCHANGED vars
  BY <1>1, <1>7 DEF vars, QueueInv, Counted, Awake
<1> QED
  BY <1>2, <1>3, <1>4, <1>5, <1>6, <1>7 DEF Next

\* However passes, answers, lost messages and the user's hand interleave: a profile
\* edit or a location is never set aside, no retry count passes its cap by more
\* than the attempts the user asked for, and every variable keeps its type
\* (mark...TransientFailure, NeedsAttentionRepository.retry).
THEOREM QueueTypeCorrect == Spec => []TypeOK
<1>1. QueueInv => TypeOK
  <2> SUFFICES ASSUME QueueInv PROVE TypeOK
    OBVIOUS
  <2>1. ASSUME NEW r \in Rows
        PROVE  /\ saved[r] \in Versions /\ server[r] \in Versions
               /\ row[r].payload \in Payload /\ pass.payload[r] \in Payload
               /\ row[r] \in [status : Statuses, retries : 0..(MaxRetries + MaxTouches),
                              payload : Payload]
    <3>1. /\ row[r] \in RowState /\ pass.payload[r] \in PayloadState
          /\ saved[r] \in Nat /\ server[r] \in Nat /\ touches \in 0..MaxTouches
          /\ MaxRetries \in Nat /\ MaxTouches \in Nat
      BY QueueTypes DEF QueueInv, Counted, PassState
    <3>2. /\ row[r].retries <= MaxRetries + touches /\ saved[r] <= touches + 1
          /\ row[r].payload.version <= saved[r] /\ pass.payload[r].version <= saved[r]
          /\ server[r] <= saved[r]
      BY DEF QueueInv, Counted, Fit
    <3>3. saved[r] \in Versions /\ server[r] \in Versions
      BY <3>1, <3>2 DEF Versions
    <3>4. row[r].payload.version \in Versions /\ pass.payload[r].version \in Versions
      BY <3>1, <3>2 DEF Versions, RowState, PayloadState
    <3>5. row[r].payload \in Payload /\ pass.payload[r] \in Payload
      BY <3>1, <3>4 DEF Payload, RowState, PayloadState
    <3>6. row[r].retries \in 0..(MaxRetries + MaxTouches)
      BY <3>1, <3>2 DEF RowState
    <3> QED
      BY <3>1, <3>3, <3>5, <3>6 DEF RowState
  <2>2. pass \in [stage : {"idle", "start"} \cup Tables, rest : SUBSET Rows,
                  payload : [Rows -> Payload],
                  phase : {"ready", "sent", "ok", "invalid", "refused"}]
    <3>1. pass.payload \in [Rows -> Payload]
      BY <2>1, QueueTypes DEF QueueInv, PassState
    <3> QED
      BY <3>1, QueueTypes DEF QueueInv, PassState, Stages
  <2>3. \A r \in Rows : Table[r] \in {"profile", "location"} =>
            row[r].status # "attention" /\ row[r].retries = 0
    BY DEF QueueInv, Counted, Fit
  <2> QED
    BY <2>1, <2>2, <2>3, QueueTypes DEF QueueInv, Counted, TypeOK, Statuses
<1> QED
  BY <1>1, CountsStart, CountsInvariance, PTL DEF Spec
===============================================================================
