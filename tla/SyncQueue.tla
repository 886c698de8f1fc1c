------------------------------ MODULE SyncQueue ------------------------------
(***************************************************************************)
(* The offline queue of the phone as a whole (mobile sync_engine.dart,     *)
(* database_helper.dart): the order in which a pass drains its tables, what *)
(* it does with each answer of the server, and what the user can do with a *)
(* row meanwhile.                                                          *)
(*                                                                         *)
(* A row is a change waiting to be posted.  A pass takes the tables in     *)
(* their fixed order, reads the pending rows of each once, and posts them  *)
(* one by one - the attendees of a Farmer Meet together, locations in      *)
(* batches.  A 422 sets the rows aside; any other error counts as          *)
(* transient and ends the pass; after MaxRetries of them a row is set      *)
(* aside too.                                                              *)
(*                                                                         *)
(* A visit is one post here: its steps are the subject of VisitSync, which *)
(* also has the passes that overlap.  The attendance sessions' table is    *)
(* left out: nothing in the app inserts into it.                           *)
(***************************************************************************)
EXTENDS Naturals, FiniteSets

CONSTANTS
    Rows,        \* the changes, numbered in the order they are captured in
    Table,       \* the table of each
    Customer,    \* the customer a visit or plan refers to by its local id, or 0
    Verdicts,    \* what the server may say of the payloads of each
    MaxRetries,  \* farmerMaxAutoRetries and the like (20)
    MaxFailures, \* lost messages and app kills
    MaxTouches,  \* what the user does to rows by hand
    BatchSize    \* _locationBatchSize (50)

Tables == {"profile", "leave", "farmer", "meet", "plan", "action", "visit", "location"}

ASSUME QueueAssumption ==
    /\ Rows \subseteq Nat \ {0} /\ Table \in [Rows -> Tables]
    /\ Customer \in [Rows -> Rows \cup {0}]
    /\ Verdicts \in [Rows -> SUBSET {"ok", "invalid", "refused"}]
    /\ {MaxRetries, BatchSize} \subseteq Nat \ {0}
    /\ {MaxFailures, MaxTouches} \subseteq Nat

VARIABLES
    row,      \* the rows on the phone
    saved,    \* the latest version the user was told is saved
    mapped,   \* id_mappings: the customers whose server id the phone knows
    server,   \* the version of each change the server has, 0 for none
    pass,     \* the pass of the engine
    failures, \* lost messages and app kills so far
    touches   \* what the user did to rows by hand so far

vars == <<row, saved, mapped, server, pass, failures, touches>>

-----------------------------------------------------------------------------
(* Rows                                                                     *)

\* Each save is a new version of its change; the server judges each version.
NoPayload == [version |-> 0, verdict |-> "none"]
Absent == [status |-> "absent", retries |-> 0, payload |-> NoPayload]

Queued(r) == row[r].status \in {"pending", "failed", "attention"}

\* The rows a pass reads from a table
Pending(t) == {r \in Rows : Table[r] = t /\ row[r].status = "pending"}

\* ORDER BY id ASC LIMIT n
Oldest(S, n) == {r \in S : Cardinality({q \in S : q < r}) < n}

\* Mutant: a row that is out of retries is kept in the queue.
FailedForever(x) == [x EXCEPT !.retries = MaxRetries, !.status = "failed"]

\* mark...TransientFailure
Failed(x) ==
    [x EXCEPT !.retries = @ + 1,
              !.status = IF x.retries + 1 >= MaxRetries THEN "attention" ELSE "failed"]

WithStatus(x, status) == [x EXCEPT !.status = status]

\* UPDATEs of those rows of s that are still there
Change(s, new) == row' = [r \in Rows |-> IF r \in s /\ Queued(r) THEN new[r] ELSE row[r]]
MarkRows(s, status) == Change(s, [r \in Rows |-> WithStatus(row[r], status)])
FailRows(s) == Change(s, [r \in Rows |-> Failed(row[r])])

-----------------------------------------------------------------------------
(* The pass                                                                 *)

\* `rest` are the rows it read for its stage and still has to post, `payload`
\* what they held then; `phase` is where the batch is that comes next: ready to
\* be posted, sent, or answered: ok, invalid (422) or refused.
Asleep == [stage |-> "idle", rest |-> {},
           payload |-> [r \in Rows |-> NoPayload], phase |-> "ready"]

\* _runSequence
Following ==
    [start |-> "profile", profile |-> "leave", leave |-> "farmer",
     farmer |-> "plan", plan |-> "action", action |-> "visit",
     visit |-> "location", location |-> "idle"]

\* The attendees of a Farmer Meet come after the other customers.
Read(stage) ==
    CASE stage = "idle"     -> {}
      [] stage = "farmer"   -> Pending("farmer") \cup Pending("meet")
      [] stage = "location" -> Oldest(Pending("location"), BatchSize)
      [] OTHER              -> Pending(stage)

\* Rows are posted one by one, but locations and the attendees together.
Single == {r \in pass.rest : Table[r] \notin {"meet", "location"}}
Batch == IF Single # {} THEN Oldest(Single, 1) ELSE pass.rest

Of(tables) == \A r \in Batch : Table[r] \in tables
Working == pass.stage # "idle" /\ pass.rest # {}
Proceed == pass' = [pass EXCEPT !.rest = @ \ Batch, !.phase = "ready"]

\* The tables _runSequence requeues: requeueFailedPlanItemActions has no
\* caller.
Requeues(t) == t # "action"

\* syncNow.  The phone is online, and no pass runs.
StartPass ==
    /\ pass.stage = "idle"
    /\ row' = [r \in Rows |->
                 IF row[r].status = "failed" /\ Requeues(Table[r])
                 THEN WithStatus(row[r], "pending") ELSE row[r]]
    /\ pass' = [Asleep EXCEPT !.stage = "start"]
    /\ UNCHANGED <<saved, mapped, server, failures, touches>>

\* The next table is read; that of the locations as long as it has any.
NextStage ==
    /\ pass.stage # "idle" /\ pass.rest = {}
    /\ LET stage == IF pass.stage = "location" /\ Pending("location") # {}
                    THEN "location" ELSE Following[pass.stage]
       IN  pass' = [Asleep EXCEPT
                      !.stage = stage, !.rest = Read(stage),
                      !.payload = [r \in Rows |-> IF r \in Read(stage)
                                                  THEN row[r].payload ELSE NoPayload]]
    /\ UNCHANGED <<row, saved, mapped, server, failures, touches>>

\* Mutant: only a customer that is still in the queue is waited for.
StillQueued(r) == Customer[r] # 0 /\ row[Customer[r]].status \in {"pending", "failed"}

\* _checkInPendingVisit and _syncVisitPlans: the customer has no server id yet.
Unresolved(r) == Customer[r] # 0 /\ Customer[r] \notin mapped

\* Such a row is left for a later pass.
Skip ==
    /\ Working /\ pass.phase = "ready"
    /\ \E r \in Batch : Unresolved(r)
    /\ Proceed
    /\ UNCHANGED <<row, saved, mapped, server, failures, touches>>

Post ==
    /\ Working /\ pass.phase = "ready"
    /\ \A r \in Batch : ~Unresolved(r)
    /\ pass' = [pass EXCEPT !.phase = "sent"]
    /\ UNCHANGED <<row, saved, mapped, server, failures, touches>>

\* Mutant: everything that is pending by now counts as posted.
LandTheTable ==
    /\ Working /\ pass.phase = "ok"
    /\ row' = [r \in Rows |-> IF Of({Table[r]}) /\ row[r].status = "pending"
                              THEN WithStatus(row[r], "landed") ELSE row[r]]
    /\ mapped' = IF Of({"farmer", "meet"}) THEN mapped \cup Batch ELSE mapped
    /\ Proceed
    /\ UNCHANGED <<saved, server, failures, touches>>

\* The attendees of an accepted meet are noted one by one, locations at once.
Noted == IF Of({"meet"}) THEN Oldest(Batch, 1) ELSE Batch

\* 2xx: a row is deleted (locations are marked), a customer is mapped.
Land ==
    /\ Working /\ pass.phase = "ok"
    /\ MarkRows(Noted, "landed")
    /\ mapped' = IF Of({"farmer", "meet"}) THEN mapped \cup Noted ELSE mapped
    /\ pass' = [pass EXCEPT !.rest = @ \ Noted,
                            !.phase = IF Batch = Noted THEN "ready" ELSE @]
    /\ UNCHANGED <<saved, server, failures, touches>>

\* 422: the rows are set aside and the pass goes on.  Locations wait for the
\* next pass, and a profile edit stays where it is.
SetAside ==
    /\ Working /\ pass.phase = "invalid"
    /\ CASE Of({"profile"})  -> UNCHANGED row
         [] Of({"location"}) -> MarkRows(Batch, "failed")
         [] OTHER            -> MarkRows(Batch, "attention")
    /\ Proceed
    /\ UNCHANGED <<saved, mapped, server, failures, touches>>

\* Any other error ends the pass.  Only the tables with a retry count count.
Abort ==
    /\ IF Of({"profile", "location"}) THEN UNCHANGED row ELSE FailRows(Batch)
    /\ pass' = Asleep

Refuse ==
    /\ Working /\ pass.phase = "refused"
    /\ Abort
    /\ UNCHANGED <<saved, mapped, server, failures, touches>>

-----------------------------------------------------------------------------
(* The network and the server                                               *)

\* A customer, a visit and a location are recognised when they come again.
Deduplicated == {"farmer", "meet", "visit", "location"}

\* What the server says of the batch: it validates it (422), recognises it,
\* or refuses it (400, 403, 404, 409, or a unique index: 500).  A second
\* leave request for a day is a conflict, and so is a meet of which only a
\* part is there.
Answer ==
    LET says(v) == \E r \in Batch : pass.payload[r].verdict = v
        has == {r \in Batch : server[r] # 0}
    IN  CASE says("invalid")                    -> "invalid"
          [] Of(Deduplicated) /\ has = Batch    -> "ok"
          [] says("refused")                    -> "refused"
          [] Of({"leave", "meet"}) /\ has # {}  -> "refused"
          [] OTHER                              -> "ok"

Serve ==
    /\ Working /\ pass.phase = "sent"
    /\ pass' = [pass EXCEPT !.phase = Answer]
    /\ server' = [r \in Rows |->
                    IF \/ r \notin Batch \/ Answer # "ok"
                       \/ Of(Deduplicated) /\ server[r] # 0
                    THEN server[r] ELSE pass.payload[r].version]
    /\ UNCHANGED <<row, saved, mapped, failures, touches>>

\* The request or its answer is lost, or a write that notes the answer fails.
Lose ==
    /\ Working /\ pass.phase # "ready"
    /\ failures < MaxFailures
    /\ failures' = failures + 1
    /\ Abort
    /\ UNCHANGED <<saved, mapped, server, touches>>

\* The app is killed.
Kill ==
    /\ pass.stage # "idle"
    /\ failures < MaxFailures
    /\ failures' = failures + 1
    /\ pass' = Asleep
    /\ UNCHANGED <<row, saved, mapped, server, touches>>

-----------------------------------------------------------------------------
(* The user                                                                 *)

\* A save of the user: its version and what the server will say of it.
NewPayload(r, v) == [version |-> saved[r] + 1, verdict |-> v]
Saved(r) == saved' = [saved EXCEPT ![r] = @ + 1]

\* Offline, a change is saved for the first time.
Capture(r, v) ==
    /\ row[r].status = "absent"
    /\ \A q \in Rows : q < r /\ Table[q] = Table[r] => row[q].status # "absent"
    /\ Customer[r] # 0 => row[Customer[r]].status \notin {"absent", "discarded"}
    /\ row' = [row EXCEPT ![r] = [Absent EXCEPT !.status = "pending",
                                                !.payload = NewPayload(r, v)]]
    /\ Saved(r)
    /\ UNCHANGED <<mapped, server, pass, failures, touches>>

Touch == touches < MaxTouches /\ touches' = touches + 1

\* updatePendingFarmerPayload: a customer that is still queued is edited.
EditCustomer(r, v) ==
    /\ Table[r] \in {"farmer", "meet"} /\ Queued(r)
    /\ row' = [row EXCEPT ![r].status = "pending", ![r].payload = NewPayload(r, v)]
    /\ Touch /\ Saved(r)
    /\ UNCHANGED <<mapped, server, pass, failures>>

\* The changes of which there is one at a time: the profile, the plan and the
\* leave of a day.
OneAtATime == {"profile", "leave", "plan"}

\* upsertPendingVisitPlan, upsertPendingLeaveRequest,
\* savePendingProfileUpdateJson: offline, such a change is saved again and
\* takes the place of its row.
SaveAgain(r, v) ==
    /\ Table[r] \in OneAtATime /\ row[r].status # "absent"
    /\ row' = [row EXCEPT ![r] = [Absent EXCEPT !.status = "pending",
                                                !.payload = NewPayload(r, v)]]
    /\ Touch /\ Saved(r)
    /\ UNCHANGED <<mapped, server, pass, failures>>

\* savePlan, updateProfile, markLeave: online, the save goes past the queue.
SaveOnline(r) ==
    /\ Table[r] \in OneAtATime /\ row[r].status # "absent"
    /\ "ok" \in Verdicts[r] /\ ~Unresolved(r)
    /\ Table[r] = "leave" => server[r] = 0
    /\ server' = [server EXCEPT ![r] = saved[r] + 1]
    /\ Touch /\ Saved(r)
    /\ UNCHANGED <<row, mapped, pass, failures>>

\* The Needs Attention screen: Retry...
RetryByHand(r) ==
    /\ row[r].status = "attention"
    /\ row' = [row EXCEPT ![r].status = "pending"]
    /\ Touch
    /\ UNCHANGED <<saved, mapped, server, pass, failures>>

\* ...and Discard, which deletes the row.
Discard(r) ==
    /\ row[r].status = "attention"
    /\ row' = [row EXCEPT ![r].status = "discarded"]
    /\ Touch
    /\ UNCHANGED <<saved, mapped, server, pass, failures>>

-----------------------------------------------------------------------------
(* The specification                                                        *)

Init ==
    /\ row = [r \in Rows |-> Absent]
    /\ saved = [r \in Rows |-> 0]
    /\ mapped = {}
    /\ server = [r \in Rows |-> 0]
    /\ pass = Asleep
    /\ failures = 0
    /\ touches = 0

\* What a pass does by itself, its requests included.
PassStep ==
    \/ NextStage
    \/ Skip
    \/ Post
    \/ Serve
    \/ Land
    \/ SetAside
    \/ Refuse

UserStep(r) ==
    \/ \E v \in Verdicts[r] : Capture(r, v) \/ EditCustomer(r, v) \/ SaveAgain(r, v)
    \/ SaveOnline(r)
    \/ RetryByHand(r)
    \/ Discard(r)

Next ==
    \/ StartPass
    \/ PassStep
    \/ Lose
    \/ Kill
    \/ \E r \in Rows : UserStep(r)

Spec == Init /\ [][Next]_vars

\* The phone is online long enough for a pass again and again, and the
\* heartbeat of 60 s or the connectivity listener then starts one.
Fairness == WF_vars(StartPass) /\ WF_vars(PassStep)
FairSpec == Spec /\ Fairness

-----------------------------------------------------------------------------
(* Properties                                                               *)

Versions == 0..(MaxTouches + 1)
Payload == [version : Versions, verdict : {"none", "ok", "invalid", "refused"}]

\* Every variable holds what the code can put in it: in particular a profile
\* edit or a location is never set aside, and no retry count passes its cap
\* by more than the attempts the user asked for.
TypeOK ==
    /\ row \in [Rows -> [status : {"absent", "pending", "failed", "attention",
                                   "landed", "discarded"},
                         retries : 0..(MaxRetries + MaxTouches),
                         payload : Payload]]
    /\ \A r \in Rows : Table[r] \in {"profile", "location"} =>
           row[r].status # "attention" /\ row[r].retries = 0
    /\ saved \in [Rows -> Versions] /\ server \in [Rows -> Versions]
    /\ mapped \subseteq Rows
    /\ pass \in [stage : {"idle", "start"} \cup Tables, rest : SUBSET Rows,
                 payload : [Rows -> Payload],
                 phase : {"ready", "sent", "ok", "invalid", "refused"}]
    /\ failures \in 0..MaxFailures /\ touches \in 0..MaxTouches

\* A row leaves the queue only when the server has it or the user gave it up,
\* whatever answers a batch got and whatever came in between.
LeavesOnceLanded == \A r \in Rows : row[r].status = "landed" => server[r] # 0

\* A visit or a plan reaches the server only after the customer it refers to,
\* whatever became of the customer's own upload.
CustomerComesFirst ==
    \A r \in Rows : server[r] # 0 /\ Customer[r] # 0 => server[Customer[r]] # 0

\* A profile edit the server refuses ends every pass before the other tables,
\* and nothing counts how often.
Starved ==
    \E q \in Rows : /\ Table[q] = "profile" /\ row[q].status = "pending"
                   /\ row[q].payload.verdict = "refused"

\* A failed action on a plan's item is out of sight of every later pass.
OutOfSight(r) == Table[r] = "action" /\ row[r].status = "failed"

\* Every row that has a retry count and does not wait for its customer is
\* uploaded, set aside or given up in the end: what the server refuses uses up
\* its retries and then lets the rows behind it pass.  The code has two gaps:
\* an action on a plan's item stays where its first failure left it, and a
\* refused profile edit holds up everything for as long as it is queued.
Settles ==
    <>[](\A r \in {q \in Rows : Table[q] \notin {"profile", "location"}} :
            \/ row[r].status \in {"absent", "landed", "attention", "discarded"}
            \/ Unresolved(r)
            \/ OutOfSight(r)
            \/ Starved)

===============================================================================
