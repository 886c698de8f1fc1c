------------------------------ MODULE VisitSync ------------------------------
(***************************************************************************)
(* One visit that was checked in offline, against a customer that was      *)
(* created offline too, on its way from the phone's SQLite queue to the    *)
(* server (mobile sync_engine.dart, database_helper.dart and               *)
(* visit_repository.dart; app/services/visit_service.py).                  *)
(*                                                                         *)
(* The queue row holds the latest unsent payload of each step of the       *)
(* guided flow and a list of orders.  A pass of the engine posts the       *)
(* customer, the check-in, then the steps in their fixed order, and clears *)
(* each one when its response arrives.  Every await is a point where the   *)
(* user's own writes to the row, another pass, a lost message or the death *)
(* of the app may come in between.                                         *)
(*                                                                         *)
(* A customer and a visit that fail too often are set aside for the user,  *)
(* each by its own count; the visit of a customer who was set aside waits  *)
(* with him, untouched and uncounted.                                      *)
(*                                                                         *)
(* Location remark, organisation answers and the vet request are the same  *)
(* upsert as the notes, which stand for them.  What the server refuses is  *)
(* the subject of SyncQueue, not of this module.                           *)
(***************************************************************************)
EXTENDS Naturals, Sequences

CONSTANTS
    Passes,      \* the syncNow calls that may be alive at once
    MaxNotes,    \* how often the user may save the notes step
    MaxOrders,   \* how many orders the user may capture
    MaxFailures, \* lost messages and app kills
    MaxRetries,  \* farmerMaxAutoRetries and visitMaxAutoRetries, both 20
    Quiet        \* the user saves only while no pass runs

ASSUME BoundsAssumption ==
    /\ {MaxNotes, MaxOrders, MaxFailures} \subseteq Nat
    /\ MaxRetries \in Nat \ {0}
    /\ Quiet \in BOOLEAN

VARIABLES
    farmer,   \* the pending_farmers row and the customer's id_mappings entry
    row,      \* the pending_visits row
    server,   \* what the server committed
    saved,    \* what the user was told is saved
    user,     \* where a save of the user is
    pass,     \* the passes
    running,  \* SyncEngine._running
    online,   \* ConnectivityService.current
    failures  \* lost messages and app kills so far

vars == <<farmer, row, server, saved, user, pass, running, online, failures>>
device == <<farmer, row, saved, user, online>>

-----------------------------------------------------------------------------
(* The queue row                                                            *)

Fields == {"notes", "livestock", "complete"}
Stages == {"idle", "farmer", "checkin", "orders", "close"} \cup Fields

\* Mutant: the visit is completed before its orders are posted.
CompleteFirst ==
    [farmer |-> "checkin", checkin |-> "notes", notes |-> "livestock",
     livestock |-> "complete", complete |-> "orders", orders |-> "close"]

\* _syncVisitSubActions: the fixed order of the guided flow
Following ==
    [farmer |-> "checkin", checkin |-> "notes", notes |-> "livestock",
     livestock |-> "orders", orders |-> "complete", complete |-> "close"]

OrderIds == 1..MaxOrders
MaxSaves(f) == IF f = "notes" THEN MaxNotes ELSE 1

\* A field holds the number of the save it came from, 0 for NULL.
Empty == [f \in Fields |-> 0]
Deleted == [here |-> FALSE, known |-> FALSE, status |-> "pending",
            retries |-> 0, field |-> Empty, orders |-> << >>]
CheckedIn == [Deleted EXCEPT !.here = TRUE]

\* visitFullySynced
FullySynced == row.known /\ row.field = Empty /\ row.orders = << >>

\* A write WHERE local_id = ?: no effect on a deleted row.
Update(new) == row' = IF row.here THEN new ELSE row

\* Mutant: what failed is not requeued.
NotRequeued(r) == r

\* requeueFailedFarmers and requeueFailedVisits
Requeued(r) == [r EXCEPT !.status = IF @ = "failed" THEN "pending" ELSE @]

\* markFarmerTransientFailure and markVisitTransientFailure
Failed(r) == [r EXCEPT !.retries = @ + 1,
                       !.status = IF r.retries + 1 >= MaxRetries
                                  THEN "attention" ELSE "failed"]

-----------------------------------------------------------------------------
(* Passes                                                                   *)

\* `at` is the step of the pass.  Its phases are ready (the next thing is to
\* read the table), sent, served (the server is done, the response is on its
\* way), replied, and half (between two local writes).  `sent` is the save
\* that was posted, `list` the orders to post and `rest` the orders to store.
Asleep == [at |-> "idle", phase |-> "ready", sent |-> 0,
           list |-> << >>, rest |-> << >>]

Active(p) == pass[p].at # "idle"
At(p, stage, phase) == pass[p].at = stage /\ pass[p].phase = phase
Becomes(p, r) == pass' = [pass EXCEPT ![p] = r]
Proceed(p) == Becomes(p, [Asleep EXCEPT !.at = Following[pass[p].at]])
Post(p, n) == Becomes(p, [pass[p] EXCEPT !.phase = "sent", !.sent = n])

\* The finally of syncNow, whoever holds the mutex by now.
EndPass(p) == Becomes(p, Asleep) /\ running' = FALSE

\* syncNow up to the requeueing
StartPass(p) ==
    /\ ~Active(p) /\ ~running /\ online
    /\ Quiet => user.at = "idle"
    /\ running' = TRUE
    /\ Becomes(p, [Asleep EXCEPT !.at = "farmer"])
    /\ farmer' = Requeued(farmer)
    /\ row' = Requeued(row)
    /\ UNCHANGED <<server, saved, user, online, failures>>

\* The watchdog of a pass that is older than 45 s clears the mutex.
Watchdog(p) ==
    /\ Active(p) /\ running
    /\ running' = FALSE
    /\ UNCHANGED <<device, server, pass, failures>>

\* _syncFarmers: getPendingFarmers leaves a customer out who waits for the user.
SyncFarmer(p) ==
    /\ At(p, "farmer", "ready")
    /\ IF farmer.queued /\ farmer.status = "pending" THEN Post(p, 0) ELSE Proceed(p)
    /\ UNCHANGED <<device, server, running, failures>>

\* deletePendingFarmer
Unqueued == [farmer EXCEPT !.queued = FALSE, !.status = "pending", !.retries = 0]

\* Mutant: the customer's row is deleted before its server id is written.
DeleteThenMap(p) ==
    /\ pass[p].at = "farmer"
    /\ \/ /\ pass[p].phase = "replied"
          /\ farmer' = Unqueued
          /\ Becomes(p, [pass[p] EXCEPT !.phase = "half"])
       \/ /\ pass[p].phase = "half"
          /\ farmer' = [farmer EXCEPT !.mapped = TRUE]
          /\ Proceed(p)
    /\ UNCHANGED <<row, server, saved, user, running, online, failures>>

\* setIdMapping, then deletePendingFarmer
FarmerLanded(p) ==
    /\ pass[p].at = "farmer"
    /\ \/ /\ pass[p].phase = "replied"
          /\ farmer' = [farmer EXCEPT !.mapped = TRUE]
          /\ Becomes(p, [pass[p] EXCEPT !.phase = "half"])
       \/ /\ pass[p].phase = "half"
          /\ farmer' = Unqueued
          /\ Proceed(p)
    /\ UNCHANGED <<row, server, saved, user, running, online, failures>>

\* _syncVisits and _checkInPendingVisit: a row that is not pending, or whose
\* customer has no server id yet, is left for a later pass.
SyncVisit(p) ==
    /\ At(p, "checkin", "ready")
    /\ IF row.here /\ row.status = "pending" /\ (row.known \/ farmer.mapped)
       THEN /\ IF row.known THEN Proceed(p) ELSE Post(p, 0)
            /\ UNCHANGED running
       ELSE EndPass(p)
    /\ UNCHANGED <<device, server, failures>>

CheckInLanded(p) ==
    /\ At(p, "checkin", "replied")
    /\ Update([row EXCEPT !.known = TRUE])
    /\ Proceed(p)
    /\ UNCHANGED <<farmer, server, saved, user, running, online, failures>>

SyncField(p, f) ==
    /\ At(p, f, "ready")
    /\ IF row.field[f] # 0 THEN Post(p, row.field[f]) ELSE Proceed(p)
    /\ UNCHANGED <<device, server, running, failures>>

\* Mutant: the field is not cleared.
FieldStays(p, f) ==
    /\ At(p, f, "replied")
    /\ Proceed(p)
    /\ UNCHANGED <<device, server, running, failures>>

\* clearVisitField
FieldLanded(p, f) ==
    /\ At(p, f, "replied")
    /\ Update([row EXCEPT !.field[f] = 0])
    /\ Proceed(p)
    /\ UNCHANGED <<farmer, server, saved, user, running, online, failures>>

\* The list is read once; its orders are posted one after the other.
SyncOrders(p) ==
    /\ At(p, "orders", "ready")
    /\ IF row.orders # << >>
       THEN Becomes(p, [pass[p] EXCEPT !.phase = "sent", !.list = row.orders,
                                       !.sent = Head(row.orders)])
       ELSE Proceed(p)
    /\ UNCHANGED <<device, server, running, failures>>

NextOrder(p) ==
    LET left == Tail(pass[p].list)
    IN  IF left = << >>
        THEN Proceed(p)
        ELSE Becomes(p, [pass[p] EXCEPT !.phase = "sent", !.list = left,
                                        !.sent = Head(left)])

\* removeSyncedVisitOrders: the list is read again, less its first order...
OrderLanded(p) ==
    /\ At(p, "orders", "replied")
    /\ IF row.orders = << >>
       THEN NextOrder(p)
       ELSE Becomes(p, [pass[p] EXCEPT !.phase = "half", !.rest = Tail(row.orders)])
    /\ UNCHANGED <<device, server, running, failures>>

\* ...and stored.
StoreOrders(p) ==
    /\ At(p, "orders", "half")
    /\ Update([row EXCEPT !.orders = pass[p].rest])
    /\ NextOrder(p)
    /\ UNCHANGED <<farmer, server, saved, user, running, online, failures>>

\* The row is read again, and deleted when nothing is left in it.
CloseVisit(p) ==
    /\ pass[p].at = "close"
    /\ IF pass[p].phase = "ready" /\ row.here /\ FullySynced
       THEN Becomes(p, [pass[p] EXCEPT !.phase = "half"]) /\ UNCHANGED <<row, running>>
       ELSE /\ row' = IF pass[p].phase = "half" THEN Deleted ELSE row
            /\ EndPass(p)
    /\ UNCHANGED <<farmer, server, saved, user, online, failures>>

-----------------------------------------------------------------------------
(* The network and the server                                               *)

\* A 20 s timeout, a dropped connection or a 5xx: the request was served or
\* not, the row it was for counts one failure more, and the pass is aborted.
Lose(p) ==
    /\ pass[p].phase \in {"sent", "served"}
    /\ failures < MaxFailures
    /\ failures' = failures + 1
    /\ IF pass[p].at = "farmer"
       THEN farmer' = (IF farmer.queued THEN Failed(farmer) ELSE farmer) /\ row' = row
       ELSE row' = (IF row.here THEN Failed(row) ELSE row) /\ farmer' = farmer
    /\ EndPass(p)
    /\ UNCHANGED <<server, saved, user, online>>

\* The customer, the check-in and each order carry a client_id: the server
\* returns the row it already has.
ServeOnce(p) ==
    \/ pass[p].at = "farmer" /\ server' = [server EXCEPT !.farmer = TRUE]
    \/ pass[p].at = "checkin" /\ server' = [server EXCEPT !.visit = TRUE]
    \/ pass[p].at = "orders" /\ server' = [server EXCEPT !.orders = @ \cup {pass[p].sent}]

\* The other steps are applied each time: upsert_notes overwrites,
\* upsert_livestock and complete_visit insert a row.
ServeField(p) ==
    /\ pass[p].at \in Fields
    /\ server' = [server EXCEPT !.got[pass[p].at] = Append(@, pass[p].sent)]

Serve(p) ==
    /\ pass[p].phase = "sent"
    /\ ServeOnce(p) \/ ServeField(p)
    /\ Becomes(p, [pass[p] EXCEPT !.phase = "served"])
    /\ UNCHANGED <<device, running, failures>>

Reply(p) ==
    /\ pass[p].phase = "served"
    /\ Becomes(p, [pass[p] EXCEPT !.phase = "replied"])
    /\ UNCHANGED <<device, server, running, failures>>

\* ConnectivityService._check flips `current`.
SwitchOnline ==
    /\ online' = ~online
    /\ UNCHANGED <<farmer, row, server, saved, user, pass, running, failures>>

-----------------------------------------------------------------------------
(* The user                                                                 *)

NoSave == [at |-> "idle", what |-> "order", list |-> << >>]

\* _resolvePendingVisitLocalId finds the row of the visit, or refuses.  The
\* flow ends with `complete`.
BeginSave(what) ==
    /\ user.at = "idle" /\ ~online /\ row.here
    /\ saved.field["complete"] = 0
    /\ IF what = "order" THEN saved.orders < MaxOrders
                         ELSE saved.field[what] < MaxSaves(what)
    /\ Quiet => \A p \in Passes : ~Active(p)
    /\ user' = [NoSave EXCEPT !.at = "resolved", !.what = what]
    /\ UNCHANGED <<farmer, row, server, saved, pass, running, online, failures>>

\* _setVisitField
WriteField ==
    /\ user.at = "resolved" /\ user.what # "order"
    /\ LET n == saved.field[user.what] + 1
       IN  /\ saved' = [saved EXCEPT !.field[user.what] = n]
           /\ Update([row EXCEPT !.field[user.what] = n, !.status = "pending"])
    /\ user' = NoSave
    /\ UNCHANGED <<farmer, server, pass, running, online, failures>>

\* appendPendingVisitOrder: the list is read...
ReadOrders ==
    /\ user.at = "resolved" /\ user.what = "order"
    /\ user' = [user EXCEPT !.at = "read", !.list = row.orders]
    /\ UNCHANGED <<farmer, row, server, saved, pass, running, online, failures>>

\* Mutant: only the latest order is kept.
WriteLastOrder ==
    /\ user.at = "read"
    /\ saved' = [saved EXCEPT !.orders = @ + 1]
    /\ Update([row EXCEPT !.orders = <<saved.orders + 1>>, !.status = "pending"])
    /\ user' = NoSave
    /\ UNCHANGED <<farmer, server, pass, running, online, failures>>

\* ...and written back with the new order at its end.
WriteOrders ==
    /\ user.at = "read"
    /\ saved' = [saved EXCEPT !.orders = @ + 1]
    /\ Update([row EXCEPT !.orders = Append(user.list, saved.orders + 1),
                          !.status = "pending"])
    /\ user' = NoSave
    /\ UNCHANGED <<farmer, server, pass, running, online, failures>>

\* requeueFarmer and requeueVisit, from the Needs Attention screen
RetryByHand ==
    /\ \/ /\ farmer.queued /\ farmer.status = "attention"
          /\ farmer' = [farmer EXCEPT !.status = "pending"] /\ row' = row
       \/ /\ row.here /\ row.status = "attention"
          /\ row' = [row EXCEPT !.status = "pending"] /\ farmer' = farmer
    /\ UNCHANGED <<server, saved, user, pass, running, online, failures>>

\* The app is killed; SQLite keeps what was written.
Kill ==
    /\ failures < MaxFailures
    /\ failures' = failures + 1
    /\ pass' = [p \in Passes |-> Asleep]
    /\ running' = FALSE
    /\ user' = NoSave
    /\ UNCHANGED <<farmer, row, server, saved, online>>

-----------------------------------------------------------------------------
(* The specification                                                        *)

\* The customer and the check-in were just queued.
Init ==
    /\ farmer = [queued |-> TRUE, mapped |-> FALSE, status |-> "pending", retries |-> 0]
    /\ row = CheckedIn
    /\ server = [farmer |-> FALSE, visit |-> FALSE, orders |-> {},
                 got |-> [f \in Fields |-> << >>]]
    /\ saved = [field |-> Empty, orders |-> 0]
    /\ user = NoSave
    /\ pass = [p \in Passes |-> Asleep]
    /\ running = FALSE
    /\ online = FALSE
    /\ failures = 0

\* What a pass does by itself, its requests included.
PassStep(p) ==
    \/ SyncFarmer(p)
    \/ FarmerLanded(p)
    \/ SyncVisit(p)
    \/ CheckInLanded(p)
    \/ \E f \in Fields : SyncField(p, f) \/ FieldLanded(p, f)
    \/ SyncOrders(p)
    \/ OrderLanded(p)
    \/ StoreOrders(p)
    \/ CloseVisit(p)
    \/ Serve(p)
    \/ Reply(p)

UserStep == WriteField \/ ReadOrders \/ WriteOrders

Next ==
    \/ \E p \in Passes : StartPass(p) \/ Watchdog(p) \/ PassStep(p) \/ Lose(p)
    \/ \E what \in Fields \cup {"order"} : BeginSave(what)
    \/ UserStep
    \/ RetryByHand
    \/ SwitchOnline
    \/ Kill

Spec == Init /\ [][Next]_vars

\* A pass and a save that began go on, and each time the phone is online
\* again the listener of the engine or its 60 s heartbeat starts a pass.
Fairness ==
    /\ \A p \in Passes : WF_vars(PassStep(p)) /\ SF_vars(StartPass(p))
    /\ WF_vars(UserStep)

\* The phone comes online again and again.
FairSpec == Spec /\ Fairness /\ []<>online

-----------------------------------------------------------------------------
(* Properties                                                               *)

Saves == 0..(MaxNotes + 1)

\* Every variable holds what the code can put in it, and no row has been
\* retried more often than messages were lost.
TypeOK ==
    /\ farmer \in [queued : BOOLEAN, mapped : BOOLEAN,
                   status : {"pending", "failed", "attention"}, retries : 0..failures]
    /\ row \in [here : BOOLEAN, known : BOOLEAN,
                status : {"pending", "failed", "attention"}, retries : 0..failures,
                field : [Fields -> Saves], orders : Seq(OrderIds)]
    /\ server \in [farmer : BOOLEAN, visit : BOOLEAN, orders : SUBSET OrderIds,
                   got : [Fields -> Seq(Saves)]]
    /\ saved \in [field : [Fields -> Saves], orders : 0..MaxOrders]
    /\ user \in [at : {"idle", "resolved", "read"},
                 what : Fields \cup {"order"}, list : Seq(OrderIds)]
    /\ pass \in [Passes -> [at : Stages, phase : {"ready", "sent", "served", "replied", "half"},
                            sent : Nat, list : Seq(OrderIds), rest : Seq(OrderIds)]]
    /\ running \in BOOLEAN /\ online \in BOOLEAN
    /\ failures \in 0..MaxFailures

Landed(f, n) == \E i \in DOMAIN server.got[f] : server.got[f][i] = n
Queued(o) == \E i \in DOMAIN row.orders : row.orders[i] = o

\* What the user was told is saved is on the server or still in the queue,
\* through lost responses, kills between two writes and retries: a step's
\* latest save and every order.
NothingSavedIsLost ==
    /\ \A f \in Fields : saved.field[f] # 0 =>
           row.field[f] = saved.field[f] \/ Landed(f, saved.field[f])
    /\ \A o \in 1..saved.orders : Queued(o) \/ o \in server.orders

\* "the backend expects the visit's other data to already exist before it's
\* marked complete" (_syncVisitSubActions): once the visit is completed on
\* the server, everything saved before it is there too.
CompleteComesLast ==
    server.got["complete"] # << >> =>
        /\ server.orders = 1..saved.orders
        /\ \A f \in Fields : saved.field[f] # 0 => Landed(f, saved.field[f])

\* A queued visit can always be posted some day: its customer is on the
\* server under an id the phone knows, or is itself still queued.
CustomerStaysResolvable ==
    row.here /\ ~row.known => farmer.queued \/ farmer.mapped

\* What was completed was never completed twice, and no livestock profile
\* doubled, when no response was ever lost.
OnceUnlessLost ==
    failures = 0 => \A f \in {"livestock", "complete"} : Len(server.got[f]) <= 1

WaitsForTheUser(r) == r.status = "attention" /\ r.retries >= MaxRetries

\* Whatever is lost on the way, the queue drains: in the end the row is gone,
\* or it used up its retries and waits for the user, or its customer did, and
\* no server id is known for him (_checkInPendingVisit returns null for ever).
Drains ==
    <>[](\/ ~row.here
         \/ WaitsForTheUser(row)
         \/ farmer.queued /\ ~farmer.mapped /\ WaitsForTheUser(farmer))

-----------------------------------------------------------------------------
(* What the repository says and the code does not do                        *)

\* _syncVisitSubActions: "Remove each order from the queue immediately after
\* it lands": an order that leaves the queue is on the server.
OrdersLeaveOnceLanded ==
    [][\A o \in OrderIds :
          Queued(o) /\ ~Queued(o)' => o \in server.orders]_vars

===============================================================================
