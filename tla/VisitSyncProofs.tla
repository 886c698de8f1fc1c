---------------------------- MODULE VisitSyncProofs ----------------------------
(***************************************************************************)
(* Proofs about VisitSync, for any number of overlapping passes, saves,    *)
(* orders, retries and failures: type correctness, and that the customer   *)
(* of a queued visit never becomes unresolvable.                           *)
(*                                                                         *)
(* The argument for the customer: setIdMapping comes before                *)
(* deletePendingFarmer, so a pass between the two has the mapping behind   *)
(* it, and no pass ever undoes another's mapping.                          *)
(***************************************************************************)
EXTENDS VisitSync, TLAPS

Statuses == {"pending", "failed", "attention"}
Phases == {"ready", "sent", "served", "replied", "half"}

FarmerState == [queued : BOOLEAN, mapped : BOOLEAN, status : Statuses, retries : Nat]
RowState ==
    [here : BOOLEAN, known : BOOLEAN, status : Statuses, retries : Nat,
     field : [Fields -> Saves], orders : Seq(OrderIds)]
ServerState ==
    [farmer : BOOLEAN, visit : BOOLEAN, orders : SUBSET OrderIds,
     got : [Fields -> Seq(Saves)]]
SavedState == [field : [Fields -> Saves], orders : 0..MaxOrders]
UserState ==
    [at : {"idle", "resolved", "read"}, what : Fields \cup {"order"},
     list : Seq(OrderIds)]
PassState ==
    [at : Stages, phase : Phases, sent : Nat,
     list : Seq(OrderIds), rest : Seq(OrderIds)]

\* What a pass posted is something the user saved.
Posted(r) ==
    /\ r.at \in Fields => r.sent \in Saves
    /\ r.at = "orders" /\ r.phase # "ready" => r.list # << >> /\ r.sent \in OrderIds

\* The pass has the server id of the customer written down.
HasMapped(r) == r.at = "farmer" /\ r.phase = "half"

PassInv ==
    /\ pass \in [Passes -> PassState]
    /\ \A p \in Passes : Posted(pass[p]) /\ (HasMapped(pass[p]) => farmer.mapped)

FarmerInv ==
    /\ farmer \in FarmerState /\ farmer.retries <= failures
    /\ farmer.queued \/ farmer.mapped

RowInv ==
    /\ row \in RowState /\ row.retries <= failures
    /\ failures \in 0..MaxFailures

\* A save that began is within the bounds.
UserInv ==
    /\ saved \in SavedState /\ user \in UserState
    /\ user.at = "read" => user.what = "order"
    /\ user.at # "idle" =>
           IF user.what = "order" THEN saved.orders < MaxOrders
                                  ELSE saved.field[user.what] < MaxSaves(user.what)

IInv ==
    /\ PassInv
    /\ FarmerInv
    /\ RowInv
    /\ UserInv
    /\ server \in ServerState
    /\ running \in BOOLEAN /\ online \in BOOLEAN

-----------------------------------------------------------------------------
(* Passes                                                                   *)

LEMMA Zero == 0 \in Saves
  BY BoundsAssumption DEF Saves

LEMMA NoOrders == << >> \in Seq(OrderIds)
  OBVIOUS

LEMMA AsleepType == Asleep \in PassState /\ Posted(Asleep) /\ ~HasMapped(Asleep)
  BY Zero, NoOrders DEF PassState, Phases, Posted, HasMapped, Asleep, Stages, Fields

LEMMA AsleepAt ==
    ASSUME NEW stage \in Stages
    PROVE  /\ [Asleep EXCEPT !.at = stage] \in PassState
           /\ Posted([Asleep EXCEPT !.at = stage])
           /\ ~HasMapped([Asleep EXCEPT !.at = stage])
<1> DEFINE r == [Asleep EXCEPT !.at = stage]
<1>1. /\ r \in PassState /\ r.at = stage
      /\ r.phase = Asleep.phase /\ r.sent = Asleep.sent
  BY AsleepType, ZenonT(60) DEF PassState
<1>2. Asleep.phase = "ready" /\ Asleep.sent = 0
  BY DEF Asleep
<1> HIDE DEF r
<1>3. r \in PassState /\ Posted(r) /\ ~HasMapped(r)
  BY <1>1, <1>2, Zero DEF Posted, HasMapped
<1> QED
  BY <1>3 DEF r

\* A pass that becomes r, when nobody unmaps the customer.
LEMMA PassKept ==
    ASSUME PassInv, NEW p \in Passes, NEW r \in PassState, Becomes(p, r),
           Posted(r), HasMapped(r) => farmer'.mapped,
           farmer.mapped => farmer'.mapped
    PROVE  PassInv'
<1>1. /\ pass' \in [Passes -> PassState] /\ pass'[p] = r
      /\ \A q \in Passes : q # p => pass'[q] = pass[q]
  BY DEF Becomes, PassInv
<1> QED
  BY <1>1 DEF PassInv

LEMMA PassUnchanged ==
    ASSUME PassInv, UNCHANGED <<pass, farmer>> PROVE PassInv'
  BY DEF PassInv

LEMMA ProceedKept ==
    ASSUME PassInv, NEW p \in Passes, pass[p].at \in DOMAIN Following, Proceed(p),
           farmer.mapped => farmer'.mapped
    PROVE  PassInv'
<1> DEFINE stage == Following[pass[p].at]
           r == [Asleep EXCEPT !.at = stage]
<1>1. stage \in Stages
  BY DEF Following, Stages, Fields
<1> HIDE DEF stage
<1>2. r \in PassState /\ Posted(r) /\ ~HasMapped(r)
  BY <1>1, AsleepAt
<1>3. Becomes(p, r)
  BY DEF Proceed, stage
<1> HIDE DEF r
<1> QED
  BY <1>2, <1>3, PassKept

LEMMA EndKept ==
    ASSUME PassInv, NEW p \in Passes, EndPass(p), farmer.mapped => farmer'.mapped
    PROVE  PassInv' /\ running' \in BOOLEAN
  BY AsleepType, PassKept DEF EndPass

\* A pass that goes to another phase of its stage, with what it posted.
LEMMA PhaseKept ==
    ASSUME PassInv, NEW p \in Passes, NEW phase \in Phases,
           Becomes(p, [pass[p] EXCEPT !.phase = phase]),
           pass[p].phase # "ready",
           pass[p].at = "farmer" /\ phase = "half" => farmer'.mapped,
           farmer.mapped => farmer'.mapped
    PROVE  PassInv'
<1> DEFINE r == [pass[p] EXCEPT !.phase = phase]
<1>1. pass[p] \in PassState /\ Posted(pass[p])
  BY DEF PassInv
<1>2. /\ r \in PassState /\ r.at = pass[p].at /\ r.phase = phase
      /\ r.sent = pass[p].sent /\ r.list = pass[p].list
  BY <1>1, ZenonT(60) DEF PassState
<1>3. Becomes(p, r)
  OBVIOUS
<1> HIDE DEF r
<1>4. Posted(r)
  BY <1>1, <1>2 DEF Posted
<1> QED
  BY <1>2, <1>3, <1>4, PassKept DEF HasMapped

\* A pass that posts n, outside the orders.
LEMMA PostKept ==
    ASSUME PassInv, NEW p \in Passes, NEW n \in Saves, Post(p, n),
           pass[p].at # "orders", UNCHANGED farmer
    PROVE  PassInv'
<1> DEFINE r == [pass[p] EXCEPT !.phase = "sent", !.sent = n]
<1>1. pass[p] \in PassState
  BY DEF PassInv
<1>2. n \in Nat
  BY BoundsAssumption DEF Saves
<1>3. r \in PassState /\ r.at = pass[p].at /\ r.phase = "sent" /\ r.sent = n
  BY <1>1, <1>2, ZenonT(60) DEF PassState, Phases
<1>4. Becomes(p, r)
  BY DEF Post
<1> HIDE DEF r
<1> QED
  BY <1>3, <1>4, PassKept DEF Posted, HasMapped

\* A pass that posts the first of some orders.
LEMMA PostOrderKept ==
    ASSUME PassInv, NEW p \in Passes, pass[p].at = "orders",
           NEW list \in Seq(OrderIds), list # << >>,
           Becomes(p, [pass[p] EXCEPT !.phase = "sent", !.list = list,
                                      !.sent = Head(list)]),
           farmer.mapped => farmer'.mapped
    PROVE  PassInv'
<1> DEFINE r == [pass[p] EXCEPT !.phase = "sent", !.list = list, !.sent = Head(list)]
<1>1. pass[p] \in PassState
  BY DEF PassInv
<1>2. Head(list) \in OrderIds /\ Head(list) \in Nat
  <2>1. Head(list) \in OrderIds
    <3> HIDE DEF r
    <3> QED
      OBVIOUS
  <2> QED
    BY <2>1 DEF OrderIds
<1>3. /\ r \in PassState /\ r.at = "orders" /\ r.sent = Head(list) /\ r.list = list
  BY <1>1, <1>2, ZenonT(60) DEF PassState, Phases
<1>4. Becomes(p, r)
  OBVIOUS
<1> HIDE DEF r
<1>5. Posted(r)
  BY <1>2, <1>3 DEF Posted, Fields
<1> QED
  BY <1>3, <1>4, <1>5, PassKept DEF HasMapped

LEMMA NextOrderKept ==
    ASSUME PassInv, NEW p \in Passes, pass[p].at = "orders", pass[p].phase # "ready",
           NextOrder(p), UNCHANGED farmer
    PROVE  PassInv'
<1> DEFINE left == Tail(pass[p].list)
<1>1. pass[p].list \in Seq(OrderIds) /\ pass[p].list # << >>
  BY DEF PassInv, PassState, Posted
<1>2. left \in Seq(OrderIds)
  BY <1>1
<1>3. CASE left = << >>
  BY <1>3, ProceedKept DEF NextOrder, Following
<1>4. CASE left # << >>
  <2>1. Becomes(p, [pass[p] EXCEPT !.phase = "sent", !.list = left, !.sent = Head(left)])
    BY <1>4 DEF NextOrder
  <2> HIDE DEF left
  <2> QED
    BY <1>2, <1>4, <2>1, PostOrderKept
<1> QED
  BY <1>3, <1>4

-----------------------------------------------------------------------------
(* The row                                                                  *)

\* A write to the row that keeps its type and its retries.
LEMMA UpdateKept ==
    ASSUME RowInv, NEW new \in RowState, Update(new), new.retries = row.retries,
           UNCHANGED failures
    PROVE  RowInv'
  BY DEF RowInv, Update

LEMMA RowUnchanged == ASSUME RowInv, UNCHANGED <<row, failures>> PROVE RowInv'
  BY DEF RowInv

LEMMA DeletedType == Deleted \in RowState /\ Deleted.retries = 0
<1>1. Empty \in [Fields -> Saves]
  BY Zero DEF Empty
<1> QED
  BY <1>1, NoOrders DEF Deleted, RowState, Statuses

LEMMA WithStatus ==
    ASSUME row \in RowState, NEW status \in Statuses
    PROVE  LET new == [row EXCEPT !.status = status]
           IN  new \in RowState /\ new.retries = row.retries
  BY ZenonT(60) DEF RowState

LEMMA RequeuedKept ==
    ASSUME RowInv, row' = Requeued(row), UNCHANGED failures PROVE RowInv'
<1> DEFINE status == IF row.status = "failed" THEN "pending" ELSE row.status
           new == [row EXCEPT !.status = status]
<1>1. status \in Statuses /\ row \in RowState
  BY DEF RowInv, RowState, Statuses
<1> HIDE DEF status
<1>2. new \in RowState /\ new.retries = row.retries
  BY <1>1, WithStatus
<1>3. row' = new
  BY DEF Requeued, status
<1> HIDE DEF new
<1> QED
  BY <1>2, <1>3 DEF RowInv

\* A row is retried once more after a failure.
LEMMA FailedKept ==
    ASSUME RowInv, row' = row \/ row' = Failed(row),
           failures < MaxFailures, failures' = failures + 1
    PROVE  RowInv'
<1> DEFINE count == row.retries + 1
           status == IF count >= MaxRetries THEN "attention" ELSE "failed"
           new == [row EXCEPT !.retries = count, !.status = status]
<1>1. row \in RowState /\ status \in Statuses /\ count \in Nat
  BY DEF RowInv, RowState, Statuses
<1>2. Failed(row) = new
  BY Zenon DEF Failed
<1> HIDE DEF count, status
<1>3. new \in RowState /\ new.retries = count
  BY <1>1, ZenonT(60) DEF RowState
<1> HIDE DEF new
<1>4. failures' \in 0..MaxFailures /\ failures \in Nat /\ row.retries \in Nat
  BY <1>1, BoundsAssumption DEF RowInv, RowState
<1>5. count <= failures' /\ row.retries <= failures'
  BY <1>4 DEF RowInv, count
<1> QED
  BY <1>1, <1>2, <1>3, <1>4, <1>5 DEF RowInv

LEMMA KnownKept ==
    ASSUME RowInv, Update([row EXCEPT !.known = TRUE]), UNCHANGED failures PROVE RowInv'
<1> DEFINE new == [row EXCEPT !.known = TRUE]
<1>1. new \in RowState /\ new.retries = row.retries
  BY ZenonT(60) DEF RowInv, RowState
<1>2. Update(new)
  OBVIOUS
<1> HIDE DEF new
<1> QED
  BY <1>1, <1>2, UpdateKept

\* A write to one field, with the status it leaves.
LEMMA FieldKept ==
    ASSUME RowInv, NEW f \in Fields, NEW n \in Saves, NEW status \in Statuses,
           Update([row EXCEPT !.field = [row.field EXCEPT ![f] = n], !.status = status]),
           UNCHANGED failures
    PROVE  RowInv'
<1> DEFINE fields == [row.field EXCEPT ![f] = n]
           new == [row EXCEPT !.field = fields, !.status = status]
<1>1. fields \in [Fields -> Saves]
  BY DEF RowInv, RowState
<1>2. Update(new)
  OBVIOUS
<1> HIDE DEF fields
<1>3. new \in RowState /\ new.retries = row.retries
  BY <1>1, ZenonT(60) DEF RowInv, RowState
<1> HIDE DEF new
<1> QED
  BY <1>2, <1>3, UpdateKept

LEMMA ClearedKept ==
    ASSUME RowInv, NEW f \in Fields, Update([row EXCEPT !.field[f] = 0]),
           UNCHANGED failures
    PROVE  RowInv'
<1> DEFINE fields == [row.field EXCEPT ![f] = 0]
           new == [row EXCEPT !.field = fields]
<1>1. fields \in [Fields -> Saves]
  BY Zero DEF RowInv, RowState
<1>2. Update(new)
  OBVIOUS
<1> HIDE DEF fields
<1>3. new \in RowState /\ new.retries = row.retries
  BY <1>1, ZenonT(60) DEF RowInv, RowState
<1> HIDE DEF new
<1> QED
  BY <1>2, <1>3, UpdateKept

LEMMA ListKept ==
    ASSUME RowInv, NEW list \in Seq(OrderIds), Update([row EXCEPT !.orders = list]),
           UNCHANGED failures
    PROVE  RowInv'
<1> DEFINE new == [row EXCEPT !.orders = list]
<1>1. new \in RowState /\ new.retries = row.retries
  BY ZenonT(60) DEF RowInv, RowState
<1>2. Update(new)
  OBVIOUS
<1> HIDE DEF new
<1> QED
  BY <1>1, <1>2, UpdateKept

LEMMA OrdersKept ==
    ASSUME RowInv, NEW list \in Seq(OrderIds), NEW status \in Statuses,
           Update([row EXCEPT !.orders = list, !.status = status]),
           UNCHANGED failures
    PROVE  RowInv'
<1> DEFINE new == [row EXCEPT !.orders = list, !.status = status]
<1>1. new \in RowState /\ new.retries = row.retries
  BY ZenonT(60) DEF RowInv, RowState
<1>2. Update(new)
  OBVIOUS
<1> HIDE DEF new
<1> QED
  BY <1>1, <1>2, UpdateKept

LEMMA UserUnchanged == ASSUME UserInv, UNCHANGED <<saved, user>> PROVE UserInv'
  BY DEF UserInv

-----------------------------------------------------------------------------
(* The customer                                                             *)

LEMMA FarmerUnchanged == ASSUME FarmerInv, UNCHANGED <<farmer, failures>> PROVE FarmerInv'
  BY DEF FarmerInv

\* A failure that is not the customer's.
LEMMA FarmerSpared ==
    ASSUME FarmerInv, RowInv, UNCHANGED farmer, failures' = failures + 1 PROVE FarmerInv'
<1>1. farmer.retries \in Nat /\ failures \in Nat /\ farmer.retries <= failures
  BY BoundsAssumption DEF FarmerInv, FarmerState, RowInv
<1>2. farmer.retries <= failures'
  BY <1>1
<1> QED
  BY <1>2 DEF FarmerInv

LEMMA FarmerWithStatus ==
    ASSUME farmer \in FarmerState, NEW status \in Statuses
    PROVE  LET new == [farmer EXCEPT !.status = status]
           IN  /\ new \in FarmerState /\ new.retries = farmer.retries
               /\ new.queued = farmer.queued /\ new.mapped = farmer.mapped
  BY ZenonT(60) DEF FarmerState

\* A write of the status only.
LEMMA FarmerRestated ==
    ASSUME FarmerInv, NEW status \in Statuses, farmer' = [farmer EXCEPT !.status = status],
           UNCHANGED failures
    PROVE  FarmerInv' /\ farmer'.mapped = farmer.mapped
<1> DEFINE new == [farmer EXCEPT !.status = status]
<1>1. /\ new \in FarmerState /\ new.retries = farmer.retries
      /\ new.queued = farmer.queued /\ new.mapped = farmer.mapped
  BY FarmerWithStatus DEF FarmerInv
<1>2. farmer' = new
  OBVIOUS
<1> HIDE DEF new
<1> QED
  BY <1>1, <1>2 DEF FarmerInv

LEMMA FarmerRequeued ==
    ASSUME FarmerInv, farmer' = Requeued(farmer), UNCHANGED failures
    PROVE  FarmerInv' /\ farmer'.mapped = farmer.mapped
<1> DEFINE status == IF farmer.status = "failed" THEN "pending" ELSE farmer.status
<1>1. status \in Statuses
  BY DEF FarmerInv, FarmerState, Statuses
<1>2. farmer' = [farmer EXCEPT !.status = status]
  BY Zenon DEF Requeued
<1> HIDE DEF status
<1> QED
  BY <1>1, <1>2, FarmerRestated

\* A failure of the customer's own post.
LEMMA FarmerFailed ==
    ASSUME FarmerInv, RowInv, farmer' = farmer \/ farmer' = Failed(farmer),
           failures' = failures + 1
    PROVE  FarmerInv' /\ farmer'.mapped = farmer.mapped
<1> DEFINE count == farmer.retries + 1
           status == IF count >= MaxRetries THEN "attention" ELSE "failed"
           new == [farmer EXCEPT !.retries = count, !.status = status]
<1>1. farmer \in FarmerState /\ status \in Statuses /\ count \in Nat
  BY DEF FarmerInv, FarmerState, Statuses
<1>2. Failed(farmer) = new
  BY Zenon DEF Failed
<1> HIDE DEF status
<1>3. farmer.retries \in Nat /\ failures \in Nat /\ farmer.retries <= failures
  BY <1>1, BoundsAssumption DEF FarmerInv, FarmerState, RowInv
<1>4. count <= failures'
  BY <1>3
<1> HIDE DEF count
<1>5. /\ new \in FarmerState /\ new.retries = count
      /\ new.queued = farmer.queued /\ new.mapped = farmer.mapped
  BY <1>1, ZenonT(60) DEF FarmerState
<1> HIDE DEF new
<1>6. CASE farmer' = farmer
  BY <1>6, FarmerSpared
<1>7. CASE farmer' = new
  BY <1>4, <1>5, <1>7 DEF FarmerInv
<1> QED
  BY <1>2, <1>6, <1>7

-----------------------------------------------------------------------------
(* The steps of a pass                                                      *)

LEMMA StartPassStep == ASSUME IInv, NEW p \in Passes, StartPass(p) PROVE IInv'
<1>1. [Asleep EXCEPT !.at = "farmer"] \in PassState
      /\ Posted([Asleep EXCEPT !.at = "farmer"]) /\ ~HasMapped([Asleep EXCEPT !.at = "farmer"])
  BY AsleepAt DEF Stages
<1>2. FarmerInv' /\ farmer'.mapped = farmer.mapped
  BY FarmerRequeued DEF IInv, StartPass
<1>3. PassInv'
  BY <1>1, <1>2, PassKept DEF IInv, StartPass
<1>4. RowInv'
  BY RequeuedKept DEF IInv, StartPass
<1> QED
  BY <1>2, <1>3, <1>4, UserUnchanged DEF IInv, StartPass

LEMMA WatchdogStep == ASSUME IInv, NEW p \in Passes, Watchdog(p) PROVE IInv'
  BY PassUnchanged, RowUnchanged, UserUnchanged, FarmerUnchanged DEF IInv, Watchdog, device

LEMMA SyncFarmerStep == ASSUME IInv, NEW p \in Passes, SyncFarmer(p) PROVE IInv'
<1>1. PassInv'
  BY Zero, PostKept, ProceedKept DEF IInv, SyncFarmer, device, At, Following
<1> QED
  BY <1>1, RowUnchanged, UserUnchanged, FarmerUnchanged DEF IInv, SyncFarmer, device

\* setIdMapping before deletePendingFarmer
LEMMA FarmerLandedStep == ASSUME IInv, NEW p \in Passes, FarmerLanded(p) PROVE IInv'
<1>1. farmer \in FarmerState /\ pass[p].at = "farmer"
  BY DEF IInv, FarmerInv, FarmerLanded
<1>2. CASE pass[p].phase = "replied" /\ farmer' = [farmer EXCEPT !.mapped = TRUE]
           /\ Becomes(p, [pass[p] EXCEPT !.phase = "half"])
  <2>1. farmer' \in FarmerState /\ farmer'.mapped /\ farmer'.retries = farmer.retries
    BY <1>1, <1>2, ZenonT(60) DEF FarmerState
  <2>2. PassInv'
    BY <1>2, <2>1, PhaseKept DEF IInv, Phases
  <2> QED
    BY <2>1, <2>2, RowUnchanged, UserUnchanged DEF IInv, FarmerInv, FarmerLanded
<1>3. CASE pass[p].phase = "half" /\ farmer' = Unqueued /\ Proceed(p)
  <2>1. farmer.mapped
    BY <1>1, <1>3 DEF IInv, PassInv, HasMapped
  <2>2. farmer' \in FarmerState /\ farmer'.mapped = farmer.mapped /\ farmer'.retries = 0
    <3> DEFINE new == [farmer EXCEPT !.queued = FALSE, !.status = "pending", !.retries = 0]
    <3>1. new \in FarmerState /\ new.mapped = farmer.mapped /\ new.retries = 0
      BY <1>1, ZenonT(60) DEF FarmerState, Statuses
    <3> QED
      BY <1>3, <3>1 DEF Unqueued
  <2>4. farmer'.retries <= failures'
    BY <2>2, BoundsAssumption DEF IInv, RowInv, FarmerLanded
  <2>3. PassInv'
    BY <1>1, <1>3, <2>2, ProceedKept DEF IInv, Following
  <2> QED
    BY <2>1, <2>2, <2>3, <2>4, RowUnchanged, UserUnchanged DEF IInv, FarmerInv, FarmerLanded
<1> QED
  BY <1>2, <1>3 DEF FarmerLanded

LEMMA SyncVisitStep == ASSUME IInv, NEW p \in Passes, SyncVisit(p) PROVE IInv'
<1>1. PassInv' /\ running' \in BOOLEAN
  BY Zero, PostKept, ProceedKept, EndKept DEF IInv, SyncVisit, device, At, Following
<1> QED
  BY <1>1, RowUnchanged, UserUnchanged, FarmerUnchanged DEF IInv, SyncVisit, device

LEMMA CheckInLandedStep == ASSUME IInv, NEW p \in Passes, CheckInLanded(p) PROVE IInv'
<1>1. PassInv'
  BY ProceedKept DEF IInv, CheckInLanded, At, Following
<1>2. RowInv'
  BY KnownKept DEF IInv, CheckInLanded
<1> QED
  BY <1>1, <1>2, UserUnchanged, FarmerUnchanged DEF IInv, CheckInLanded

LEMMA SyncFieldStep ==
    ASSUME IInv, NEW p \in Passes, NEW f \in Fields, SyncField(p, f) PROVE IInv'
<1>1. row.field[f] \in Saves
  BY DEF IInv, RowInv, RowState
<1>2. PassInv'
  BY <1>1, PostKept, ProceedKept DEF IInv, SyncField, device, At, Following, Fields
<1> QED
  BY <1>2, RowUnchanged, UserUnchanged, FarmerUnchanged DEF IInv, SyncField, device

LEMMA FieldLandedStep ==
    ASSUME IInv, NEW p \in Passes, NEW f \in Fields, FieldLanded(p, f) PROVE IInv'
<1>1. PassInv'
  BY ProceedKept DEF IInv, FieldLanded, At, Following, Fields
<1>2. RowInv'
  BY Zero, ClearedKept DEF IInv, FieldLanded
<1> QED
  BY <1>1, <1>2, UserUnchanged, FarmerUnchanged DEF IInv, FieldLanded

LEMMA SyncOrdersStep == ASSUME IInv, NEW p \in Passes, SyncOrders(p) PROVE IInv'
<1>1. row.orders \in Seq(OrderIds)
  BY DEF IInv, RowInv, RowState
<1>2. PassInv'
  <2>1. CASE row.orders # << >>
    BY <1>1, <2>1, PostOrderKept DEF IInv, SyncOrders, device, At
  <2>2. CASE row.orders = << >>
    BY <2>2, ProceedKept DEF IInv, SyncOrders, device, At, Following
  <2> QED
    BY <2>1, <2>2
<1> QED
  BY <1>2, RowUnchanged, UserUnchanged, FarmerUnchanged DEF IInv, SyncOrders, device
LEMMA OrderLandedStep == ASSUME IInv, NEW p \in Passes, OrderLanded(p) PROVE IInv'
<1>1. pass[p].at = "orders" /\ pass[p].phase = "replied" /\ pass[p] \in PassState
      /\ Posted(pass[p])
  BY DEF IInv, PassInv, OrderLanded, At
<1>2. PassInv'
  <2>1. CASE row.orders = << >>
    BY <1>1, <2>1, NextOrderKept DEF IInv, OrderLanded, device
  <2>2. CASE row.orders # << >>
    <3> DEFINE rest == Tail(row.orders)
               r == [pass[p] EXCEPT !.phase = "half", !.rest = rest]
    <3>1. rest \in Seq(OrderIds)
      BY <2>2 DEF IInv, RowInv, RowState
    <3>2. Becomes(p, r)
      BY <2>2 DEF OrderLanded
    <3> HIDE DEF rest
    <3>3. /\ r \in PassState /\ r.at = "orders" /\ r.sent = pass[p].sent
          /\ r.list = pass[p].list
      BY <1>1, <3>1, ZenonT(60) DEF PassState, Phases
    <3> HIDE DEF r
    <3>4. Posted(r)
      BY <1>1, <3>3 DEF Posted, Fields
    <3> QED
      BY <3>2, <3>3, <3>4, PassKept DEF IInv, HasMapped, OrderLanded, device
  <2> QED
    BY <2>1, <2>2
<1> QED
  BY <1>2, RowUnchanged, UserUnchanged, FarmerUnchanged DEF IInv, OrderLanded, device

LEMMA StoreOrdersStep == ASSUME IInv, NEW p \in Passes, StoreOrders(p) PROVE IInv'
<1>1. pass[p].at = "orders" /\ pass[p].phase = "half" /\ pass[p].rest \in Seq(OrderIds)
  BY DEF IInv, PassInv, PassState, StoreOrders, At
<1>2. PassInv'
  BY <1>1, NextOrderKept DEF IInv, StoreOrders
<1>3. RowInv'
  BY <1>1, ListKept DEF IInv, StoreOrders
<1> QED
  BY <1>2, <1>3, UserUnchanged, FarmerUnchanged DEF IInv, StoreOrders

LEMMA CloseVisitStep == ASSUME IInv, NEW p \in Passes, CloseVisit(p) PROVE IInv'
<1>1. CASE pass[p].phase = "ready" /\ row.here /\ FullySynced
  <2> DEFINE r == [pass[p] EXCEPT !.phase = "half"]
  <2>1. pass[p] \in PassState /\ pass[p].at = "close"
    BY DEF IInv, PassInv, CloseVisit
  <2>2. r \in PassState /\ r.at = "close"
    BY <2>1, ZenonT(60) DEF PassState, Phases
  <2>3. Becomes(p, r) /\ UNCHANGED <<row, running>>
    BY <1>1 DEF CloseVisit
  <2> HIDE DEF r
  <2>4. PassInv'
    BY <2>2, <2>3, PassKept DEF IInv, Posted, HasMapped, Fields, CloseVisit
  <2> QED
    BY <2>3, <2>4, RowUnchanged, UserUnchanged, FarmerUnchanged DEF IInv, CloseVisit
<1>2. CASE ~(pass[p].phase = "ready" /\ row.here /\ FullySynced)
  <2>1. PassInv' /\ running' \in BOOLEAN
    BY <1>2, EndKept DEF IInv, CloseVisit
  <2>2. row' = row \/ row' = Deleted
    BY <1>2 DEF CloseVisit
  <2>3. RowInv'
    BY <2>2, DeletedType, BoundsAssumption DEF IInv, RowInv, RowState, CloseVisit
  <2> QED
    BY <2>1, <2>3, UserUnchanged, FarmerUnchanged DEF IInv, CloseVisit
<1> QED
  BY <1>1, <1>2

-----------------------------------------------------------------------------
(* The network and the server                                               *)

LEMMA LoseStep == ASSUME IInv, NEW p \in Passes, Lose(p) PROVE IInv'
<1>1. FarmerInv' /\ farmer'.mapped = farmer.mapped
  BY FarmerFailed DEF IInv, Lose
<1>2. PassInv' /\ running' \in BOOLEAN
  BY <1>1, EndKept DEF IInv, Lose
<1>3. RowInv'
  BY FailedKept DEF IInv, Lose
<1> QED
  BY <1>1, <1>2, <1>3, UserUnchanged DEF IInv, Lose

LEMMA ServeOnceType ==
    ASSUME IInv, NEW p \in Passes, pass[p].phase = "sent", ServeOnce(p)
    PROVE  server' \in ServerState
<1>1. server \in ServerState
  BY DEF IInv
<1>2. CASE pass[p].at = "farmer" /\ server' = [server EXCEPT !.farmer = TRUE]
  BY <1>1, <1>2, ZenonT(60) DEF ServerState
<1>3. CASE pass[p].at = "checkin" /\ server' = [server EXCEPT !.visit = TRUE]
  BY <1>1, <1>3, ZenonT(60) DEF ServerState
<1>4. CASE pass[p].at = "orders" /\ server' = [server EXCEPT !.orders = @ \cup {pass[p].sent}]
  <2> DEFINE orders == server.orders \cup {pass[p].sent}
  <2>1. orders \in SUBSET OrderIds
    BY <1>1, <1>4 DEF IInv, PassInv, Posted, ServerState
  <2>2. server' = [server EXCEPT !.orders = orders]
    BY <1>4
  <2> HIDE DEF orders
  <2> QED
    BY <1>1, <2>1, <2>2, ZenonT(60) DEF ServerState
<1> QED
  BY <1>2, <1>3, <1>4 DEF ServeOnce

LEMMA ServeFieldType ==
    ASSUME IInv, NEW p \in Passes, ServeField(p) PROVE server' \in ServerState
<1> DEFINE f == pass[p].at
           got == [server.got EXCEPT ![f] = Append(@, pass[p].sent)]
<1>1. server \in ServerState /\ f \in Fields /\ pass[p].sent \in Saves
  BY DEF IInv, PassInv, Posted, ServeField
<1>2. server.got \in [Fields -> Seq(Saves)]
  BY <1>1 DEF ServerState
<1>3. Append(server.got[f], pass[p].sent) \in Seq(Saves)
  BY <1>1, <1>2
<1>4. got \in [Fields -> Seq(Saves)]
  BY <1>2, <1>3
<1>5. server' = [server EXCEPT !.got = got]
  BY DEF ServeField
<1> HIDE DEF got
<1> QED
  BY <1>1, <1>4, <1>5, ZenonT(60) DEF ServerState

LEMMA ServeStep == ASSUME IInv, NEW p \in Passes, Serve(p) PROVE IInv'
<1>1. server' \in ServerState
  BY ServeOnceType, ServeFieldType DEF Serve
<1>2. PassInv'
  BY PhaseKept DEF IInv, Serve, device, Phases
<1> QED
  BY <1>1, <1>2, RowUnchanged, UserUnchanged, FarmerUnchanged DEF IInv, Serve, device

LEMMA ReplyStep == ASSUME IInv, NEW p \in Passes, Reply(p) PROVE IInv'
<1>1. PassInv'
  BY PhaseKept DEF IInv, Reply, device, Phases
<1> QED
  BY <1>1, RowUnchanged, UserUnchanged, FarmerUnchanged DEF IInv, Reply, device

LEMMA SwitchOnlineStep == ASSUME IInv, SwitchOnline PROVE IInv'
  BY PassUnchanged, RowUnchanged, UserUnchanged, FarmerUnchanged DEF IInv, SwitchOnline

-----------------------------------------------------------------------------
(* The user                                                                 *)

LEMMA NoSaveType == NoSave \in UserState /\ NoSave.at = "idle"
  BY NoOrders DEF NoSave, UserState

LEMMA BeginSaveStep ==
    ASSUME IInv, NEW what \in Fields \cup {"order"}, BeginSave(what) PROVE IInv'
<1> DEFINE u == [NoSave EXCEPT !.at = "resolved", !.what = what]
<1>1. u \in UserState /\ u.what = what /\ u.at = "resolved"
  BY NoSaveType, ZenonT(60) DEF UserState
<1>2. user' = u /\ UNCHANGED saved
  BY DEF BeginSave
<1> HIDE DEF u
<1>3. UserInv'
  <2>1. IF what = "order" THEN saved.orders < MaxOrders
                          ELSE saved.field[what] < MaxSaves(what)
    BY DEF BeginSave
  <2> QED
    BY <1>1, <1>2, <2>1 DEF IInv, UserInv, MaxSaves
<1> QED
  BY <1>3, PassUnchanged, RowUnchanged, FarmerUnchanged DEF IInv, BeginSave

\* The next save of a step is within the bounds.
LEMMA NextSave ==
    ASSUME IInv, user.at = "resolved", user.what # "order"
    PROVE  user.what \in Fields /\ saved.field[user.what] + 1 \in Saves
<1>1. user.what \in Fields /\ saved.field[user.what] \in Saves
  BY DEF IInv, UserInv, UserState, SavedState
<1>2. saved.field[user.what] < MaxSaves(user.what)
  BY DEF IInv, UserInv
<1> QED
  BY <1>1, <1>2, BoundsAssumption DEF MaxSaves, Saves

LEMMA WriteFieldStep == ASSUME IInv, WriteField PROVE IInv'
<1> DEFINE f == user.what
           n == saved.field[f] + 1
           fields == [saved.field EXCEPT ![f] = n]
<1>1. f \in Fields /\ n \in Saves
  BY NextSave DEF WriteField
<1>2. saved' = [saved EXCEPT !.field = fields] /\ user' = NoSave
  BY DEF WriteField
<1>3. Update([row EXCEPT !.field = [row.field EXCEPT ![f] = n], !.status = "pending"])
  BY DEF WriteField
<1>4. saved \in SavedState /\ fields \in [Fields -> Saves]
  BY <1>1 DEF IInv, UserInv, SavedState
<1> HIDE DEF fields
<1>5. saved' \in SavedState
  BY <1>2, <1>4, ZenonT(60) DEF SavedState
<1>6. UserInv'
  BY <1>2, <1>5, NoSaveType DEF UserInv
<1> HIDE DEF f, n
<1>7. RowInv'
  BY <1>1, <1>3, FieldKept DEF IInv, Statuses, WriteField
<1> QED
  BY <1>6, <1>7, PassUnchanged, FarmerUnchanged DEF IInv, WriteField

LEMMA ReadOrdersStep == ASSUME IInv, ReadOrders PROVE IInv'
<1> DEFINE u == [user EXCEPT !.at = "read", !.list = row.orders]
<1>1. user \in UserState /\ row.orders \in Seq(OrderIds) /\ user.what = "order"
      /\ saved.orders < MaxOrders
  BY DEF IInv, UserInv, RowInv, RowState, ReadOrders
<1>2. u \in UserState /\ u.what = "order"
  BY <1>1, ZenonT(60) DEF UserState
<1>3. user' = u /\ UNCHANGED saved
  BY DEF ReadOrders
<1> HIDE DEF u
<1>4. UserInv'
  BY <1>1, <1>2, <1>3 DEF IInv, UserInv
<1> QED
  BY <1>4, PassUnchanged, RowUnchanged, FarmerUnchanged DEF IInv, ReadOrders

LEMMA WriteOrdersStep == ASSUME IInv, WriteOrders PROVE IInv'
<1> DEFINE n == saved.orders + 1
           list == Append(user.list, n)
<1>1. /\ saved \in SavedState /\ user.list \in Seq(OrderIds)
      /\ saved.orders \in 0..MaxOrders /\ MaxOrders \in Nat
  BY BoundsAssumption DEF IInv, UserInv, UserState, SavedState
<1>2. user.what = "order"
  BY DEF IInv, UserInv, UserState, WriteOrders
<1>3. saved.orders < MaxOrders
  BY <1>2 DEF IInv, UserInv, WriteOrders
<1>4. n \in OrderIds /\ n \in 0..MaxOrders
  BY <1>1, <1>3 DEF OrderIds
<1>5. saved' = [saved EXCEPT !.orders = n] /\ user' = NoSave
  BY DEF WriteOrders
<1>6. Update([row EXCEPT !.orders = list, !.status = "pending"])
  BY DEF WriteOrders
<1> HIDE DEF n
<1>7. list \in Seq(OrderIds)
  BY <1>1, <1>4
<1>8. saved' \in SavedState
  BY <1>1, <1>4, <1>5, ZenonT(60) DEF SavedState
<1>9. UserInv'
  BY <1>5, <1>8, NoSaveType DEF UserInv
<1> HIDE DEF list
<1>10. RowInv'
  BY <1>6, <1>7, OrdersKept DEF IInv, Statuses, WriteOrders
<1> QED
  BY <1>9, <1>10, PassUnchanged, FarmerUnchanged DEF IInv, WriteOrders

LEMMA RetryByHandStep == ASSUME IInv, RetryByHand PROVE IInv'
<1>1. "pending" \in Statuses
  BY DEF Statuses
<1>2. CASE farmer' = [farmer EXCEPT !.status = "pending"] /\ row' = row
  <2>1. FarmerInv' /\ farmer'.mapped = farmer.mapped
    BY <1>1, <1>2, FarmerRestated DEF IInv, RetryByHand
  <2>2. PassInv'
    BY <2>1 DEF IInv, PassInv, RetryByHand
  <2> QED
    BY <1>2, <2>1, <2>2, RowUnchanged, UserUnchanged DEF IInv, RetryByHand
<1>3. CASE row' = [row EXCEPT !.status = "pending"] /\ farmer' = farmer
  <2> DEFINE new == [row EXCEPT !.status = "pending"]
  <2>1. new \in RowState /\ new.retries = row.retries
    BY <1>1, WithStatus DEF IInv, RowInv
  <2>2. row' = new
    BY <1>3
  <2> HIDE DEF new
  <2>3. RowInv'
    BY <2>1, <2>2 DEF IInv, RowInv, RetryByHand
  <2> QED
    BY <1>3, <2>3, PassUnchanged, UserUnchanged, FarmerUnchanged DEF IInv, RetryByHand
<1> QED
  BY <1>2, <1>3 DEF RetryByHand

LEMMA KillStep == ASSUME IInv, Kill PROVE IInv'
<1>1. PassInv'
  BY AsleepType DEF PassInv, Kill
<1>2. RowInv'
  BY BoundsAssumption DEF IInv, RowInv, RowState, Kill
<1>3. UserInv'
  BY NoSaveType DEF IInv, UserInv, Kill
<1> QED
  BY <1>1, <1>2, <1>3, FarmerSpared DEF IInv, Kill

-----------------------------------------------------------------------------
(* The theorems                                                             *)

LEMMA Start == Init => IInv
<1> SUFFICES ASSUME Init PROVE IInv
  OBVIOUS
<1>1. PassInv
  BY AsleepType DEF PassInv, Init
<1>2. FarmerInv
  BY DEF FarmerInv, FarmerState, Statuses, Init
<1>3. RowInv
  <2>1. CheckedIn \in RowState /\ CheckedIn.retries = Deleted.retries
    BY DeletedType, ZenonT(60) DEF CheckedIn, RowState
  <2> QED
    BY <2>1, DeletedType, BoundsAssumption DEF RowInv, Init
<1>4. UserInv
  BY NoSaveType, Zero, BoundsAssumption DEF UserInv, SavedState, Empty, Init
<1>5. server \in ServerState
  BY DEF ServerState, Init
<1> QED
  BY <1>1, <1>2, <1>3, <1>4, <1>5 DEF IInv, Init

LEMMA PassStepKept == ASSUME IInv, NEW p \in Passes, PassStep(p) PROVE IInv'
  BY SyncFarmerStep, FarmerLandedStep, SyncVisitStep, CheckInLandedStep, SyncFieldStep,
     FieldLandedStep, SyncOrdersStep, OrderLandedStep, StoreOrdersStep, CloseVisitStep,
     ServeStep, ReplyStep DEF PassStep

LEMMA Kept == IInv /\ [Next]_vars => IInv'
<1> SUFFICES ASSUME IInv, [Next]_vars PROVE IInv'
  OBVIOUS
<1>1. CASE \E p \in Passes : StartPass(p) \/ Watchdog(p) \/ PassStep(p) \/ Lose(p)
  BY <1>1, StartPassStep, WatchdogStep, PassStepKept, LoseStep
<1>2. CASE \E what \in Fields \cup {"order"} : BeginSave(what)
  BY <1>2, BeginSaveStep
<1>3. CASE UserStep
  BY <1>3, WriteFieldStep, ReadOrdersStep, WriteOrdersStep DEF UserStep
<1>4. CASE RetryByHand
  BY <1>4, RetryByHandStep
<1>5. CASE SwitchOnline
  BY <1>5, SwitchOnlineStep
<1>6. CASE Kill
  BY <1>6, KillStep
<1>7. CASE UNCHANGED vars
  BY <1>7, PassUnchanged, RowUnchanged, UserUnchanged, FarmerUnchanged DEF IInv, vars
<1> QED
  BY <1>1, <1>2, <1>3, <1>4, <1>5, <1>6, <1>7 DEF Next

\* Every variable holds what the code can put in it; the retry counts of the
\* customer and the visit never exceed the failures there were.
THEOREM TypeCorrect == Spec => []TypeOK
<1>1. IInv => TypeOK
  <2> SUFFICES ASSUME IInv PROVE TypeOK
    OBVIOUS
  <2>1. row \in [here : BOOLEAN, known : BOOLEAN, status : {"pending", "failed", "attention"},
                 retries : 0..failures, field : [Fields -> Saves], orders : Seq(OrderIds)]
    <3>1. row \in RowState /\ row.retries \in 0..failures
      BY BoundsAssumption DEF IInv, RowInv, RowState
    <3> QED
      BY <3>1, ZenonT(60) DEF RowState, Statuses
  <2>2. farmer \in [queued : BOOLEAN, mapped : BOOLEAN,
                    status : {"pending", "failed", "attention"}, retries : 0..failures]
    <3>1. farmer \in FarmerState /\ farmer.retries \in 0..failures
      BY BoundsAssumption DEF IInv, FarmerInv, FarmerState, RowInv
    <3> QED
      BY <3>1, ZenonT(60) DEF FarmerState, Statuses
  <2> QED
    BY <2>1, <2>2 DEF IInv, TypeOK, PassInv, FarmerInv, FarmerState, RowInv, UserInv, SavedState,
                UserState, ServerState, PassState, Phases
<1> QED
  BY <1>1, Start, Kept, PTL DEF Spec

\* However passes overlap and wherever the app dies, the customer of a queued
\* visit is on the server under an id the phone knows, or still queued.
THEOREM CustomersStayResolvable == Spec => []CustomerStaysResolvable
<1>1. IInv => CustomerStaysResolvable
  BY DEF IInv, FarmerInv, CustomerStaysResolvable
<1> QED
  BY <1>1, Start, Kept, PTL DEF Spec

-----------------------------------------------------------------------------
(* What the upload keeps, when one pass is alive at a time and the user    *)
(* saves while none runs: nothing that was saved is lost, the visit is     *)
(* completed last, and nothing is posted twice unless a message was lost.  *)
(* (With two passes, or a save in the middle of one, the code promises     *)
(* less: README.md.)                                                       *)
(*                                                                         *)
(* The argument: what a pass posted is what the row still holds, what it   *)
(* has been served is on the server, and the steps behind it are cleared.  *)

\* One pass is alive at a time, and saves wait for its end.
Alone == Quiet /\ \A p, q \in Passes : p = q

Got(s, f, n) == \E i \in DOMAIN s.got[f] : s.got[f][i] = n
Listed(o, list) == \E i \in DOMAIN list : list[i] = o

\* The steps behind a pass that is at stage `at` are cleared, and what it posted is
\* what the row w holds; once it is served, the server s has it.
Keeps(r, w, s) ==
    /\ r.at = "idle" => r.phase = "ready"
    /\ (r.at \in Fields \cup {"orders", "close"} \/ (r.at = "checkin" /\ r.phase # "ready")) => w.here
    /\ r.at \in {"livestock", "orders", "complete", "close"} => w.field["notes"] = 0
    /\ r.at \in {"orders", "complete", "close"} => w.field["livestock"] = 0
    /\ r.at \in {"complete", "close"} => w.orders = << >>
    /\ (r.at = "close" /\ r.phase = "half") => w.field["complete"] = 0
    /\ (r.at \in Fields /\ r.phase # "ready") =>
          /\ w.field[r.at] # 0 /\ r.sent = w.field[r.at]
          /\ r.phase # "sent" => Got(s, r.at, r.sent)
    /\ (r.at = "orders" /\ r.phase # "ready") =>
          /\ r.list = w.orders /\ w.orders # << >> /\ r.sent = Head(w.orders)
          /\ r.phase # "sent" => r.sent \in s.orders
          /\ r.phase = "half" => r.rest = Tail(w.orders)

\* What is saved (v) is in the row or on the server, and they have nothing else.
Stored(w, s, v) ==
    /\ \A f \in Fields : w.field[f] \in {0, v.field[f]}
    /\ \A f \in Fields : v.field[f] # 0 => w.field[f] = v.field[f] \/ Got(s, f, v.field[f])
    /\ \A i \in DOMAIN w.orders : w.orders[i] \in 1..v.orders
    /\ s.orders \subseteq 1..v.orders
    /\ \A o \in 1..v.orders : Listed(o, w.orders) \/ o \in s.orders

\* A visit that is completed has everything.
Whole(s, v) ==
    s.got["complete"] # << >> =>
        /\ v.field["complete"] # 0 /\ s.orders = 1..v.orders
        /\ \A f \in Fields : v.field[f] # 0 => Got(s, f, v.field[f])

\* The user saves only while no pass runs, and only before the visit is completed.
SavingAlone ==
    /\ user.at # "idle" =>
          saved.field["complete"] = 0 /\ row.here /\ \A p \in Passes : ~Active(p)
    /\ user.at = "read" => user.list = row.orders

\* While no message is lost, what is posted once is gone from the row when its
\* pass goes on.
Unrepeated(f) ==
    failures = 0 =>
        /\ Len(server.got[f]) <= 1
        /\ server.got[f] # << >> =>
              /\ saved.field[f] # 0
              /\ row.field[f] = 0 \/ \E p \in Passes : pass[p].at = f /\ pass[p].phase \notin {"ready", "sent"}

SavesInv ==
    /\ IInv
    /\ \A p \in Passes : Keeps(pass[p], row, server)
    /\ Stored(row, server, saved) /\ Whole(server, saved) /\ SavingAlone
    /\ \A f \in {"livestock", "complete"} : Unrepeated(f)

-----------------------------------------------------------------------------
(* Passes                                                                   *)

Same(w, v) == w.here = v.here /\ w.field = v.field /\ w.orders = v.orders

\* A pass is past the request of step f.
Past(r, f) == r.at = f /\ r.phase \notin {"ready", "sent"}

\* A pass goes on, and what the row and the server hold stays.
LEMMA PassMoves ==
    ASSUME Alone, SavesInv, IInv', NEW p \in Passes, Same(row', row), user.at = "idle",
           UNCHANGED <<server, saved, user>>, failures' = 0 => failures = 0,
           Keeps(pass'[p], row, server),
           \A f \in {"livestock", "complete"} :
               Past(pass[p], f) => Past(pass'[p], f) \/ row.field[f] = 0 \/ failures' # 0
    PROVE  SavesInv'
<1>1. \A q \in Passes : Keeps(pass'[q], row', server')
  BY DEF Alone, Keeps, Same, Got
<1>2. Stored(row', server', saved') /\ Whole(server', saved') /\ SavingAlone'
  BY DEF SavesInv, Stored, Whole, SavingAlone, Same, Got, Listed
<1>3. \A f \in {"livestock", "complete"} : Unrepeated(f)'
  BY DEF SavesInv, Unrepeated, Alone, Same, Past
<1> QED BY <1>1, <1>2, <1>3 DEF SavesInv

\* Nothing that the argument is about changes.
LEMMA NothingMoves ==
    ASSUME Alone, SavesInv, IInv', Same(row', row),
           UNCHANGED <<server, saved, user, pass, failures>>
    PROVE  SavesInv'
<1>1. \A q \in Passes : Keeps(pass'[q], row', server')
  BY DEF SavesInv, Keeps, Same, Got
<1>2. Stored(row', server', saved') /\ Whole(server', saved') /\ SavingAlone'
  BY DEF SavesInv, Stored, Whole, SavingAlone, Same, Got, Listed, Active
<1>3. \A f \in {"livestock", "complete"} : Unrepeated(f)'
  BY DEF SavesInv, Unrepeated, Same
<1> QED BY <1>1, <1>2, <1>3 DEF SavesInv

\* While a pass is alive nobody saves.
LEMMA NobodySaves ==
    ASSUME SavesInv, NEW p \in Passes, Active(p) PROVE user.at = "idle"
  BY DEF SavesInv, SavingAlone

LEMMA Becoming ==
    ASSUME SavesInv, NEW p \in Passes, NEW r, Becomes(p, r) PROVE pass'[p] = r
  BY DEF SavesInv, IInv, PassInv, Becomes

LEMMA Starting ==
    ASSUME NEW stage \in Stages
    PROVE  [Asleep EXCEPT !.at = stage].at = stage /\ [Asleep EXCEPT !.at = stage].phase = "ready"
<1>1. Asleep \in PassState /\ Asleep.phase = "ready"
  BY AsleepType DEF Asleep
<1>2. \A a \in PassState : [a EXCEPT !.at = stage].at = stage /\ [a EXCEPT !.at = stage].phase = a.phase
  BY ZenonT(60) DEF PassState
<1> QED BY <1>1, <1>2

\* A pass that proceeds is ready for the next step.
LEMMA Proceeding ==
    ASSUME SavesInv, NEW p \in Passes, Proceed(p), NEW next \in Stages, Following[pass[p].at] = next
    PROVE  pass'[p].at = next /\ pass'[p].phase = "ready"
<1>1. Becomes(p, [Asleep EXCEPT !.at = next])
  BY DEF Proceed
<1> QED BY <1>1, Becoming, Starting

LEMMA Steps ==
    /\ Following["farmer"] = "checkin" /\ Following["checkin"] = "notes"
    /\ Following["notes"] = "livestock" /\ Following["livestock"] = "orders"
    /\ Following["orders"] = "complete" /\ Following["complete"] = "close"
    /\ {"checkin", "notes", "livestock", "orders", "complete", "close"} \subseteq Stages
  BY DEF Following, Stages, Fields

LEMMA Ending ==
    ASSUME SavesInv, NEW p \in Passes, EndPass(p)
    PROVE  pass'[p].at = "idle" /\ pass'[p].phase = "ready"
  BY Becoming DEF EndPass, Asleep

\* A pass that sleeps, or has not come to the visit, has nothing to keep.
LEMMA NothingToKeep ==
    ASSUME NEW r, NEW w, NEW s,
           \/ r.at = "idle" /\ r.phase = "ready"
           \/ r.at = "farmer" \/ (r.at = "checkin" /\ (r.phase = "ready" \/ w.here))
    PROVE  Keeps(r, w, s)
  BY DEF Keeps, Fields

LEMMA Phased ==
    ASSUME SavesInv, NEW p \in Passes, NEW phase \in Phases,
           Becomes(p, [pass[p] EXCEPT !.phase = phase])
    PROVE  /\ pass'[p].at = pass[p].at /\ pass'[p].phase = phase /\ pass'[p].sent = pass[p].sent
           /\ pass'[p].list = pass[p].list /\ pass'[p].rest = pass[p].rest
<1> DEFINE r == [pass[p] EXCEPT !.phase = phase]
<1>1. pass[p] \in PassState
  BY DEF SavesInv, IInv, PassInv
<1>2. /\ r.at = pass[p].at /\ r.phase = phase /\ r.sent = pass[p].sent
      /\ r.list = pass[p].list /\ r.rest = pass[p].rest
  BY <1>1, ZenonT(60) DEF PassState
<1>3. Becomes(p, r)
  OBVIOUS
<1> HIDE DEF r
<1> QED BY <1>2, <1>3, Becoming

LEMMA Posting ==
    ASSUME SavesInv, NEW p \in Passes, NEW n, Post(p, n)
    PROVE  pass'[p].at = pass[p].at /\ pass'[p].phase = "sent" /\ pass'[p].sent = n
<1> DEFINE r == [pass[p] EXCEPT !.phase = "sent", !.sent = n]
<1>1. pass[p] \in PassState
  BY DEF SavesInv, IInv, PassInv
<1>2. r.at = pass[p].at /\ r.phase = "sent" /\ r.sent = n
  BY <1>1, ZenonT(60) DEF PassState
<1>3. Becomes(p, r)
  BY DEF Post
<1> HIDE DEF r
<1> QED BY <1>2, <1>3, Becoming

LEMMA PostingOrder ==
    ASSUME SavesInv, NEW p \in Passes, NEW list,
           Becomes(p, [pass[p] EXCEPT !.phase = "sent", !.list = list, !.sent = Head(list)])
    PROVE  /\ pass'[p].at = pass[p].at /\ pass'[p].phase = "sent"
           /\ pass'[p].list = list /\ pass'[p].sent = Head(list)
<1> DEFINE h == Head(list)
           r == [pass[p] EXCEPT !.phase = "sent", !.list = list, !.sent = h]
<1>1. pass[p] \in PassState
  BY DEF SavesInv, IInv, PassInv
<1>2. Becomes(p, r)
  OBVIOUS
<1> HIDE DEF h
<1>3. r.at = pass[p].at /\ r.phase = "sent" /\ r.list = list /\ r.sent = h
  BY <1>1, ZenonT(60) DEF PassState
<1> HIDE DEF r
<1> QED BY <1>2, <1>3, Becoming DEF h

-----------------------------------------------------------------------------
(* The row                                                                  *)

LEMMA SameStatus ==
    ASSUME row \in RowState, NEW status PROVE Same([row EXCEPT !.status = status], row)
<1> DEFINE w == [row EXCEPT !.status = status]
<1>1. w.here = row.here /\ w.field = row.field /\ w.orders = row.orders
  BY ZenonT(60) DEF RowState
<1> QED BY <1>1 DEF Same

LEMMA SameFailed == ASSUME row \in RowState PROVE Same(Failed(row), row)
<1> DEFINE status == IF row.retries + 1 >= MaxRetries THEN "attention" ELSE "failed"
           n == row.retries + 1
           w == [row EXCEPT !.retries = n, !.status = status]
<1>1. Failed(row) = w
  BY DEF Failed
<1> HIDE DEF status, n
<1>2. w.here = row.here /\ w.field = row.field /\ w.orders = row.orders
  BY ZenonT(60) DEF RowState
<1> QED BY <1>1, <1>2 DEF Same

LEMMA SameKnown == ASSUME row \in RowState PROVE Same([row EXCEPT !.known = TRUE], row)
<1> DEFINE w == [row EXCEPT !.known = TRUE]
<1>1. w.here = row.here /\ w.field = row.field /\ w.orders = row.orders
  BY ZenonT(60) DEF RowState
<1> QED BY <1>1 DEF Same

-----------------------------------------------------------------------------
(* The steps of a pass that leave the content of the row alone              *)

LEMMA StartPassSaves ==
    ASSUME Alone, SavesInv, IInv', NEW p \in Passes, StartPass(p) PROVE SavesInv'
<1>1. Same(row', row)
  BY SameStatus DEF StartPass, Requeued, SavesInv, IInv, RowInv
<1>2. pass'[p].at = "farmer"
  <2>1. "farmer" \in Stages /\ Becomes(p, [Asleep EXCEPT !.at = "farmer"])
    BY DEF Stages, StartPass
  <2> QED BY <2>1, Becoming, Starting
<1>3. ~Past(pass[p], "livestock") /\ ~Past(pass[p], "complete") /\ user.at = "idle"
  BY DEF StartPass, Active, Past, Alone
<1> QED BY <1>1, <1>2, <1>3, NothingToKeep, PassMoves DEF StartPass

LEMMA WatchdogSaves ==
    ASSUME Alone, SavesInv, IInv', NEW p \in Passes, Watchdog(p) PROVE SavesInv'
  BY NothingMoves DEF Watchdog, device, Same

LEMMA FarmerSaves ==
    ASSUME Alone, SavesInv, IInv', NEW p \in Passes, SyncFarmer(p) \/ FarmerLanded(p)
    PROVE  SavesInv'
<1>1. pass[p].at = "farmer" /\ user.at = "idle"
  BY NobodySaves DEF SyncFarmer, FarmerLanded, At, Active
<1>2. /\ UNCHANGED <<row, server, saved, user, failures>>
      /\ \/ Post(p, 0) \/ Proceed(p)
         \/ Becomes(p, [pass[p] EXCEPT !.phase = "half"])
  BY DEF SyncFarmer, FarmerLanded, device
<1>3. Keeps(pass'[p], row, server)
  <2>1. CASE Post(p, 0)
    BY <1>1, <2>1, Posting, NothingToKeep
  <2>2. CASE Proceed(p)
    BY <1>1, <2>2, Proceeding, Steps, NothingToKeep
  <2>3. CASE Becomes(p, [pass[p] EXCEPT !.phase = "half"])
    <3>1. "half" \in Phases
      BY DEF Phases
    <3> QED BY <1>1, <2>3, <3>1, Phased, NothingToKeep
  <2> QED BY <1>2, <2>1, <2>2, <2>3
<1> QED BY <1>1, <1>2, <1>3, PassMoves DEF Same, Past

LEMMA SyncVisitSaves ==
    ASSUME Alone, SavesInv, IInv', NEW p \in Passes, SyncVisit(p) PROVE SavesInv'
<1>1. pass[p].at = "checkin" /\ user.at = "idle" /\ UNCHANGED <<row, server, saved, user, failures>>
  BY NobodySaves DEF SyncVisit, At, Active, device
<1>2. Keeps(pass'[p], row, server)
  <2>1. CASE EndPass(p)
    BY <2>1, Ending, NothingToKeep
  <2>2. CASE row.here /\ Post(p, 0)
    BY <1>1, <2>2, Posting, NothingToKeep
  <2>3. CASE row.here /\ Proceed(p)
    <3>1. pass'[p].at = "notes" /\ pass'[p].phase = "ready"
      BY <1>1, <2>3, Proceeding, Steps
    <3> QED BY <2>3, <3>1 DEF Keeps, Fields
  <2> QED BY <2>1, <2>2, <2>3 DEF SyncVisit
<1> QED BY <1>1, <1>2, PassMoves DEF Same, Past

LEMMA CheckInSaves ==
    ASSUME Alone, SavesInv, IInv', NEW p \in Passes, CheckInLanded(p) PROVE SavesInv'
<1>1. pass[p].at = "checkin" /\ pass[p].phase = "replied" /\ user.at = "idle"
  BY NobodySaves DEF CheckInLanded, At, Active
<1>2. row.here
  BY <1>1 DEF SavesInv, Keeps
<1>3. Same(row', row)
  BY SameKnown DEF CheckInLanded, Update, Same, SavesInv, IInv, RowInv
<1>4. pass'[p].at = "notes" /\ pass'[p].phase = "ready"
  BY <1>1, Proceeding, Steps DEF CheckInLanded
<1>5. Keeps(pass'[p], row, server)
  BY <1>2, <1>4 DEF Keeps, Fields
<1> QED BY <1>1, <1>3, <1>5, PassMoves DEF CheckInLanded, Past

\* A step whose field is clear is behind its pass.
LEMMA StepBehind ==
    ASSUME SavesInv, NEW p \in Passes, NEW f \in Fields, pass[p].at = f, Proceed(p),
           NEW w, w.here, w.field[f] = 0, w.orders = row.orders,
           \A g \in Fields : w.field[g] \in {0, row.field[g]}
    PROVE  Keeps(pass'[p], w, server) /\ pass'[p].at # f
<1>1. Keeps(pass[p], row, server) /\ f \in {"notes", "livestock", "complete"}
  BY DEF SavesInv, Fields
<1>2. CASE f = "notes"
  <2>1. pass'[p].at = "livestock" /\ pass'[p].phase = "ready"
    BY <1>2, Proceeding, Steps
  <2> QED BY <1>2, <2>1 DEF Keeps, Fields
<1>3. CASE f = "livestock"
  <2>1. pass'[p].at = "orders" /\ pass'[p].phase = "ready"
    BY <1>3, Proceeding, Steps
  <2> QED BY <1>1, <1>3, <2>1 DEF Keeps, Fields
<1>4. CASE f = "complete"
  <2>1. pass'[p].at = "close" /\ pass'[p].phase = "ready"
    BY <1>4, Proceeding, Steps
  <2> QED BY <1>1, <1>4, <2>1 DEF Keeps, Fields
<1> QED BY <1>1, <1>2, <1>3, <1>4

LEMMA SyncFieldSaves ==
    ASSUME Alone, SavesInv, IInv', NEW p \in Passes, NEW f \in Fields, SyncField(p, f)
    PROVE  SavesInv'
<1>1. /\ pass[p].at = f /\ pass[p].phase = "ready" /\ user.at = "idle"
      /\ UNCHANGED <<row, server, saved, user, failures>>
  BY NobodySaves DEF SyncField, At, Active, device, Fields
<1>2. Keeps(pass[p], row, server)
  BY DEF SavesInv
<1>3. Keeps(pass'[p], row, server)
  <2>1. CASE row.field[f] # 0
    <3>1. Post(p, row.field[f])
      BY <2>1 DEF SyncField
    <3>2. pass'[p].at = f /\ pass'[p].phase = "sent" /\ pass'[p].sent = row.field[f]
      BY <1>1, <3>1, Posting
    <3> QED BY <1>1, <1>2, <2>1, <3>2 DEF Keeps, Fields
  <2>2. CASE row.field[f] = 0
    BY <1>1, <1>2, <2>2, StepBehind DEF SyncField, Keeps
  <2> QED BY <2>1, <2>2
<1> QED BY <1>1, <1>3, PassMoves DEF Same, Past

LEMMA SyncOrdersSaves ==
    ASSUME Alone, SavesInv, IInv', NEW p \in Passes, SyncOrders(p) PROVE SavesInv'
<1>1. /\ pass[p].at = "orders" /\ pass[p].phase = "ready" /\ user.at = "idle"
      /\ UNCHANGED <<row, server, saved, user, failures>>
  BY NobodySaves DEF SyncOrders, At, Active, device
<1>2. Keeps(pass[p], row, server)
  BY DEF SavesInv
<1>3. Keeps(pass'[p], row, server)
  <2>1. CASE row.orders # << >>
    <3>1. Becomes(p, [pass[p] EXCEPT !.phase = "sent", !.list = row.orders, !.sent = Head(row.orders)])
      BY <2>1 DEF SyncOrders
    <3>2. /\ pass'[p].at = "orders" /\ pass'[p].phase = "sent"
          /\ pass'[p].list = row.orders /\ pass'[p].sent = Head(row.orders)
      BY <1>1, <3>1, PostingOrder
    <3> QED BY <1>1, <1>2, <2>1, <3>2 DEF Keeps, Fields
  <2>2. CASE row.orders = << >>
    <3>1. pass'[p].at = "complete" /\ pass'[p].phase = "ready"
      BY <1>1, <2>2, Proceeding, Steps DEF SyncOrders
    <3> QED BY <1>1, <1>2, <2>2, <3>1 DEF Keeps, Fields
  <2> QED BY <2>1, <2>2
<1> QED BY <1>1, <1>3, PassMoves DEF Same, Past

LEMMA OrderLandedSaves ==
    ASSUME Alone, SavesInv, IInv', NEW p \in Passes, OrderLanded(p) PROVE SavesInv'
<1>1. /\ pass[p].at = "orders" /\ pass[p].phase = "replied" /\ user.at = "idle"
      /\ UNCHANGED <<row, server, saved, user, failures>>
  BY NobodySaves DEF OrderLanded, At, Active, device
<1>2. Keeps(pass[p], row, server) /\ row.orders # << >>
  BY <1>1 DEF SavesInv, Keeps
<1> DEFINE rest == Tail(row.orders)
           r == [pass[p] EXCEPT !.phase = "half", !.rest = rest]
<1>3. Becomes(p, r)
  BY <1>2 DEF OrderLanded
<1>4. pass[p] \in PassState
  BY DEF SavesInv, IInv, PassInv
<1> HIDE DEF rest
<1>5. /\ r.at = pass[p].at /\ r.phase = "half" /\ r.sent = pass[p].sent
      /\ r.list = pass[p].list /\ r.rest = rest
  BY <1>4, ZenonT(60) DEF PassState
<1> HIDE DEF r
<1>6. pass'[p] = r
  BY <1>3, Becoming
<1>7. Keeps(pass'[p], row, server)
  BY <1>1, <1>2, <1>5, <1>6 DEF Keeps, Fields, rest
<1> QED BY <1>1, <1>7, PassMoves DEF Same, Past

LEMMA ReplySaves ==
    ASSUME Alone, SavesInv, IInv', NEW p \in Passes, Reply(p) PROVE SavesInv'
<1>1. "replied" \in Phases /\ pass[p].phase = "served"
      /\ Becomes(p, [pass[p] EXCEPT !.phase = "replied"])
      /\ UNCHANGED <<row, server, saved, user, failures>>
  BY DEF Reply, Phases, device
<1>2. /\ pass'[p].at = pass[p].at /\ pass'[p].phase = "replied" /\ pass'[p].sent = pass[p].sent
      /\ pass'[p].list = pass[p].list
  BY <1>1, Phased
<1>3. Keeps(pass[p], row, server)
  BY DEF SavesInv
<1>4. Active(p)
  BY <1>1, <1>3 DEF Active, Keeps
<1>5. Keeps(pass'[p], row, server)
  BY <1>1, <1>2, <1>3, <1>4 DEF Keeps, Active
<1> QED BY <1>1, <1>2, <1>4, <1>5, NobodySaves, PassMoves DEF Same, Past

LEMMA LoseSaves ==
    ASSUME Alone, SavesInv, IInv', NEW p \in Passes, Lose(p) PROVE SavesInv'
<1>1. Same(row', row)
  BY SameFailed DEF Lose, Same, SavesInv, IInv, RowInv
<1>2. Keeps(pass'[p], row, server)
  BY Ending, NothingToKeep DEF Lose
<1>3. failures' # 0
  BY BoundsAssumption DEF Lose, SavesInv, IInv, RowInv
<1>4. Active(p)
  BY DEF Lose, SavesInv, Keeps, Active
<1> QED BY <1>1, <1>2, <1>3, <1>4, NobodySaves, PassMoves DEF Lose

-----------------------------------------------------------------------------
(* The steps that write the row or the server                               *)

\* Sequences of orders.
LEMMA Behead ==
    ASSUME NEW list \in Seq(OrderIds), list # << >>
    PROVE  /\ Tail(list) \in Seq(OrderIds)
           /\ \A i \in DOMAIN Tail(list) : Tail(list)[i] = list[i + 1] /\ i + 1 \in DOMAIN list
           /\ \A o : Listed(o, list) => o = Head(list) \/ Listed(o, Tail(list))
<1>1. /\ Tail(list) \in Seq(OrderIds) /\ Len(list) \in Nat \ {0} /\ Len(Tail(list)) = Len(list) - 1
      /\ \A i \in 1..Len(Tail(list)) : Tail(list)[i] = list[i + 1]
      /\ DOMAIN list = 1..Len(list) /\ DOMAIN Tail(list) = 1..Len(Tail(list))
      /\ Head(list) = list[1]
  OBVIOUS
<1>2. ASSUME NEW i \in DOMAIN list, i # 1 PROVE i - 1 \in DOMAIN Tail(list) /\ Tail(list)[i - 1] = list[i]
  BY <1>1, <1>2
<1> QED BY <1>1, <1>2 DEF Listed

LEMMA Appended ==
    ASSUME NEW S, NEW s \in Seq(S), NEW e \in S
    PROVE  /\ Append(s, e) \in Seq(S) /\ Len(Append(s, e)) = Len(s) + 1
           /\ DOMAIN s \subseteq DOMAIN Append(s, e) /\ \A i \in DOMAIN s : Append(s, e)[i] = s[i]
           /\ Len(s) + 1 \in DOMAIN Append(s, e) /\ Append(s, e)[Len(s) + 1] = e
           /\ \A i \in DOMAIN Append(s, e) : i \in DOMAIN s \/ i = Len(s) + 1
  OBVIOUS

\* The row loses what the server has, and a pass goes on.
LEMMA RowMoves ==
    ASSUME Alone, SavesInv, IInv', NEW p \in Passes, user.at = "idle",
           UNCHANGED <<server, saved, user, failures>>,
           Keeps(pass'[p], row', server),
           \A f \in Fields : row'.field[f] \in {0, row.field[f]},
           \A f \in Fields : row'.field[f] # row.field[f] => Got(server, f, row.field[f]),
           \A i \in DOMAIN row'.orders : row'.orders[i] \in 1..saved.orders,
           \A o \in 1..saved.orders : Listed(o, row.orders) => Listed(o, row'.orders) \/ o \in server.orders,
           \A f \in {"livestock", "complete"} :
               Past(pass[p], f) => Past(pass'[p], f) \/ row'.field[f] = 0
    PROVE  SavesInv'
<1>1. \A q \in Passes : Keeps(pass'[q], row', server')
  BY DEF Alone, Keeps, Got
<1>2. Stored(row', server', saved')
  BY DEF SavesInv, Stored, Got
<1>3. Whole(server', saved') /\ SavingAlone'
  BY DEF SavesInv, Whole, SavingAlone, Got
<1>4. \A f \in {"livestock", "complete"} : Unrepeated(f)'
  BY DEF SavesInv, Unrepeated, Alone, Past, Fields
<1> QED BY <1>1, <1>2, <1>3, <1>4 DEF SavesInv

LEMMA FieldLandedSaves ==
    ASSUME Alone, SavesInv, IInv', NEW p \in Passes, NEW f \in Fields, FieldLanded(p, f)
    PROVE  SavesInv'
<1>1. /\ pass[p].at = f /\ pass[p].phase = "replied" /\ user.at = "idle" /\ Proceed(p)
      /\ UNCHANGED <<server, saved, user, failures>>
  BY NobodySaves DEF FieldLanded, At, Active, Fields
<1>2. row.here /\ row.field[f] = pass[p].sent /\ Got(server, f, row.field[f])
  BY <1>1 DEF SavesInv, Keeps
<1> DEFINE g == [row.field EXCEPT ![f] = 0]
           w == [row EXCEPT !.field = g]
<1>3. row \in RowState /\ row.field \in [Fields -> Saves]
  BY DEF SavesInv, IInv, RowInv, RowState
<1>4. g[f] = 0 /\ \A h \in Fields \ {f} : g[h] = row.field[h]
  BY <1>3
<1>5. row' = w
  BY <1>2 DEF FieldLanded, Update
<1> HIDE DEF g
<1>6. w.here = row.here /\ w.field = g /\ w.orders = row.orders
  BY <1>3, ZenonT(60) DEF RowState
<1> HIDE DEF w
<1>7. \A h \in Fields : w.field[h] \in {0, row.field[h]}
  BY <1>4, <1>6
<1>8. Keeps(pass'[p], w, server) /\ pass'[p].at # f
  BY <1>1, <1>2, <1>4, <1>6, <1>7, StepBehind
<1>9. \A h \in Fields : w.field[h] # row.field[h] => Got(server, h, row.field[h])
  BY <1>2, <1>4, <1>6
<1>10. \A i \in DOMAIN w.orders : w.orders[i] \in 1..saved.orders
  BY <1>6 DEF SavesInv, Stored
<1>11. \A h \in {"livestock", "complete"} : Past(pass[p], h) => Past(pass'[p], h) \/ w.field[h] = 0
  BY <1>1, <1>4, <1>6 DEF Past
<1> QED BY <1>1, <1>5, <1>6, <1>7, <1>8, <1>9, <1>10, <1>11, RowMoves

LEMMA StoreOrdersSaves ==
    ASSUME Alone, SavesInv, IInv', NEW p \in Passes, StoreOrders(p) PROVE SavesInv'
<1>1. /\ pass[p].at = "orders" /\ pass[p].phase = "half" /\ user.at = "idle" /\ NextOrder(p)
      /\ UNCHANGED <<server, saved, user, failures>>
  BY NobodySaves DEF StoreOrders, At, Active
<1>2. /\ row.here /\ row.orders # << >> /\ Head(row.orders) \in server.orders
      /\ pass[p].rest = Tail(row.orders) /\ pass[p].list = row.orders
      /\ row.field["notes"] = 0 /\ row.field["livestock"] = 0
  BY <1>1 DEF SavesInv, Keeps
<1>3. row \in RowState /\ row.orders \in Seq(OrderIds)
  BY DEF SavesInv, IInv, RowInv, RowState
<1> DEFINE left == Tail(row.orders)
           w == [row EXCEPT !.orders = left]
<1>4. row' = w
  BY <1>2 DEF StoreOrders, Update
<1>5. /\ left \in Seq(OrderIds)
      /\ \A i \in DOMAIN left : left[i] = row.orders[i + 1] /\ i + 1 \in DOMAIN row.orders
      /\ \A o : Listed(o, row.orders) => o = Head(row.orders) \/ Listed(o, left)
  BY <1>2, <1>3, Behead
<1>6. CASE left = << >>
  <2>1. Proceed(p)
    BY <1>1, <1>2, <1>6 DEF NextOrder
  <2>2. pass'[p].at = "complete" /\ pass'[p].phase = "ready"
    BY <1>1, <2>1, Proceeding, Steps
  <2>3. w.here = row.here /\ w.field = row.field /\ w.orders = << >>
    <3> HIDE DEF left
    <3> QED BY <1>3, <1>6, ZenonT(60) DEF RowState
  <2> HIDE DEF w
  <2>4. Keeps(pass'[p], w, server)
    BY <1>2, <2>2, <2>3 DEF Keeps, Fields
  <2>5. \A o \in 1..saved.orders : Listed(o, row.orders) => Listed(o, w.orders) \/ o \in server.orders
    BY <1>2, <1>5, <1>6, <2>3
  <2> HIDE DEF left
  <2> QED BY <1>1, <1>4, <2>3, <2>4, <2>5, RowMoves DEF Past
<1>7. CASE left # << >>
  <2>1. Becomes(p, [pass[p] EXCEPT !.phase = "sent", !.list = left, !.sent = Head(left)])
    BY <1>1, <1>2, <1>7 DEF NextOrder
  <2> HIDE DEF left
  <2>2. /\ pass'[p].at = "orders" /\ pass'[p].phase = "sent"
        /\ pass'[p].list = left /\ pass'[p].sent = Head(left)
    BY <1>1, <2>1, PostingOrder
  <2>3. w.here = row.here /\ w.field = row.field /\ w.orders = left
    BY <1>3, ZenonT(60) DEF RowState
  <2> HIDE DEF w
  <2>4. Keeps(pass'[p], w, server)
    BY <1>2, <1>7, <2>2, <2>3 DEF Keeps, Fields
  <2>5. \A i \in DOMAIN w.orders : w.orders[i] \in 1..saved.orders
    BY <1>5, <2>3 DEF SavesInv, Stored
  <2>6. \A o \in 1..saved.orders : Listed(o, row.orders) => Listed(o, w.orders) \/ o \in server.orders
    BY <1>2, <1>5, <2>3
  <2> QED BY <1>1, <1>4, <2>3, <2>4, <2>5, <2>6, RowMoves DEF Past
<1> QED BY <1>6, <1>7

LEMMA CloseVisitSaves ==
    ASSUME Alone, SavesInv, IInv', NEW p \in Passes, CloseVisit(p) PROVE SavesInv'
<1>1. /\ pass[p].at = "close" /\ user.at = "idle" /\ UNCHANGED <<server, saved, user, failures>>
  BY NobodySaves DEF CloseVisit, Active
<1>2. Keeps(pass[p], row, server)
  BY DEF SavesInv
<1>3. CASE pass[p].phase = "ready" /\ row.here /\ FullySynced
  <2>1. Becomes(p, [pass[p] EXCEPT !.phase = "half"]) /\ row' = row /\ "half" \in Phases
    BY <1>3 DEF CloseVisit, Phases
  <2>2. pass'[p].at = "close" /\ pass'[p].phase = "half"
    BY <1>1, <2>1, Phased
  <2>3. row.field["complete"] = 0
    BY <1>3 DEF FullySynced, Empty, Fields
  <2>4. Keeps(pass'[p], row, server)
    BY <1>1, <1>2, <2>2, <2>3 DEF Keeps, Fields
  <2> QED BY <1>1, <2>1, <2>4, PassMoves DEF Same, Past
<1>4. CASE ~(pass[p].phase = "ready" /\ row.here /\ FullySynced)
  <2>1. EndPass(p) /\ row' = IF pass[p].phase = "half" THEN Deleted ELSE row
    BY <1>4 DEF CloseVisit
  <2>2. \A w : Keeps(pass'[p], w, server)
    BY <2>1, Ending, NothingToKeep
  <2>3. CASE pass[p].phase = "half"
    <3>1. /\ row.orders = << >> /\ \A f \in Fields : row.field[f] = 0
      BY <1>1, <1>2, <2>3 DEF Keeps, Fields
    <3>2. Deleted.orders = << >> /\ \A f \in Fields : Deleted.field[f] = 0
      BY DEF Deleted, Empty
    <3> QED BY <1>1, <2>1, <2>2, <2>3, <3>1, <3>2, RowMoves DEF Past
  <2>4. CASE pass[p].phase # "half"
    BY <1>1, <2>1, <2>2, <2>4, PassMoves DEF Same, Past
  <2> QED BY <2>3, <2>4
<1> QED BY <1>3, <1>4

\* The server applies what was posted.
LEMMA ServeSaves ==
    ASSUME Alone, SavesInv, IInv', NEW p \in Passes, Serve(p) PROVE SavesInv'
<1>1. /\ pass[p].phase = "sent" /\ Becomes(p, [pass[p] EXCEPT !.phase = "served"])
      /\ UNCHANGED <<row, saved, user, failures>> /\ "served" \in Phases
  BY DEF Serve, device, Phases
<1>2. Keeps(pass[p], row, server) /\ pass[p].phase # "ready"
  BY <1>1 DEF SavesInv
<1>3. Active(p) /\ user.at = "idle"
  BY <1>1, <1>2, NobodySaves DEF Keeps, Active
<1>4. /\ pass'[p].at = pass[p].at /\ pass'[p].phase = "served" /\ pass'[p].sent = pass[p].sent
      /\ pass'[p].list = pass[p].list
  BY <1>1, Phased
<1>5. server \in ServerState /\ server.got \in [Fields -> Seq(Saves)]
  BY DEF SavesInv, IInv, ServerState
<1>6. ASSUME server'.got = server.got, server.orders \subseteq server'.orders,
             server'.orders \subseteq 1..saved.orders,
             pass[p].at = "orders" => pass[p].sent \in server'.orders, pass[p].at \notin Fields
      PROVE  SavesInv'
  <2>1. Keeps(pass'[p], row', server')
    BY <1>1, <1>2, <1>4, <1>6 DEF Keeps
  <2>2. \A q \in Passes : Keeps(pass'[q], row', server')
    BY <2>1 DEF Alone
  <2>3. Stored(row', server', saved')
    BY <1>1, <1>6 DEF SavesInv, Stored, Got
  <2>4. Whole(server', saved') /\ SavingAlone'
    BY <1>1, <1>3, <1>6 DEF SavesInv, Whole, SavingAlone, Got
  <2>5. \A f \in {"livestock", "complete"} : Unrepeated(f)'
    BY <1>1, <1>4, <1>6 DEF SavesInv, Unrepeated, Alone
  <2> QED BY <2>2, <2>3, <2>4, <2>5 DEF SavesInv
<1>7. CASE ServeOnce(p)
  <2>1. CASE pass[p].at = "farmer" /\ server' = [server EXCEPT !.farmer = TRUE]
    <3>1. server'.got = server.got /\ server'.orders = server.orders
      BY <1>5, <2>1, ZenonT(60) DEF ServerState
    <3> QED BY <1>6, <2>1, <3>1 DEF SavesInv, Stored, Fields
  <2>2. CASE pass[p].at = "checkin" /\ server' = [server EXCEPT !.visit = TRUE]
    <3>1. server'.got = server.got /\ server'.orders = server.orders
      BY <1>5, <2>2, ZenonT(60) DEF ServerState
    <3> QED BY <1>6, <2>2, <3>1 DEF SavesInv, Stored, Fields
  <2>3. CASE pass[p].at = "orders" /\ server' = [server EXCEPT !.orders = @ \cup {pass[p].sent}]
    <3>1. server'.got = server.got /\ server'.orders = server.orders \cup {pass[p].sent}
      BY <1>5, <2>3 DEF ServerState
    <3>2. row.orders \in Seq(OrderIds) /\ row.orders # << >> /\ pass[p].sent = Head(row.orders)
      BY <1>2, <2>3 DEF Keeps, SavesInv, IInv, RowInv, RowState
    <3>3. pass[p].sent = row.orders[1] /\ 1 \in DOMAIN row.orders
      BY <3>2
    <3>4. pass[p].sent \in 1..saved.orders
      BY <3>3 DEF SavesInv, Stored
    <3> QED BY <1>6, <2>3, <3>1, <3>4 DEF SavesInv, Stored, Fields
  <2> QED BY <1>7, <2>1, <2>2, <2>3 DEF ServeOnce
<1>8. ASSUME NEW f \in Fields, pass[p].at = f, ServeField(p) PROVE SavesInv'
  <2> DEFINE n == pass[p].sent
             gotf == Append(server.got[f], n)
             got == [server.got EXCEPT ![f] = gotf]
  <2>1. n = row.field[f] /\ n # 0 /\ n \in Saves /\ n = saved.field[f]
    <3>1. n = row.field[f] /\ n # 0
      BY <1>2, <1>8 DEF Keeps
    <3> QED BY <3>1 DEF SavesInv, Stored, IInv, RowInv, RowState
  <2>2. server' = [server EXCEPT !.got = got]
    BY <1>8 DEF ServeField
  <2>3. /\ gotf \in Seq(Saves) /\ Len(gotf) = Len(server.got[f]) + 1
        /\ DOMAIN server.got[f] \subseteq DOMAIN gotf
        /\ \A i \in DOMAIN server.got[f] : gotf[i] = server.got[f][i]
        /\ \E i \in DOMAIN gotf : gotf[i] = n
    <3>1. server.got[f] \in Seq(Saves)
      BY <1>5
    <3> HIDE DEF n
    <3> QED BY <2>1, <3>1, Appended
  <2> HIDE DEF gotf
  <2>4. got[f] = gotf /\ \A g \in Fields \ {f} : got[g] = server.got[g]
    BY <1>5
  <2> HIDE DEF got
  <2>5. server'.got = got /\ server'.orders = server.orders
    BY <1>5, <2>2 DEF ServerState
  <2>6. Got(server', f, n) /\ \A g \in Fields, m \in Saves : Got(server, g, m) => Got(server', g, m)
    BY <2>3, <2>4, <2>5 DEF Got
  <2>7. Keeps(pass'[p], row', server')
    BY <1>1, <1>2, <1>4, <1>8, <2>5, <2>6 DEF Keeps, Fields
  <2>8. \A q \in Passes : Keeps(pass'[q], row', server')
    BY <2>7 DEF Alone
  <2>9. saved.field \in [Fields -> Saves]
    BY DEF SavesInv, IInv, UserInv, SavedState
  <2>10. Stored(row', server', saved')
    BY <1>1, <2>5, <2>6, <2>9 DEF SavesInv, Stored
  <2>11. Whole(server', saved')
    <3>1. CASE f # "complete"
      BY <1>1, <2>4, <2>5, <2>6, <2>9, <3>1 DEF SavesInv, Whole, Fields
    <3>2. CASE f = "complete"
      <4>1. row.orders = << >> /\ row.field["notes"] = 0 /\ row.field["livestock"] = 0
        BY <1>2, <1>8, <3>2 DEF Keeps
      <4>2. \A o \in 1..saved.orders : o \in server.orders
        BY <4>1 DEF SavesInv, Stored, Listed
      <4>3. server'.orders = 1..saved.orders
        BY <2>5, <4>2 DEF SavesInv, Stored
      <4>4. \A g \in Fields : saved.field[g] # 0 => Got(server', g, saved.field[g])
        BY <2>1, <2>6, <2>9, <3>2, <4>1 DEF SavesInv, Stored, Fields
      <4> QED BY <1>1, <2>1, <3>2, <4>3, <4>4 DEF Whole
    <3> QED BY <3>1, <3>2
  <2>12. SavingAlone'
    BY <1>1, <1>3 DEF SavingAlone
  <2>13. ASSUME NEW g \in {"livestock", "complete"} PROVE Unrepeated(g)'
    <3>1. CASE g # f
      BY <1>1, <1>4, <1>8, <2>4, <2>5, <3>1 DEF SavesInv, Unrepeated, Alone, Fields
    <3>2. CASE g = f
      <4>1. failures = 0 => server.got[f] = << >>
        BY <1>1, <2>1, <3>2 DEF SavesInv, Unrepeated, Alone
      <4>2. failures = 0 => Len(gotf) <= 1
        BY <2>3, <4>1
      <4> QED BY <1>1, <1>4, <1>8, <2>1, <2>4, <2>5, <3>2, <4>2 DEF Unrepeated
    <3> QED BY <3>1, <3>2
  <2> QED BY <2>8, <2>10, <2>11, <2>12, <2>13 DEF SavesInv
<1> QED BY <1>7, <1>8 DEF Serve, ServeField

-----------------------------------------------------------------------------
(* The user                                                                 *)

\* A save that goes on, or does not.
LEMMA UserMoves ==
    ASSUME Alone, SavesInv, IInv', UNCHANGED <<row, server, saved, pass, failures>>, SavingAlone'
    PROVE  SavesInv'
<1>1. \A q \in Passes : Keeps(pass'[q], row', server')
  BY DEF SavesInv, Keeps, Got
<1>2. Stored(row', server', saved') /\ Whole(server', saved')
  BY DEF SavesInv, Stored, Whole, Got
<1>3. \A f \in {"livestock", "complete"} : Unrepeated(f)'
  BY DEF SavesInv, Unrepeated
<1> QED BY <1>1, <1>2, <1>3 DEF SavesInv

LEMMA BeginSaveSaves ==
    ASSUME Alone, SavesInv, IInv', NEW what \in Fields \cup {"order"}, BeginSave(what)
    PROVE  SavesInv'
<1> DEFINE u == [NoSave EXCEPT !.at = "resolved", !.what = what]
<1>1. u.at = "resolved"
  BY NoSaveType, ZenonT(60) DEF UserState
<1>2. user' = u /\ UNCHANGED <<row, server, saved, pass, failures>>
      /\ saved.field["complete"] = 0 /\ row.here /\ \A p \in Passes : ~Active(p)
  BY DEF BeginSave, Alone
<1> HIDE DEF u
<1>3. SavingAlone'
  BY <1>1, <1>2 DEF SavingAlone, Active
<1> QED BY <1>2, <1>3, UserMoves

LEMMA ReadOrdersSaves ==
    ASSUME Alone, SavesInv, IInv', ReadOrders PROVE SavesInv'
<1> DEFINE u == [user EXCEPT !.at = "read", !.list = row.orders]
<1>1. user \in UserState
  BY DEF SavesInv, IInv, UserInv
<1>2. u.list = row.orders
  BY <1>1, ZenonT(60) DEF UserState
<1>3. user' = u /\ user.at # "idle" /\ UNCHANGED <<row, server, saved, pass, failures>>
  BY DEF ReadOrders
<1> HIDE DEF u
<1>4. SavingAlone'
  BY <1>2, <1>3 DEF SavesInv, SavingAlone, Active
<1> QED BY <1>3, <1>4, UserMoves

\* A save is written: no pass is alive.
LEMMA Writing ==
    ASSUME Alone, SavesInv, IInv', user.at # "idle", user'.at = "idle",
           UNCHANGED <<server, pass, failures>>,
           Stored(row', server, saved'),
           \A f \in {"livestock", "complete"} :
               \/ row'.field[f] = row.field[f] /\ saved'.field[f] = saved.field[f]
               \/ saved.field[f] = 0
    PROVE  SavesInv'
<1>1. saved.field["complete"] = 0 /\ \A p \in Passes : ~Active(p)
  BY DEF SavesInv, SavingAlone
<1>2. \A q \in Passes : Keeps(pass'[q], row', server')
  BY <1>1 DEF SavesInv, Keeps, Active, Fields
<1>3. Stored(row', server', saved')
  BY DEF Stored, Got
<1>4. Whole(server', saved')
  BY <1>1 DEF SavesInv, Whole
<1>5. SavingAlone'
  BY DEF SavingAlone
<1>6. \A f \in {"livestock", "complete"} : Unrepeated(f)'
  BY DEF SavesInv, Unrepeated
<1> QED BY <1>2, <1>3, <1>4, <1>5, <1>6 DEF SavesInv

LEMMA WriteFieldSaves == ASSUME Alone, SavesInv, IInv', WriteField PROVE SavesInv'
<1> DEFINE f == user.what
           n == saved.field[f] + 1
           sf == [saved.field EXCEPT ![f] = n]
           rf == [row.field EXCEPT ![f] = n]
           v == [saved EXCEPT !.field = sf]
           w == [row EXCEPT !.field = rf, !.status = "pending"]
<1>1. /\ user \in UserState /\ row \in RowState /\ row.field \in [Fields -> Saves]
      /\ saved \in SavedState /\ saved.field \in [Fields -> Saves] /\ user.at = "resolved"
      /\ row.here /\ f \in Fields /\ saved.field[f] < MaxSaves(f)
  BY DEF SavesInv, SavingAlone, IInv, RowInv, RowState, UserInv, SavedState, UserState, WriteField
<1>2. saved' = v /\ row' = w /\ user'.at = "idle" /\ UNCHANGED <<server, pass, failures>>
  BY <1>1, NoSaveType DEF WriteField, Update
<1>3. saved.field[f] \in Nat /\ n # 0
  BY <1>1, BoundsAssumption DEF Saves
<1>4. /\ sf[f] = n /\ rf[f] = n
      /\ \A g \in Fields \ {f} : sf[g] = saved.field[g] /\ rf[g] = row.field[g]
  BY <1>1
<1> HIDE DEF sf, rf
<1>5. v.field = sf /\ v.orders = saved.orders
  BY <1>1, ZenonT(60) DEF SavedState
<1>6. w.field = rf /\ w.orders = row.orders
  BY <1>1, ZenonT(60) DEF RowState
<1> HIDE DEF v, w
<1>7. Stored(w, server, v)
  BY <1>4, <1>5, <1>6 DEF SavesInv, Stored, Listed
<1>8. \A g \in {"livestock", "complete"} :
          \/ w.field[g] = row.field[g] /\ v.field[g] = saved.field[g]
          \/ saved.field[g] = 0
  BY <1>1, <1>3, <1>4, <1>5, <1>6 DEF Fields, MaxSaves
<1> QED BY <1>1, <1>2, <1>7, <1>8, Writing

LEMMA WriteOrdersSaves == ASSUME Alone, SavesInv, IInv', WriteOrders PROVE SavesInv'
<1> DEFINE n == saved.orders + 1
           list == Append(row.orders, n)
           v == [saved EXCEPT !.orders = n]
           w == [row EXCEPT !.orders = list, !.status = "pending"]
<1>1. /\ row \in RowState /\ row.orders \in Seq(OrderIds) /\ row.here
      /\ saved \in SavedState /\ saved.orders \in Nat /\ saved.orders < MaxOrders
      /\ user.at = "read" /\ user.list = row.orders /\ MaxOrders \in Nat
  BY BoundsAssumption DEF SavesInv, SavingAlone, IInv, RowInv, RowState, UserInv, SavedState, WriteOrders
<1>2. saved' = [saved EXCEPT !.orders = n] /\ row' = w /\ user'.at = "idle"
      /\ UNCHANGED <<server, pass, failures>>
  BY <1>1, NoSaveType DEF WriteOrders, Update
<1>3. n \in OrderIds
  BY <1>1 DEF OrderIds
<1>4. /\ DOMAIN row.orders \subseteq DOMAIN list /\ \A i \in DOMAIN row.orders : list[i] = row.orders[i]
      /\ Len(row.orders) + 1 \in DOMAIN list /\ list[Len(row.orders) + 1] = n
      /\ \A i \in DOMAIN list : i \in DOMAIN row.orders \/ i = Len(row.orders) + 1
  <2> HIDE DEF n
  <2> QED BY <1>1, <1>3, Appended
<1> HIDE DEF list
<1>5. w.field = row.field /\ w.orders = list
  BY <1>1, ZenonT(60) DEF RowState
<1> HIDE DEF w
<1>6. v.field = saved.field /\ v.orders = n
  <2> HIDE DEF n
  <2> QED BY <1>1, ZenonT(60) DEF SavedState
<1> HIDE DEF v
<1>7. \A i \in DOMAIN list : list[i] \in 1..n
  BY <1>1, <1>4 DEF SavesInv, Stored
<1>8. server.orders \subseteq 1..n
  BY <1>1 DEF SavesInv, Stored
<1>9. ASSUME NEW o \in 1..n PROVE Listed(o, list) \/ o \in server.orders
  <2>1. CASE o = n
    BY <1>4, <2>1 DEF Listed
  <2>2. CASE o # n
    <3>1. o \in 1..saved.orders
      BY <1>1, <1>9, <2>2
    <3> QED BY <1>4, <3>1 DEF SavesInv, Stored, Listed
  <2> QED BY <2>1, <2>2
<1>10. Stored(w, server, v)
  BY <1>5, <1>6, <1>7, <1>8, <1>9 DEF SavesInv, Stored
<1>11. saved' = v
  BY <1>2 DEF v
<1> QED BY <1>1, <1>2, <1>5, <1>6, <1>10, <1>11, Writing

LEMMA KillSaves == ASSUME Alone, SavesInv, IInv', Kill PROVE SavesInv'
<1>1. \A q \in Passes : Keeps(pass'[q], row', server')
  BY NothingToKeep DEF Kill, Asleep
<1>2. Stored(row', server', saved') /\ Whole(server', saved')
  BY DEF SavesInv, Stored, Whole, Got, Kill
<1>3. SavingAlone'
  BY NoSaveType DEF SavingAlone, Kill
<1>4. \A f \in {"livestock", "complete"} : Unrepeated(f)'
  BY BoundsAssumption DEF Unrepeated, Kill, SavesInv, IInv, RowInv
<1> QED BY <1>1, <1>2, <1>3, <1>4 DEF SavesInv

-----------------------------------------------------------------------------
(* The theorems                                                             *)

LEMMA SavesStart == Init => SavesInv
<1> SUFFICES ASSUME Init PROVE SavesInv
  OBVIOUS
<1>1. \A q \in Passes : Keeps(pass[q], row, server)
  BY NothingToKeep DEF Init, Asleep
<1>2. /\ row.orders = << >> /\ \A f \in Fields : row.field[f] = 0
      /\ \A f \in Fields : saved.field[f] = 0 /\ server.got[f] = << >>
      /\ saved.orders = 0 /\ server.orders = {} /\ user.at = "idle"
  <2>1. CheckedIn.orders = << >> /\ CheckedIn.field = Empty
    BY DeletedType, ZenonT(60) DEF CheckedIn, Deleted, RowState
  <2> QED BY <2>1, NoSaveType DEF Init, Empty
<1>3. Stored(row, server, saved) /\ Whole(server, saved) /\ SavingAlone
  BY <1>2 DEF Stored, Whole, SavingAlone, Fields
<1>4. \A f \in {"livestock", "complete"} : Unrepeated(f)
  BY <1>2 DEF Unrepeated, Fields
<1> QED BY <1>1, <1>3, <1>4, Start DEF SavesInv

LEMMA PassStepSaves ==
    ASSUME Alone, SavesInv, IInv', NEW p \in Passes, PassStep(p) PROVE SavesInv'
  BY FarmerSaves, SyncVisitSaves, CheckInSaves, SyncFieldSaves, FieldLandedSaves,
     SyncOrdersSaves, OrderLandedSaves, StoreOrdersSaves, CloseVisitSaves, ServeSaves,
     ReplySaves DEF PassStep

LEMMA SavesKept == ASSUME Alone, SavesInv, [Next]_vars PROVE SavesInv'
<1>1. IInv'
  BY Kept DEF SavesInv
<1>2. CASE \E p \in Passes : StartPass(p) \/ Watchdog(p) \/ PassStep(p) \/ Lose(p)
  BY <1>1, <1>2, StartPassSaves, WatchdogSaves, PassStepSaves, LoseSaves
<1>3. CASE \E what \in Fields \cup {"order"} : BeginSave(what)
  BY <1>1, <1>3, BeginSaveSaves
<1>4. CASE UserStep
  BY <1>1, <1>4, WriteFieldSaves, ReadOrdersSaves, WriteOrdersSaves DEF UserStep
<1>5. CASE RetryByHand
  <2>1. Same(row', row)
    <3>1. row' = row \/ row' = [row EXCEPT !.status = "pending"]
      BY <1>5 DEF RetryByHand
    <3>2. Same([row EXCEPT !.status = "pending"], row)
      BY SameStatus DEF SavesInv, IInv, RowInv
    <3> QED BY <3>1, <3>2 DEF Same
  <2> QED BY <1>1, <1>5, <2>1, NothingMoves DEF RetryByHand
<1>6. CASE SwitchOnline
  BY <1>1, <1>6, NothingMoves DEF SwitchOnline, Same
<1>7. CASE Kill
  BY <1>1, <1>7, KillSaves
<1>8. CASE UNCHANGED vars
  BY <1>1, <1>8, NothingMoves DEF vars, Same
<1> QED
  BY <1>2, <1>3, <1>4, <1>5, <1>6, <1>7, <1>8 DEF Next

\* What the user was told is saved reaches the server or stays queued, through
\* lost responses, kills and retries (database_helper.dart, sync_engine.dart) -
\* when passes do not overlap and no save falls into one.
THEOREM SavedIsKept == ASSUME Alone PROVE Spec => []NothingSavedIsLost
<1>1. SavesInv => NothingSavedIsLost
  BY DEF SavesInv, Stored, NothingSavedIsLost, Got, Landed, Listed, Queued
<1>2. SavesInv /\ [Next]_vars => SavesInv'
  BY SavesKept
<1> QED
  BY <1>1, <1>2, SavesStart, PTL DEF Spec

\* "the backend expects the visit's other data to already exist before it's
\* marked complete" (_syncVisitSubActions): it does.
THEOREM CompleteIsLast == ASSUME Alone PROVE Spec => []CompleteComesLast
<1>1. SavesInv => CompleteComesLast
  BY DEF SavesInv, Whole, CompleteComesLast, Got, Landed
<1>2. SavesInv /\ [Next]_vars => SavesInv'
  BY SavesKept
<1> QED
  BY <1>1, <1>2, SavesStart, PTL DEF Spec

\* complete_visit and upsert_livestock insert a row each time they are called:
\* they are called once, unless a message is lost or the app is killed.
THEOREM InsertedOnceUnlessLost == ASSUME Alone PROVE Spec => []OnceUnlessLost
<1>1. SavesInv => OnceUnlessLost
  BY DEF SavesInv, Unrepeated, OnceUnlessLost
<1>2. SavesInv /\ [Next]_vars => SavesInv'
  BY SavesKept
<1> QED
  BY <1>1, <1>2, SavesStart, PTL DEF Spec
=================================================================================
