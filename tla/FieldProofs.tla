------------------------------ MODULE FieldProofs ------------------------------
(***************************************************************************)
(* Proofs about a field visit on the server: its plan, its follow-up and   *)
(* the leave that excludes it (FieldWork), and what is recorded of it      *)
(* (VisitRecord), for any number of days, stops, visits and requests.      *)
(*                                                                         *)
(* The argument for leave and plans: a request that has checked a day is   *)
(* right about it, or was overtaken (Checked); the one for follow-ups: a   *)
(* completion that found none still has none to fear, or two were after    *)
(* the same one (Looked).  The argument for a visit's record: a request    *)
(* that is alone with a thing still sees what it has read of it (Alone,    *)
(* and one invariant for each thing).                                      *)
(***************************************************************************)
EXTENDS FieldWork, VisitRecord, SequenceTheorems, FiniteSetTheorems, TLAPS

\* A request in flight has found its day without leave, or without stops.
Checked ==
    \A d \in Days \ overtaken :
        /\ d \in planning => attendance[d] # "ON_LEAVE"
        /\ d \in leaving => PlannedOn(d) = {}

\* A visit's stop is a row of the table.
Referenced == \A v \in DOMAIN visits : visits[v].item \in 0..Len(items)

Customer(c) == visits[c.visit].farmer

\* A completion in flight found what it says, and if it found nothing that it
\* would repeat, there still is nothing but what it closes.
Looked ==
    \A c \in completing :
        /\ c.visit \in DOMAIN visits
        /\ c.due \cup c.found \subseteq DOMAIN followUps
        /\ \A k \in c.found : followUps[k].farmer = Customer(c) /\ followUps[k].day = c.day
        /\ (Adds(c) /\ <<Customer(c), c.day>> \notin contested) =>
              \A k \in PendingOn(Customer(c), {c.day}) : followUps[k].byVisit => k \in c.due

FieldInv ==
    /\ TypeOK
    /\ Checked /\ LeaveStrandsNothing
    /\ Referenced /\ VisitedIsNotPlanned
    /\ NoDuplicateFollowUp /\ Looked

-----------------------------------------------------------------------------
(* Rows of a table                                                          *)

LEMMA RowsOfTable ==
    ASSUME NEW S, NEW s \in Seq(S)
    PROVE  /\ Len(s) \in Nat /\ DOMAIN s = 1..Len(s)
           /\ \A i \in 1..Len(s) : s[i] \in S
  BY LenProperties, ElementOfSeq

\* A table with every row rewritten.
LEMMA Rewritten ==
    ASSUME NEW S, NEW s \in Seq(S), NEW t, DOMAIN t = DOMAIN s,
           t = [i \in DOMAIN s |-> t[i]], \A i \in DOMAIN s : t[i] \in S
    PROVE  t \in Seq(S) /\ Len(t) = Len(s)
  <1>1. Len(s) \in Nat /\ DOMAIN s = 1..Len(s)
    BY RowsOfTable
  <1>2. t \in [1..Len(s) -> S]
    BY <1>1
  <1>3. t \in Seq(S)
    BY <1>1, <1>2, SeqDef
  <1> QED BY <1>1, <1>2, <1>3, LenProperties

LEMMA RowAdded ==
    ASSUME NEW S, NEW s \in Seq(S), NEW e \in S
    PROVE  /\ Append(s, e) \in Seq(S) /\ Len(Append(s, e)) = Len(s) + 1
           /\ \A i \in 1..Len(s) : Append(s, e)[i] = s[i]
           /\ Append(s, e)[Len(s) + 1] = e
  BY AppendProperties

LEMMA DaysType == Days \subseteq Nat /\ LastDay \in Nat /\ MaxRows \in Nat /\ MaxStops \in Nat
  BY FieldAssumption DEF Days

LEMMA FieldInitially == Init => FieldInv
  <1> SUFFICES ASSUME Init PROVE FieldInv
    OBVIOUS
  <1>1. TypeOK
    BY FieldAssumption DEF Init, TypeOK, Days
  <1>2. Checked /\ LeaveStrandsNothing
    BY DEF Init, Checked, LeaveStrandsNothing
  <1>3. Referenced /\ VisitedIsNotPlanned /\ NoDuplicateFollowUp /\ Looked
    BY DEF Init, Referenced, VisitedIsNotPlanned, NoDuplicateFollowUp, Looked
  <1> QED BY <1>1, <1>2, <1>3 DEF FieldInv

-----------------------------------------------------------------------------
(* What a step does to the properties                                       *)

\* Nothing is planned on a day that was empty.
LEMMA NothingPlanned ==
    ASSUME Checked, LeaveStrandsNothing, UNCHANGED <<attendance, planning, leaving, overtaken>>,
           \A d \in Days : PlannedOn(d) = {} => PlannedOn(d)' = {}
    PROVE  Checked' /\ LeaveStrandsNothing'
  BY DEF Checked, LeaveStrandsNothing

\* A request that had checked day d plans on it, and on no other.
LEMMA DayPlanned ==
    ASSUME Checked, LeaveStrandsNothing, UNCHANGED attendance, NEW d \in Days, Writes(d),
           \A e \in Days \ {d} : PlannedOn(e) = {} => PlannedOn(e)' = {}
    PROVE  Checked' /\ LeaveStrandsNothing'
  BY DEF Checked, LeaveStrandsNothing, Writes

\* No stop is planned again.
LEMMA StopsKept ==
    ASSUME TypeOK, Referenced, VisitedIsNotPlanned, UNCHANGED <<visits, reopened>>,
           Len(items) <= Len(items'), Len(items') \in Nat,
           \A i \in DOMAIN items : items[i].status # "PLANNED" => items'[i].status # "PLANNED"
    PROVE  Referenced' /\ VisitedIsNotPlanned'
  <1>1. Len(items) \in Nat /\ DOMAIN items = 1..Len(items)
    BY RowsOfTable DEF TypeOK
  <1>2. Referenced'
    BY <1>1 DEF Referenced
  <1>3. ASSUME NEW v \in DOMAIN visits, visits[v].status = "COMPLETED",
               visits[v].item \notin {0} \cup reopened
        PROVE  items'[visits[v].item].status # "PLANNED"
    <2>1. visits[v].item \in DOMAIN items
      BY <1>1, <1>3 DEF Referenced
    <2> QED BY <2>1, <1>3 DEF VisitedIsNotPlanned
  <1> QED BY <1>2, <1>3 DEF VisitedIsNotPlanned

\* Nothing happens to the follow-ups, nor to the customer of a visit.
LEMMA FollowUpsKept ==
    ASSUME NoDuplicateFollowUp, Looked, UNCHANGED <<followUps, finishing>>,
           \A v \in DOMAIN visits : v \in DOMAIN visits' /\ visits'[v].farmer = visits[v].farmer
    PROVE  NoDuplicateFollowUp' /\ Looked'
  <1>1. NoDuplicateFollowUp'
    BY DEF NoDuplicateFollowUp, finishing
  <1>2. ASSUME NEW c \in completing
        PROVE  /\ c.visit \in DOMAIN visits'
               /\ c.due \cup c.found \subseteq DOMAIN followUps'
               /\ \A k \in c.found : followUps'[k].farmer = Customer(c)' /\ followUps'[k].day = c.day
               /\ (Adds(c) /\ <<Customer(c)', c.day>> \notin contested') =>
                     \A k \in PendingOn(Customer(c), {c.day})' : followUps'[k].byVisit => k \in c.due
    <2>1. c.visit \in DOMAIN visits' /\ Customer(c)' = Customer(c)
      BY DEF Looked, Customer
    <2>2. UNCHANGED <<followUps, contested>>
      BY DEF finishing
    <2>3. PendingOn(Customer(c), {c.day})' = PendingOn(Customer(c), {c.day})
      BY <2>1, <2>2 DEF PendingOn
    <2> QED BY <2>1, <2>2, <2>3 DEF Looked
  <1>3. Looked'
    BY <1>2 DEF Looked, finishing, Adds
  <1> QED BY <1>1, <1>3

-----------------------------------------------------------------------------
(* Planning                                                                 *)

LEMMA CheckLeaveStep ==
    ASSUME FieldInv, NEW d \in Days, CheckLeave(d) PROVE FieldInv'
  <1>1. TypeOK'
    BY DEF FieldInv, TypeOK, CheckLeave, finishing
  <1>2. Checked' /\ LeaveStrandsNothing'
    BY DEF FieldInv, Checked, LeaveStrandsNothing, CheckLeave, PlannedOn
  <1>3. Referenced' /\ VisitedIsNotPlanned'
    BY DEF FieldInv, Referenced, VisitedIsNotPlanned, CheckLeave
  <1>4. NoDuplicateFollowUp' /\ Looked'
    BY FollowUpsKept DEF FieldInv, CheckLeave
  <1> QED BY <1>1, <1>2, <1>3, <1>4 DEF FieldInv

LEMMA StopType ==
    ASSUME NEW f \in Farmers, NEW d \in Days
    PROVE  Stop(f, d) \in Item /\ Stop(f, d).day = d /\ Stop(f, d).status = "PLANNED"
  BY DaysType DEF Stop, Item, Days

\* The table of stops when the plan of day d is saved with the stops s.
LEMMA PlanSaved ==
    ASSUME TypeOK, NEW d \in Days, NEW s \in Stops, UpsertPlan(s, d)
    PROVE  /\ s \in Seq(Farmers) /\ Len(s) \in Nat
           /\ items' \in Seq(Item) /\ Len(items') = Len(items) + Len(s)
           /\ \A i \in DOMAIN items : items'[i] = IF items[i].day = d
                 THEN [items[i] EXCEPT !.status = "DELETED"] ELSE items[i]
           /\ \A i \in DOMAIN items' \ DOMAIN items :
                 items'[i].day = d /\ items'[i].status = "PLANNED"
  <1> DEFINE old == [i \in DOMAIN items |-> IF items[i].day = d
                       THEN [items[i] EXCEPT !.status = "DELETED"] ELSE items[i]]
             new == [n \in DOMAIN s |-> Stop(s[n], d)]
  <1>1. PICK n \in 0..MaxStops : s \in [1..n -> Farmers]
    BY DEF Stops
  <1>2. s \in Seq(Farmers)
    BY <1>1, DaysType, SeqDef
  <1>3. /\ items \in Seq(Item) /\ Len(items) \in Nat /\ DOMAIN items = 1..Len(items)
        /\ \A i \in DOMAIN items : items[i] \in Item
    BY RowsOfTable DEF TypeOK
  <1>4. Len(s) \in Nat /\ DOMAIN s = 1..Len(s) /\ \A k \in DOMAIN s : s[k] \in Farmers
    BY <1>2, RowsOfTable
  <1>5. old \in Seq(Item) /\ Len(old) = Len(items)
    <2>1. \A i \in DOMAIN items : old[i] \in Item
      BY <1>3 DEF Item
    <2> QED BY <1>3, <2>1, Rewritten
  <1>6. new \in Seq(Item) /\ Len(new) = Len(s)
    <2>1. \A k \in DOMAIN s : new[k] \in Item
      BY <1>4, StopType
    <2>2. new \in [1..Len(s) -> Item]
      BY <1>4, <2>1
    <2>3. new \in Seq(Item)
      BY <1>4, <2>2, SeqDef
    <2> QED BY <1>4, <2>2, <2>3, LenProperties
  <1>7. items' = old \o new
    BY DEF UpsertPlan
  <1>12. /\ \A i \in DOMAIN items : old[i] = IF items[i].day = d
                 THEN [items[i] EXCEPT !.status = "DELETED"] ELSE items[i]
         /\ \A k \in DOMAIN s : new[k] = Stop(s[k], d)
    OBVIOUS
  <1> HIDE DEF old, new
  <1>8. /\ items' \in Seq(Item) /\ Len(items') = Len(old) + Len(new)
        /\ \A i \in 1..(Len(old) + Len(new)) :
              items'[i] = IF i <= Len(old) THEN old[i] ELSE new[i - Len(old)]
    <2>1. /\ old \o new \in Seq(Item) /\ Len(old \o new) = Len(old) + Len(new)
          /\ \A i \in 1..(Len(old) + Len(new)) :
                (old \o new)[i] = IF i <= Len(old) THEN old[i] ELSE new[i - Len(old)]
      BY <1>5, <1>6, ConcatProperties
    <2> QED BY <2>1, <1>7
  <1>9. DOMAIN items' = 1..(Len(items) + Len(s))
    BY <1>5, <1>6, <1>8, RowsOfTable
  <1>10. ASSUME NEW i \in DOMAIN items
         PROVE  items'[i] = old[i]
    BY <1>3, <1>4, <1>5, <1>6, <1>8
  <1>11. ASSUME NEW i \in DOMAIN items' \ DOMAIN items
         PROVE  items'[i].day = d /\ items'[i].status = "PLANNED"
    <2>1. i - Len(items) \in DOMAIN s /\ items'[i] = new[i - Len(items)]
      BY <1>3, <1>4, <1>5, <1>6, <1>8, <1>9
    <2> QED BY <2>1, <1>4, <1>12, StopType
  <1> QED BY <1>2, <1>4, <1>5, <1>6, <1>8, <1>10, <1>11, <1>12

LEMMA UpsertPlanStep ==
    ASSUME FieldInv, NEW d \in Days, NEW s \in Stops, UpsertPlan(s, d) PROVE FieldInv'
  <1> USE DEF FieldInv
  <1>1. /\ items \in Seq(Item) /\ Len(items) \in Nat /\ DOMAIN items = 1..Len(items)
        /\ \A i \in DOMAIN items : items[i] \in Item
        /\ visits \in Seq(Visit) /\ Len(visits) \in Nat /\ DOMAIN visits = 1..Len(visits)
        /\ \A v \in DOMAIN visits : visits[v] \in Visit
        /\ Len(followUps) \in Nat
    BY RowsOfTable DEF TypeOK
  <1>2. /\ Len(s) \in Nat
        /\ items' \in Seq(Item) /\ Len(items') = Len(items) + Len(s)
        /\ \A i \in DOMAIN items : items'[i] = IF items[i].day = d
              THEN [items[i] EXCEPT !.status = "DELETED"] ELSE items[i]
        /\ \A i \in DOMAIN items' \ DOMAIN items :
              items'[i].day = d /\ items'[i].status = "PLANNED"
    BY PlanSaved
  <1>3. DOMAIN items' = 1..Len(items')
    BY <1>2, RowsOfTable
  <1>4. /\ visits' \in Seq(Visit) /\ Len(visits') = Len(visits) /\ DOMAIN visits' = DOMAIN visits
        /\ \A v \in DOMAIN visits :
              /\ visits'[v].status = visits[v].status /\ visits'[v].farmer = visits[v].farmer
              /\ visits'[v].item = IF visits[v].item # 0 /\ items[visits[v].item].day = d
                                   THEN 0 ELSE visits[v].item
    <2>1. ASSUME NEW v \in DOMAIN visits PROVE [visits[v] EXCEPT !.item = 0] \in Visit
      <3>1. visits[v] \in Visit /\ 0 \in 0..MaxRows
        BY <1>1, DaysType
      <3> QED BY <3>1 DEF Visit
    <2>2. /\ DOMAIN visits' = DOMAIN visits /\ visits' = [v \in DOMAIN visits |-> visits'[v]]
          /\ \A v \in DOMAIN visits : visits'[v] =
                IF visits[v].item # 0 /\ items[visits[v].item].day = d
                THEN [visits[v] EXCEPT !.item = 0] ELSE visits[v]
      BY DEF UpsertPlan, StopOf
    <2>3. visits' \in Seq(Visit) /\ Len(visits') = Len(visits)
      BY <1>1, <2>1, <2>2, Rewritten
    <2> QED BY <1>1, <2>2, <2>3 DEF Visit
  <1>5. TypeOK'
    <2>1. planning' \cup leaving' \cup overtaken' \subseteq Days /\ reopened' \subseteq 1..MaxRows
      BY DEF TypeOK, UpsertPlan, Writes, inFlight
    <2>4. completing' \subseteq Completion /\ contested' \subseteq Farmers \X Days
      BY DEF TypeOK, UpsertPlan, finishing
    <2>2. Len(items') + Len(visits') + Len(followUps') <= MaxRows
      <3>1. Len(items) + Len(visits) + Len(followUps) + Len(s) <= MaxRows /\ followUps' = followUps
        BY DEF UpsertPlan, Room
      <3> QED BY <3>1, <1>1, <1>2, <1>4
    <2>3. /\ today' \in Days /\ followUps' \in Seq(FollowUp)
          /\ attendance' \in [Days -> {"NONE", "STARTED", "ON_LEAVE"}]
          /\ plan' \in [Days -> {"NONE", "SUBMITTED", "IN_PROGRESS"}]
      BY DEF TypeOK, UpsertPlan
    <2> QED BY <1>2, <1>4, <2>1, <2>2, <2>3, <2>4 DEF TypeOK
  <1>6. \A e \in Days : e # d \/ s = << >> => (PlannedOn(e) = {} => PlannedOn(e)' = {})
    <2>1. ASSUME NEW e \in Days, e # d \/ s = << >>, PlannedOn(e) = {}, NEW i \in PlannedOn(e)'
          PROVE  FALSE
      <3>1. i \in DOMAIN items
        <4>1. CASE s = << >>
          BY <4>1, <2>1, <1>1, <1>2, <1>3 DEF PlannedOn
        <4>2. CASE e # d
          BY <4>2, <2>1, <1>2 DEF PlannedOn
        <4> QED BY <2>1, <4>1, <4>2
      <3>2. items'[i].day = e /\ items'[i].status = "PLANNED"
        BY <2>1 DEF PlannedOn
      <3>3. items[i].day = e /\ items[i].status = "PLANNED"
        BY <1>1, <1>2, <3>1, <3>2 DEF Item
      <3> QED BY <2>1, <3>1, <3>3 DEF PlannedOn
    <2> QED BY <2>1
  <1>7. Checked' /\ LeaveStrandsNothing'
    <2>1. CASE s = << >>
      BY <2>1, <1>6, NothingPlanned DEF UpsertPlan, inFlight
    <2>2. CASE s # << >>
      BY <2>2, <1>6, DayPlanned DEF UpsertPlan
    <2> QED BY <2>1, <2>2
  <1>8. Referenced'
    <2>1. ASSUME NEW v \in DOMAIN visits PROVE visits'[v].item \in 0..Len(items')
      <3>1. visits[v].item \in 0..Len(items)
        BY DEF Referenced
      <3> QED BY <3>1, <1>1, <1>2, <1>4
    <2> QED BY <2>1, <1>4 DEF Referenced
  <1>9. VisitedIsNotPlanned'
    <2>1. ASSUME NEW v \in DOMAIN visits, visits'[v].status = "COMPLETED",
                 visits'[v].item \notin {0} \cup reopened
          PROVE  items'[visits'[v].item].status # "PLANNED"
      <3>1. visits'[v].item = visits[v].item /\ visits[v].item \in DOMAIN items
        BY <2>1, <1>1, <1>4 DEF Referenced
      <3>2. items[visits[v].item].status # "PLANNED" /\ items[visits[v].item].day # d
        BY <2>1, <3>1, <1>4 DEF VisitedIsNotPlanned
      <3> QED BY <3>1, <3>2, <1>2
    <2>2. UNCHANGED reopened
      BY DEF UpsertPlan, Writes, inFlight
    <2> QED BY <2>1, <2>2, <1>4 DEF VisitedIsNotPlanned
  <1>10. NoDuplicateFollowUp' /\ Looked'
    BY <1>4, FollowUpsKept DEF UpsertPlan
  <1> QED BY <1>5, <1>7, <1>8, <1>9, <1>10

LEMMA ItemsType ==
    ASSUME TypeOK
    PROVE  /\ items \in Seq(Item) /\ Len(items) \in Nat /\ DOMAIN items = 1..Len(items)
           /\ \A i \in DOMAIN items : items[i] \in Item
           /\ \A i \in DOMAIN items : OnPlan(i) => items[i].day \in Days
  <1>1. /\ items \in Seq(Item) /\ Len(items) \in Nat /\ DOMAIN items = 1..Len(items)
        /\ \A i \in DOMAIN items : items[i] \in Item
    BY RowsOfTable DEF TypeOK
  <1>2. ASSUME NEW i \in DOMAIN items, OnPlan(i) PROVE items[i].day \in Days
    BY <1>1, <1>2, DaysType DEF OnPlan, Item, Days
  <1> QED BY <1>1, <1>2

LEMMA VisitsType ==
    ASSUME TypeOK
    PROVE  /\ visits \in Seq(Visit) /\ Len(visits) \in Nat /\ DOMAIN visits = 1..Len(visits)
           /\ \A v \in DOMAIN visits : visits[v] \in Visit
  BY RowsOfTable DEF TypeOK

LEMMA FollowUpsType ==
    ASSUME TypeOK
    PROVE  /\ followUps \in Seq(FollowUp) /\ Len(followUps) \in Nat
           /\ DOMAIN followUps = 1..Len(followUps)
           /\ \A k \in DOMAIN followUps : followUps[k] \in FollowUp
  BY RowsOfTable DEF TypeOK

LEMMA StopRewritten ==
    ASSUME TypeOK, NEW i \in DOMAIN items, NEW e \in Item, NEW t, t = [items EXCEPT ![i] = e]
    PROVE  /\ t \in Seq(Item) /\ Len(t) = Len(items) /\ DOMAIN t = DOMAIN items
           /\ t[i] = e /\ \A j \in DOMAIN items \ {i} : t[j] = items[j]
  <1>1. /\ DOMAIN t = DOMAIN items /\ t = [j \in DOMAIN items |-> t[j]]
        /\ t[i] = e /\ \A j \in DOMAIN items \ {i} : t[j] = items[j]
    BY ItemsType
  <1>2. t \in Seq(Item) /\ Len(t) = Len(items)
    BY <1>1, ItemsType, Rewritten
  <1> QED BY <1>1, <1>2

\* A stop changes, and is not planned again.
LEMMA StopChanged ==
    ASSUME TypeOK, Referenced, VisitedIsNotPlanned, NEW i \in DOMAIN items, NEW e \in Item,
           items' = [items EXCEPT ![i] = e], UNCHANGED <<visits, reopened>>,
           e.status = "PLANNED" => items[i].status = "PLANNED"
    PROVE  /\ items' \in Seq(Item) /\ Len(items') = Len(items)
           /\ Referenced' /\ VisitedIsNotPlanned'
           /\ \A d \in Days : (e.status # "PLANNED" \/ e.day # d) =>
                 (PlannedOn(d) = {} => PlannedOn(d)' = {})
  <1>1. /\ items' \in Seq(Item) /\ Len(items') = Len(items) /\ DOMAIN items' = DOMAIN items
        /\ items'[i] = e /\ \A j \in DOMAIN items \ {i} : items'[j] = items[j]
    BY StopRewritten
  <1>2. Referenced' /\ VisitedIsNotPlanned'
    BY <1>1, ItemsType, StopsKept
  <1>3. ASSUME NEW d \in Days, e.status # "PLANNED" \/ e.day # d, PlannedOn(d) = {},
               NEW j \in PlannedOn(d)'
        PROVE  FALSE
    BY <1>1, <1>3 DEF PlannedOn
  <1> QED BY <1>1, <1>2, <1>3

LEMMA ItemStatusType ==
    ASSUME NEW e \in Item, NEW status \in {"PLANNED", "IN_PROGRESS", "COMPLETED", "SKIPPED", "DELETED"}
    PROVE  [e EXCEPT !.status = status] \in Item /\ [e EXCEPT !.status = status].status = status
  BY DEF Item

\* A stop that is set back to PLANNED takes itself, and the leave of its day,
\* out of what is promised.
LEMMA UpdateItemStatusStep ==
    ASSUME FieldInv, NEW i \in DOMAIN items, NEW status \in {"PLANNED", "COMPLETED", "SKIPPED"},
           UpdateItemStatus(i, status)
    PROVE  FieldInv'
  <1> USE DEF FieldInv
  <1> DEFINE e == [items[i] EXCEPT !.status = status]
  <1>1. /\ e \in Item /\ e.status = status /\ e.day = items[i].day
        /\ items' = [items EXCEPT ![i] = e] /\ UNCHANGED visits
    <2>1. items[i] \in Item
      BY ItemsType
    <2>2. e \in Item /\ e.status = status /\ e.day = items[i].day
      BY <2>1, ItemStatusType DEF Item
    <2> QED BY <2>2 DEF UpdateItemStatus, Rest
  <1>t. TypeOK
    OBVIOUS
  <1> HIDE DEF e
  <1>2. /\ items' \in Seq(Item) /\ Len(items') = Len(items) /\ DOMAIN items' = DOMAIN items
        /\ items'[i] = e /\ \A j \in DOMAIN items \ {i} : items'[j] = items[j]
    <2>1. e \in Item /\ items' = [items EXCEPT ![i] = e]
      BY <1>1
    <2>2. \A a \in Item : \A t : t = [items EXCEPT ![i] = a] =>
             /\ t \in Seq(Item) /\ Len(t) = Len(items) /\ DOMAIN t = DOMAIN items
             /\ t[i] = a /\ \A j \in DOMAIN items \ {i} : t[j] = items[j]
      BY <1>t, StopRewritten
    <2> QED BY <2>1, <2>2
  <1>3. /\ DOMAIN items = 1..Len(items) /\ Len(items) \in Nat /\ Len(items) <= MaxRows
        /\ OnPlan(i) /\ items[i].day \in Days
    <2>1. OnPlan(i)
      BY DEF UpdateItemStatus
    <2>2. DOMAIN items = 1..Len(items) /\ Len(items) \in Nat /\ items[i].day \in Days
      BY <2>1, <1>t, ItemsType
    <2>3. Len(visits) \in Nat /\ Len(followUps) \in Nat
      BY <1>t, VisitsType, FollowUpsType
    <2>4. Len(items) + Len(visits) + Len(followUps) <= MaxRows /\ MaxRows \in Nat
      BY <1>t, DaysType DEF TypeOK
    <2>5. Len(items) <= MaxRows
      BY <2>2, <2>3, <2>4
    <2> QED BY <2>1, <2>2, <2>5
  <1>4. TypeOK'
    <2>1. plan' \in [Days -> {"NONE", "SUBMITTED", "IN_PROGRESS"}]
      BY <1>3 DEF TypeOK, UpdateItemStatus
    <2>2. reopened' \subseteq 1..MaxRows /\ overtaken' \subseteq Days
      BY <1>3, DaysType DEF TypeOK, UpdateItemStatus, Reopens
    <2> QED BY <1>1, <1>2, <2>1, <2>2 DEF TypeOK, UpdateItemStatus, Rest, finishing
  <1>5. Referenced'
    BY <1>1, <1>2 DEF Referenced
  <1>6. VisitedIsNotPlanned'
    <2>1. ASSUME NEW v \in DOMAIN visits, visits[v].status = "COMPLETED",
                 visits[v].item \notin {0} \cup reopened', items'[visits[v].item].status = "PLANNED"
          PROVE  FALSE
      <3>1. visits[v].item \in DOMAIN items
        BY <2>1, <1>3 DEF Referenced
      <3>2. CASE visits[v].item = i
        BY <2>1, <3>2, <1>1, <1>2 DEF UpdateItemStatus, Reopens, VisitedAt
      <3>3. CASE visits[v].item # i
        <4>1. visits[v].item \notin reopened
          BY <2>1, <3>3 DEF UpdateItemStatus, Reopens
        <4> QED BY <2>1, <3>1, <3>3, <4>1, <1>2 DEF VisitedIsNotPlanned
      <3> QED BY <3>2, <3>3
    <2> QED BY <2>1, <1>1 DEF VisitedIsNotPlanned
  <1>7. UNCHANGED <<attendance, planning, leaving>> /\ overtaken \subseteq overtaken'
    BY DEF UpdateItemStatus, Rest, Reopens
  <1>8. ASSUME NEW d \in Days \ overtaken', PlannedOn(d) = {},
               d \in leaving \/ attendance[d] = "ON_LEAVE", NEW j \in PlannedOn(d)'
        PROVE  FALSE
    <2>1. j \in DOMAIN items /\ items'[j].day = d /\ items'[j].status = "PLANNED"
      BY <1>8, <1>2 DEF PlannedOn
    <2>2. CASE j # i
      BY <2>1, <2>2, <1>2, <1>8 DEF PlannedOn
    <2>3. CASE j = i
      <3>1. status = "PLANNED" /\ items[i].day = d
        BY <2>1, <2>3, <1>1, <1>2
      <3> QED BY <3>1, <1>8 DEF UpdateItemStatus, Reopens
    <2> QED BY <2>2, <2>3
  <1>9. Checked' /\ LeaveStrandsNothing'
    BY <1>7, <1>8 DEF Checked, LeaveStrandsNothing
  <1>10. NoDuplicateFollowUp' /\ Looked'
    BY <1>1, FollowUpsKept DEF UpdateItemStatus, Rest
  <1> QED BY <1>4, <1>5, <1>6, <1>9, <1>10

LEMMA SkipMissedItemStep ==
    ASSUME FieldInv, NEW i \in DOMAIN items, SkipMissedItem(i) PROVE FieldInv'
  <1> USE DEF FieldInv
  <1> DEFINE e == [items[i] EXCEPT !.status = "SKIPPED"]
  <1>1. e \in Item /\ e.status = "SKIPPED" /\ items' = [items EXCEPT ![i] = e]
        /\ UNCHANGED <<visits, reopened>>
    BY ItemsType, ItemStatusType DEF SkipMissedItem, Rest, inFlight
  <1> HIDE DEF e
  <1>2. /\ items' \in Seq(Item) /\ Len(items') = Len(items)
        /\ Referenced' /\ VisitedIsNotPlanned'
        /\ \A d \in Days : PlannedOn(d) = {} => PlannedOn(d)' = {}
    BY <1>1, StopChanged
  <1>3. TypeOK'
    BY <1>2 DEF TypeOK, SkipMissedItem, Rest, inFlight, finishing
  <1>4. Checked' /\ LeaveStrandsNothing'
    BY <1>2, NothingPlanned DEF SkipMissedItem, Rest, inFlight
  <1>5. NoDuplicateFollowUp' /\ Looked'
    BY FollowUpsKept DEF SkipMissedItem, Rest
  <1> QED BY <1>2, <1>3, <1>4, <1>5

LEMMA PlanForType ==
    ASSUME TypeOK, NEW d \in Days, PlanFor(d)
    PROVE  plan' \in [Days -> {"NONE", "SUBMITTED", "IN_PROGRESS"}]
  BY DEF TypeOK, PlanFor

LEMMA WritesType ==
    ASSUME TypeOK, NEW d \in Days, Writes(d)
    PROVE  planning' \cup leaving' \cup overtaken' \subseteq Days /\ reopened' \subseteq 1..MaxRows
  BY DEF TypeOK, Writes

LEMMA UpdateItemStep ==
    ASSUME FieldInv, NEW i \in DOMAIN items, NEW d \in Days, UpdateItem(i, d) PROVE FieldInv'
  <1> USE DEF FieldInv
  <1> DEFINE e == [items[i] EXCEPT !.day = d]
  <1>1. /\ e \in Item /\ e.day = d /\ e.status = items[i].status
        /\ items' = [items EXCEPT ![i] = e] /\ UNCHANGED <<visits, reopened>>
    <2>1. items[i] \in Item /\ d \in 0..LastDay
      BY ItemsType, DaysType DEF Days
    <2> QED BY <2>1 DEF UpdateItem, Rest, Item, Writes
  <1> HIDE DEF e
  <1>2. /\ items' \in Seq(Item) /\ Len(items') = Len(items)
        /\ Referenced' /\ VisitedIsNotPlanned'
        /\ \A c \in Days \ {d} : PlannedOn(c) = {} => PlannedOn(c)' = {}
    BY <1>1, StopChanged
  <1>3. TypeOK'
    BY <1>2, PlanForType, WritesType DEF TypeOK, UpdateItem, Rest, finishing
  <1>4. Checked' /\ LeaveStrandsNothing'
    BY <1>2, DayPlanned DEF UpdateItem, Rest
  <1>5. NoDuplicateFollowUp' /\ Looked'
    BY FollowUpsKept DEF UpdateItem, Rest
  <1> QED BY <1>2, <1>3, <1>4, <1>5

LEMMA CarryOverItemStep ==
    ASSUME FieldInv, NEW i \in DOMAIN items, NEW d \in Days, CarryOverItem(i, d) PROVE FieldInv'
  <1> USE DEF FieldInv
  <1> DEFINE e == [items[i] EXCEPT !.status = "SKIPPED"]
             t == [items EXCEPT ![i] = e]
             stop == Stop(items[i].farmer, d)
  <1>1. e \in Item /\ e.status = "SKIPPED" /\ items' = Append(t, stop) /\ UNCHANGED <<visits, reopened>>
    BY ItemsType, ItemStatusType DEF CarryOverItem, Rest, Writes
  <1>2. stop \in Item /\ stop.day = d
    <2>1. items[i].farmer \in Farmers
      BY ItemsType DEF Item
    <2> QED BY <2>1, StopType
  <1>3. t = [items EXCEPT ![i] = e]
    OBVIOUS
  <1> HIDE DEF e, t, stop
  <1>4. /\ t \in Seq(Item) /\ Len(t) = Len(items) /\ DOMAIN t = DOMAIN items
        /\ t[i] = e /\ \A j \in DOMAIN items \ {i} : t[j] = items[j]
    BY <1>1, <1>3, StopRewritten
  <1>5. /\ items' \in Seq(Item) /\ Len(items') = Len(items) + 1
        /\ \A j \in 1..Len(items) : items'[j] = t[j]
        /\ items'[Len(items) + 1] = stop
    BY <1>1, <1>2, <1>4, RowAdded
  <1>6. /\ Len(items) \in Nat /\ DOMAIN items = 1..Len(items)
        /\ DOMAIN items' = 1..(Len(items) + 1)
    BY <1>5, ItemsType, RowsOfTable
  <1>7. Referenced' /\ VisitedIsNotPlanned'
    <2>1. \A j \in DOMAIN items : items[j].status # "PLANNED" => items'[j].status # "PLANNED"
      BY <1>1, <1>4, <1>5, <1>6
    <2>2. Len(items') \in Nat /\ Len(items) <= Len(items')
      BY <1>5, <1>6
    <2> QED BY <1>1, <2>1, <2>2, StopsKept
  <1>8. TypeOK'
    <2>1. Len(items') + Len(visits') + Len(followUps') <= MaxRows
      BY <1>5, <1>6, VisitsType, FollowUpsType, DaysType DEF CarryOverItem, Rest, Room
    <2> QED BY <1>5, <2>1, PlanForType, WritesType DEF TypeOK, CarryOverItem, Rest, finishing
  <1>9. ASSUME NEW c \in Days \ {d}, PlannedOn(c) = {}, NEW j \in PlannedOn(c)' PROVE FALSE
    <2>1. items'[j].day = c /\ items'[j].status = "PLANNED" /\ j \in DOMAIN items'
      BY <1>9 DEF PlannedOn
    <2>2. j \in DOMAIN items /\ j # i
      BY <2>1, <1>1, <1>2, <1>4, <1>5, <1>6
    <2> QED BY <2>1, <2>2, <1>4, <1>5, <1>6, <1>9 DEF PlannedOn
  <1>10. Checked' /\ LeaveStrandsNothing'
    BY <1>9, DayPlanned DEF CarryOverItem, Rest
  <1>11. NoDuplicateFollowUp' /\ Looked'
    BY FollowUpsKept DEF CarryOverItem, Rest
  <1> QED BY <1>7, <1>8, <1>10, <1>11

-----------------------------------------------------------------------------
(* Attendance                                                               *)

LEMMA NoItemMoves ==
    ASSUME FieldInv, UNCHANGED <<items, visits, followUps, reopened, finishing>>
    PROVE  /\ Referenced' /\ VisitedIsNotPlanned' /\ NoDuplicateFollowUp' /\ Looked'
           /\ \A d \in Days : PlannedOn(d)' = PlannedOn(d)
  <1>1. NoDuplicateFollowUp' /\ Looked'
    BY FollowUpsKept DEF FieldInv
  <1> QED BY <1>1 DEF FieldInv, Referenced, VisitedIsNotPlanned, PlannedOn

LEMMA AttendStep == ASSUME FieldInv, Attend PROVE FieldInv'
  <1> USE DEF FieldInv
  <1>1. UNCHANGED <<items, visits, followUps, reopened, finishing>>
    BY DEF Attend, StartWork, NextDay, CheckPlan, MarkLeave, RevokeLeave, inFlight
  <1>2. TypeOK'
    <2>1. CASE StartWork \/ NextDay
      BY <2>1, <1>1, DaysType DEF TypeOK, StartWork, NextDay, inFlight, finishing, Days
    <2>2. ASSUME NEW d \in Days, CheckPlan(d) \/ MarkLeave(d) \/ RevokeLeave(d) PROVE TypeOK'
      BY <2>2, <1>1 DEF TypeOK, CheckPlan, MarkLeave, RevokeLeave, finishing
    <2> QED BY <2>1, <2>2 DEF Attend
  <1>3. Checked' /\ LeaveStrandsNothing'
    <2> USE NoItemMoves DEF Checked, LeaveStrandsNothing
    <2>1. CASE StartWork
      BY <2>1, <1>1 DEF StartWork, inFlight, TypeOK
    <2>2. CASE NextDay
      BY <2>2, <1>1 DEF NextDay, inFlight
    <2>3. ASSUME NEW d \in Days, CheckPlan(d) PROVE Checked' /\ LeaveStrandsNothing'
      BY <2>3, <1>1 DEF CheckPlan
    <2>4. ASSUME NEW d \in Days, MarkLeave(d) PROVE Checked' /\ LeaveStrandsNothing'
      BY <2>4, <1>1 DEF MarkLeave, TypeOK
    <2>5. ASSUME NEW d \in Days, RevokeLeave(d) PROVE Checked' /\ LeaveStrandsNothing'
      BY <2>5, <1>1 DEF RevokeLeave, TypeOK
    <2> QED BY <2>1, <2>2, <2>3, <2>4, <2>5 DEF Attend
  <1> QED BY <1>1, <1>2, <1>3, NoItemMoves

-----------------------------------------------------------------------------
(* Visits                                                                   *)

CheckedInVisit(f, i) == [farmer |-> f, item |-> i, status |-> "CHECKED_IN"]

LEMMA VisitAdded ==
    ASSUME TypeOK, NEW f \in Farmers, NEW i \in 0..MaxRows,
           visits' = Append(visits, CheckedInVisit(f, i))
    PROVE  /\ visits' \in Seq(Visit) /\ Len(visits') = Len(visits) + 1
           /\ DOMAIN visits' = 1..(Len(visits) + 1)
           /\ \A v \in DOMAIN visits : visits'[v] = visits[v]
           /\ visits'[Len(visits) + 1].item = i /\ visits'[Len(visits) + 1].status = "CHECKED_IN"
  <1> DEFINE w == CheckedInVisit(f, i)
  <1>1. w \in Visit /\ w.item = i /\ w.status = "CHECKED_IN"
    BY DEF Visit, CheckedInVisit
  <1>2. visits' = Append(visits, w)
    OBVIOUS
  <1> HIDE DEF w
  <1>3. /\ Append(visits, w) \in Seq(Visit) /\ Len(Append(visits, w)) = Len(visits) + 1
        /\ \A v \in 1..Len(visits) : Append(visits, w)[v] = visits[v]
        /\ Append(visits, w)[Len(visits) + 1] = w
    BY <1>1, VisitsType, RowAdded
  <1>4. /\ visits' \in Seq(Visit) /\ Len(visits') = Len(visits) + 1
        /\ \A v \in 1..Len(visits) : visits'[v] = visits[v]
        /\ visits'[Len(visits) + 1] = w
    BY <1>2, <1>3
  <1> QED BY <1>1, <1>4, VisitsType, RowsOfTable

\* A visit is added, and no stop is planned again.
LEMMA CheckedIn ==
    ASSUME FieldInv, NEW i \in 0..Len(items'), NEW f \in Farmers, i <= MaxRows,
           visits' = Append(visits, CheckedInVisit(f, i)), UNCHANGED <<reopened, followUps, finishing>>,
           Len(items) <= Len(items'), Len(items') \in Nat,
           \A j \in DOMAIN items : items[j].status # "PLANNED" => items'[j].status # "PLANNED"
    PROVE  /\ visits' \in Seq(Visit) /\ Len(visits') = Len(visits) + 1
           /\ Referenced' /\ VisitedIsNotPlanned' /\ NoDuplicateFollowUp' /\ Looked'
  <1> USE DEF FieldInv
  <1>1. i \in 0..MaxRows
    BY DaysType
  <1>2. /\ visits' \in Seq(Visit) /\ Len(visits') = Len(visits) + 1
        /\ DOMAIN visits' = 1..(Len(visits) + 1)
        /\ \A v \in DOMAIN visits : visits'[v] = visits[v]
        /\ visits'[Len(visits) + 1].item = i /\ visits'[Len(visits) + 1].status = "CHECKED_IN"
    BY <1>1, VisitAdded
  <1>3. DOMAIN visits = 1..Len(visits) /\ Len(visits) \in Nat
    BY VisitsType
  <1>4. DOMAIN items = 1..Len(items) /\ Len(items) \in Nat
    BY ItemsType
  <1>5. Referenced'
    <2>1. ASSUME NEW v \in DOMAIN visits' PROVE visits'[v].item \in 0..Len(items')
      <3>1. CASE v \in DOMAIN visits
        BY <3>1, <1>2, <1>4 DEF Referenced
      <3>2. CASE v = Len(visits) + 1
        BY <3>2, <1>2
      <3> QED BY <3>1, <3>2, <1>2, <1>3
    <2> QED BY <2>1 DEF Referenced
  <1>6. VisitedIsNotPlanned'
    <2>1. ASSUME NEW v \in DOMAIN visits', visits'[v].status = "COMPLETED",
                 visits'[v].item \notin {0} \cup reopened
          PROVE  items'[visits'[v].item].status # "PLANNED"
      <3>1. v \in DOMAIN visits
        BY <2>1, <1>2, <1>3
      <3>2. visits[v].item \in DOMAIN items /\ items[visits[v].item].status # "PLANNED"
        BY <3>1, <2>1, <1>2, <1>4 DEF Referenced, VisitedIsNotPlanned
      <3> QED BY <3>1, <3>2, <1>2
    <2> QED BY <2>1 DEF VisitedIsNotPlanned
  <1>7. NoDuplicateFollowUp' /\ Looked'
    BY <1>2, <1>3, FollowUpsKept
  <1> QED BY <1>2, <1>5, <1>6, <1>7

LEMMA CheckInStep ==
    ASSUME FieldInv, NEW f \in Farmers, NEW i \in 0..Len(items), CheckIn(f, i) PROVE FieldInv'
  <1> USE DEF FieldInv
  <1> DEFINE e == [items[i] EXCEPT !.status = "IN_PROGRESS"]
  <1>1. Len(items) \in Nat /\ DOMAIN items = 1..Len(items) /\ items \in Seq(Item)
    BY ItemsType
  <1>2. /\ items' \in Seq(Item) /\ Len(items') = Len(items) /\ DOMAIN items' = DOMAIN items
        /\ \A j \in DOMAIN items : items'[j] = items[j] \/ items'[j].status = "IN_PROGRESS"
        /\ \A j \in DOMAIN items : items'[j].status = "PLANNED" => items'[j] = items[j]
    <2>1. CASE i = 0
      BY <2>1, <1>1 DEF CheckIn
    <2>2. CASE i # 0
      <3>1. items[i] \in Item
        BY <2>2, ItemsType DEF CheckIn
      <3>2. e \in Item /\ e.status = "IN_PROGRESS"
        BY <3>1, ItemStatusType
      <3>3. i \in DOMAIN items /\ items' = [items EXCEPT ![i] = e]
        BY <2>2 DEF CheckIn
      <3> HIDE DEF e
      <3>4. /\ items' \in Seq(Item) /\ Len(items') = Len(items) /\ DOMAIN items' = DOMAIN items
            /\ items'[i] = e /\ \A j \in DOMAIN items \ {i} : items'[j] = items[j]
        BY <3>2, <3>3, StopRewritten
      <3> QED BY <3>2, <3>4
    <2> QED BY <2>1, <2>2
  <1>3. i <= MaxRows /\ i \in 0..Len(items')
    BY <1>1, <1>2, VisitsType, FollowUpsType, DaysType DEF TypeOK
  <1>4. \A j \in DOMAIN items : items[j].status # "PLANNED" => items'[j].status # "PLANNED"
    BY <1>2
  <1>5. /\ visits' \in Seq(Visit) /\ Len(visits') = Len(visits) + 1
        /\ Referenced' /\ VisitedIsNotPlanned' /\ NoDuplicateFollowUp' /\ Looked'
    BY <1>1, <1>2, <1>3, <1>4, CheckedIn DEF CheckIn, CheckedInVisit, inFlight
  <1>6. TypeOK'
    <2>1. Len(items') + Len(visits') + Len(followUps') <= MaxRows
      BY <1>1, <1>2, <1>5, VisitsType, FollowUpsType, DaysType DEF CheckIn, Room
    <2> QED BY <1>2, <1>5, <2>1 DEF TypeOK, CheckIn, inFlight, finishing
  <1>7. \A d \in Days : PlannedOn(d) = {} => PlannedOn(d)' = {}
    BY <1>2 DEF PlannedOn
  <1>8. Checked' /\ LeaveStrandsNothing'
    BY <1>7, NothingPlanned DEF CheckIn, inFlight
  <1> QED BY <1>5, <1>6, <1>8

LEMMA CheckInWithTargetStep ==
    ASSUME FieldInv, NEW f \in Farmers, CheckInWithTarget(f) PROVE FieldInv'
  <1> USE DEF FieldInv
  <1> DEFINE e == [farmer |-> f, day |-> 0, status |-> "IN_PROGRESS"]
  <1>1. Len(items) \in Nat /\ DOMAIN items = 1..Len(items) /\ items \in Seq(Item)
    BY ItemsType
  <1>2. e \in Item /\ e.day = 0 /\ e.status = "IN_PROGRESS" /\ items' = Append(items, e)
    BY DaysType DEF CheckInWithTarget, Item
  <1> HIDE DEF e
  <1>3. /\ items' \in Seq(Item) /\ Len(items') = Len(items) + 1
        /\ \A j \in DOMAIN items : items'[j] = items[j]
        /\ items'[Len(items) + 1] = e
    BY <1>1, <1>2, RowAdded
  <1>4. DOMAIN items' = 1..(Len(items) + 1)
    BY <1>3, RowsOfTable
  <1>5. Len(items) + 1 <= MaxRows /\ Len(items) + 1 \in 0..Len(items')
    BY <1>1, <1>3, VisitsType, FollowUpsType, DaysType DEF CheckInWithTarget, Room
  <1>6. \A j \in DOMAIN items : items[j].status # "PLANNED" => items'[j].status # "PLANNED"
    BY <1>3
  <1>7. /\ visits' \in Seq(Visit) /\ Len(visits') = Len(visits) + 1
        /\ Referenced' /\ VisitedIsNotPlanned' /\ NoDuplicateFollowUp' /\ Looked'
    BY <1>1, <1>3, <1>5, <1>6, CheckedIn DEF CheckInWithTarget, CheckedInVisit, inFlight
  <1>8. TypeOK'
    <2>1. Len(items') + Len(visits') + Len(followUps') <= MaxRows
      BY <1>1, <1>3, <1>7, VisitsType, FollowUpsType, DaysType DEF CheckInWithTarget, Room
    <2> QED BY <1>3, <1>7, <2>1 DEF TypeOK, CheckInWithTarget, inFlight, finishing
  <1>9. \A d \in Days : PlannedOn(d) = {} => PlannedOn(d)' = {}
    BY <1>1, <1>2, <1>3, <1>4 DEF PlannedOn
  <1>10. Checked' /\ LeaveStrandsNothing'
    BY <1>9, NothingPlanned DEF CheckInWithTarget, inFlight
  <1> QED BY <1>7, <1>8, <1>10

LEMMA FollowUpType ==
    ASSUME NEW f \in Farmers, NEW d \in Days, NEW byVisit \in BOOLEAN
    PROVE  /\ Due(f, d, byVisit) \in FollowUp /\ Due(f, d, byVisit).status = "PENDING"
           /\ Due(f, d, byVisit).farmer = f /\ Due(f, d, byVisit).day = d
           /\ Due(f, d, byVisit).byVisit = byVisit
  BY DEF Due, FollowUp

LEMMA CompletionType ==
    ASSUME FieldInv, NEW c \in completing
    PROVE  /\ c \in Completion /\ c.day \in 0..LastDay /\ (c.day # 0 => c.day \in Days)
           /\ c.visit \in DOMAIN visits /\ Customer(c) \in Farmers
           /\ c.due \subseteq DOMAIN followUps
  <1>1. c \in Completion /\ c.day \in 0..LastDay /\ c.visit \in DOMAIN visits
    BY DEF FieldInv, TypeOK, Looked, Completion
  <1>2. visits[c.visit] \in Visit
    BY <1>1, VisitsType DEF FieldInv
  <1>3. c.day # 0 => c.day \in Days
    BY <1>1, DaysType DEF Days
  <1> QED BY <1>1, <1>2, <1>3 DEF Visit, Customer, FieldInv, Looked

\* A visit is flushed: what is due and what there is on the day are found.
LEMMA CheckFollowUpsStep ==
    ASSUME FieldInv, NEW v \in DOMAIN visits, NEW d \in {0} \cup today..LastDay,
           CheckFollowUps(v, d)
    PROVE  FieldInv'
  <1> USE DEF FieldInv
  <1> DEFINE f == visits[v].farmer
             due == PendingOn(f, 1..today)
             found == PendingOn(f, {d}) \ due
             c == [visit |-> v, day |-> d, due |-> due, found |-> found]
  <1>1. /\ completing' = completing \cup {c}
        /\ UNCHANGED <<today, attendance, plan, items, visits, followUps, inFlight, contested>>
    BY DEF CheckFollowUps
  <1>2. /\ Len(visits) \in Nat /\ DOMAIN visits = 1..Len(visits)
        /\ Len(followUps) \in Nat /\ DOMAIN followUps = 1..Len(followUps)
        /\ Len(items) \in Nat /\ MaxRows \in Nat
    BY VisitsType, FollowUpsType, ItemsType, DaysType
  <1>3. v \in 1..MaxRows /\ DOMAIN followUps \subseteq 1..MaxRows
    BY <1>2 DEF TypeOK
  <1>4. d \in 0..LastDay
    BY DaysType DEF TypeOK, Days
  <1>5. due \subseteq DOMAIN followUps /\ found \subseteq DOMAIN followUps
    BY DEF PendingOn
  <1>6. \A k \in found : followUps[k].farmer = f /\ followUps[k].day = d
    BY DEF PendingOn
  <1>7. found = {} => PendingOn(f, {d}) \subseteq due
    OBVIOUS
  <1> HIDE DEF due, found
  <1>8. c \in Completion
    BY <1>3, <1>4, <1>5 DEF Completion
  <1>9. c.visit = v /\ c.day = d /\ c.due = due /\ c.found = found
    OBVIOUS
  <1> HIDE DEF c
  <1>10. TypeOK'
    BY <1>1, <1>8 DEF TypeOK, inFlight
  <1>11. Looked'
    <2> SUFFICES ASSUME NEW b \in completing'
                 PROVE  /\ b.visit \in DOMAIN visits
                        /\ b.due \cup b.found \subseteq DOMAIN followUps
                        /\ \A k \in b.found : followUps[k].farmer = Customer(b) /\ followUps[k].day = b.day
                        /\ (Adds(b) /\ <<Customer(b), b.day>> \notin contested) =>
                              \A k \in PendingOn(Customer(b), {b.day}) :
                                 followUps[k].byVisit => k \in b.due
      BY <1>1 DEF Looked, Customer, Adds, PendingOn
    <2>1. CASE b \in completing
      BY <2>1 DEF Looked
    <2>2. CASE b = c
      BY <2>2, <1>5, <1>6, <1>7, <1>9 DEF Customer, Adds
    <2> QED BY <1>1, <2>1, <2>2
  <1>12. Checked' /\ LeaveStrandsNothing'
    BY <1>1 DEF Checked, LeaveStrandsNothing, PlannedOn, inFlight
  <1>13. Referenced' /\ VisitedIsNotPlanned' /\ NoDuplicateFollowUp'
    BY <1>1 DEF Referenced, VisitedIsNotPlanned, NoDuplicateFollowUp, inFlight
  <1> QED BY <1>10, <1>11, <1>12, <1>13

\* A completion closes what it found due, and nothing else.
LEMMA DueClosed ==
    ASSUME TypeOK, NEW due, NEW t, t = Close(due, followUps)
    PROVE  /\ t \in Seq(FollowUp) /\ Len(t) = Len(followUps) /\ DOMAIN t = 1..Len(followUps)
           /\ \A k \in DOMAIN followUps :
                 /\ t[k].farmer = followUps[k].farmer /\ t[k].day = followUps[k].day
                 /\ t[k].byVisit = followUps[k].byVisit
                 /\ t[k].status = "PENDING" => followUps[k].status = "PENDING" /\ k \notin due
  <1>1. /\ DOMAIN followUps = 1..Len(followUps) /\ followUps \in Seq(FollowUp)
        /\ \A k \in DOMAIN followUps : followUps[k] \in FollowUp
    BY FollowUpsType
  <1>2. /\ DOMAIN t = DOMAIN followUps /\ t = [k \in DOMAIN followUps |-> t[k]]
        /\ \A k \in DOMAIN followUps : t[k] =
              IF k \in due THEN [followUps[k] EXCEPT !.status = "COMPLETED"] ELSE followUps[k]
    BY DEF Close
  <1>3. ASSUME NEW k \in DOMAIN followUps
        PROVE  /\ t[k] \in FollowUp
               /\ t[k].farmer = followUps[k].farmer /\ t[k].day = followUps[k].day
               /\ t[k].byVisit = followUps[k].byVisit
               /\ t[k].status = "PENDING" => followUps[k].status = "PENDING" /\ k \notin due
    <2>1. followUps[k] \in FollowUp
      BY <1>1
    <2>2. CASE k \in due
      <3>1. t[k] = [followUps[k] EXCEPT !.status = "COMPLETED"]
        BY <2>2, <1>2
      <3> QED BY <2>1, <3>1 DEF FollowUp
    <2>3. CASE k \notin due
      BY <2>1, <2>3, <1>2
    <2> QED BY <2>2, <2>3
  <1>4. t \in Seq(FollowUp) /\ Len(t) = Len(followUps)
    BY <1>1, <1>2, <1>3, Rewritten
  <1> QED BY <1>1, <1>2, <1>3, <1>4

\* The follow-ups after a completion: the old ones, as many of them as before or
\* fewer still pending, and at most one more.
LEMMA FollowUpsOfVisit ==
    ASSUME FieldInv, NEW c \in completing, NEW t, t = FollowUpsAfter(c)
    PROVE  /\ t \in Seq(FollowUp) /\ DOMAIN t = 1..Len(t)
           /\ Len(t) = IF Adds(c) THEN Len(followUps) + 1 ELSE Len(followUps)
           /\ \A k \in DOMAIN followUps :
                 /\ t[k].farmer = followUps[k].farmer /\ t[k].day = followUps[k].day
                 /\ t[k].byVisit = followUps[k].byVisit
                 /\ t[k].status = "PENDING" => followUps[k].status = "PENDING" /\ k \notin c.due
           /\ Adds(c) => /\ t[Len(t)].farmer = Customer(c) /\ t[Len(t)].day = c.day
                         /\ t[Len(t)].status = "PENDING" /\ c.day \in Days
  <1> DEFINE old == Close(c.due, followUps)
             new == New(c)
  <1>1. /\ old \in Seq(FollowUp) /\ Len(old) = Len(followUps) /\ DOMAIN old = 1..Len(followUps)
        /\ \A k \in DOMAIN followUps :
              /\ old[k].farmer = followUps[k].farmer /\ old[k].day = followUps[k].day
              /\ old[k].byVisit = followUps[k].byVisit
              /\ old[k].status = "PENDING" => followUps[k].status = "PENDING" /\ k \notin c.due
    BY DueClosed DEF FieldInv
  <1>2. Len(followUps) \in Nat /\ DOMAIN followUps = 1..Len(followUps)
    BY FollowUpsType DEF FieldInv
  <1>3. t = IF Adds(c) THEN Append(old, new) ELSE old
    BY DEF FollowUpsAfter
  <1>4. Adds(c) => /\ new \in FollowUp /\ new.farmer = Customer(c) /\ new.day = c.day
                   /\ new.status = "PENDING" /\ c.day \in Days
    <2>1. Adds(c) => c.day \in Days
      BY CompletionType DEF Adds
    <2> QED BY <2>1, CompletionType, FollowUpType DEF New, Customer
  <1> HIDE DEF old, new
  <1>5. CASE ~Adds(c)
    BY <1>1, <1>2, <1>3, <1>5
  <1>6. CASE Adds(c)
    <2>1. /\ Append(old, new) \in Seq(FollowUp) /\ Len(Append(old, new)) = Len(old) + 1
          /\ \A k \in 1..Len(old) : Append(old, new)[k] = old[k]
          /\ Append(old, new)[Len(old) + 1] = new
      BY <1>1, <1>4, <1>6, RowAdded
    <2>2. /\ t \in Seq(FollowUp) /\ Len(t) = Len(followUps) + 1 /\ t[Len(t)] = new
          /\ \A k \in DOMAIN followUps : t[k] = old[k]
      BY <2>1, <1>1, <1>2, <1>3, <1>6
    <2>3. DOMAIN t = 1..Len(t)
      BY <2>2, RowsOfTable
    <2> QED BY <2>2, <2>3, <1>1, <1>4, <1>6
  <1> QED BY <1>5, <1>6

\* What a completion adds was not there when it looked, and is not there now,
\* or two completions were after it.
LEMMA NothingTwice ==
    ASSUME FieldInv, NEW c \in completing, CompleteVisit(c)
    PROVE  NoDuplicateFollowUp'
  <1> USE DEF FieldInv
  <1>1. Len(followUps) \in Nat /\ DOMAIN followUps = 1..Len(followUps)
    BY FollowUpsType
  <1>2. /\ DOMAIN followUps' = 1..Len(followUps')
        /\ Len(followUps') = IF Adds(c) THEN Len(followUps) + 1 ELSE Len(followUps)
        /\ \A k \in DOMAIN followUps :
              /\ followUps'[k].farmer = followUps[k].farmer /\ followUps'[k].day = followUps[k].day
              /\ followUps'[k].byVisit = followUps[k].byVisit
              /\ followUps'[k].status = "PENDING" => followUps[k].status = "PENDING" /\ k \notin c.due
        /\ Adds(c) => /\ followUps'[Len(followUps')].farmer = Customer(c)
                      /\ followUps'[Len(followUps')].day = c.day
    BY FollowUpsOfVisit DEF CompleteVisit
  <1>3. contested \subseteq contested'
    BY DEF CompleteVisit
  <1>4. ASSUME Adds(c), <<Customer(c), c.day>> \notin contested', NEW k \in DOMAIN followUps,
               followUps'[k].status = "PENDING", followUps'[k].byVisit,
               followUps'[k].farmer = Customer(c), followUps'[k].day = c.day
        PROVE  FALSE
    <2>1. k \in PendingOn(Customer(c), {c.day}) /\ followUps[k].byVisit /\ k \notin c.due
      BY <1>2, <1>4 DEF PendingOn
    <2> QED BY <2>1, <1>3, <1>4 DEF Looked
  <1>5. ASSUME NEW k \in DOMAIN followUps', NEW l \in DOMAIN followUps',
               followUps'[k].status = "PENDING", followUps'[l].status = "PENDING",
               followUps'[k].byVisit, followUps'[l].byVisit,
               followUps'[k].farmer = followUps'[l].farmer,
               followUps'[k].day = followUps'[l].day,
               <<followUps'[k].farmer, followUps'[k].day>> \notin contested'
        PROVE  k = l
    <2>1. \A m \in DOMAIN followUps' :
             m \in DOMAIN followUps \/ (Adds(c) /\ m = Len(followUps'))
      BY <1>1, <1>2
    <2>2. CASE k \in DOMAIN followUps /\ l \in DOMAIN followUps
      BY <2>2, <1>2, <1>3, <1>5 DEF NoDuplicateFollowUp
    <2>3. CASE k \in DOMAIN followUps /\ Adds(c) /\ l = Len(followUps')
      BY <2>3, <1>2, <1>4, <1>5
    <2>4. CASE l \in DOMAIN followUps /\ Adds(c) /\ k = Len(followUps')
      BY <2>4, <1>2, <1>4, <1>5
    <2> QED BY <2>1, <2>2, <2>3, <2>4
  <1> QED BY <1>5 DEF NoDuplicateFollowUp

\* The others in flight still know what they found; one that is after the same
\* follow-up is on record.
LEMMA StillLooked ==
    ASSUME FieldInv, NEW c \in completing, CompleteVisit(c)
    PROVE  Looked'
  <1> USE DEF FieldInv
  <1>1. Len(followUps) \in Nat /\ DOMAIN followUps = 1..Len(followUps)
    BY FollowUpsType
  <1>2. /\ DOMAIN followUps' = 1..Len(followUps')
        /\ Len(followUps') = IF Adds(c) THEN Len(followUps) + 1 ELSE Len(followUps)
        /\ \A k \in DOMAIN followUps :
              /\ followUps'[k].farmer = followUps[k].farmer /\ followUps'[k].day = followUps[k].day
              /\ followUps'[k].byVisit = followUps[k].byVisit
              /\ followUps'[k].status = "PENDING" => followUps[k].status = "PENDING"
        /\ Adds(c) => /\ followUps'[Len(followUps')].farmer = Customer(c)
                      /\ followUps'[Len(followUps')].day = c.day /\ c.day \in Days
    BY FollowUpsOfVisit DEF CompleteVisit
  <1>3. /\ contested \subseteq contested' /\ completing' = completing \ {c}
        /\ DOMAIN visits' = DOMAIN visits
        /\ \A v \in DOMAIN visits : visits'[v].farmer = visits[v].farmer
    BY VisitsType DEF CompleteVisit, Visit
  <1> SUFFICES ASSUME NEW b \in completing \ {c}
               PROVE  /\ b.visit \in DOMAIN visits'
                      /\ b.due \cup b.found \subseteq DOMAIN followUps'
                      /\ \A k \in b.found : /\ followUps'[k].farmer = Customer(b)'
                                            /\ followUps'[k].day = b.day
                      /\ (Adds(b) /\ <<Customer(b)', b.day>> \notin contested') =>
                            \A k \in PendingOn(Customer(b), {b.day})' :
                               followUps'[k].byVisit => k \in b.due
    BY <1>3 DEF Looked, Customer, Adds, PendingOn
  <1>4. /\ b.visit \in DOMAIN visits /\ Customer(b)' = Customer(b)
        /\ b.due \cup b.found \subseteq DOMAIN followUps
        /\ \A k \in b.found : followUps[k].farmer = Customer(b) /\ followUps[k].day = b.day
    BY <1>3 DEF Looked, Customer
  <1>5. DOMAIN followUps \subseteq DOMAIN followUps'
    BY <1>1, <1>2
  <1>6. ASSUME Adds(b), <<Customer(b), b.day>> \notin contested', NEW k \in PendingOn(Customer(b), {b.day})',
               followUps'[k].byVisit
        PROVE  k \in b.due
    <2>1. /\ k \in DOMAIN followUps' /\ followUps'[k].farmer = Customer(b)
          /\ followUps'[k].status = "PENDING" /\ followUps'[k].day = b.day
      BY <1>4, <1>6 DEF PendingOn
    <2>2. CASE k \in DOMAIN followUps
      <3>1. k \in PendingOn(Customer(b), {b.day}) /\ followUps[k].byVisit
        BY <2>1, <2>2, <1>2, <1>6 DEF PendingOn
      <3> QED BY <3>1, <1>3, <1>6 DEF Looked
    <2>3. CASE Adds(c) /\ k = Len(followUps')
      <3>1. Customer(b) = Customer(c) /\ b.day = c.day /\ c.day \in Days
        BY <2>1, <2>3, <1>2
      <3>2. b \in After(Customer(c), c.day)
        BY <3>1 DEF After, Customer
      <3>3. <<Customer(c), c.day>> \in contested'
        BY <3>1, <3>2 DEF CompleteVisit, Customer
      <3> QED BY <3>1, <3>3, <1>6
    <2> QED BY <2>1, <2>2, <2>3, <1>1, <1>2
  <1>7. \A k \in b.found : followUps'[k].farmer = Customer(b)' /\ followUps'[k].day = b.day
    BY <1>2, <1>4
  <1>8. (Adds(b) /\ <<Customer(b)', b.day>> \notin contested') =>
           \A k \in PendingOn(Customer(b), {b.day})' : followUps'[k].byVisit => k \in b.due
    BY <1>4, <1>6
  <1> QED BY <1>3, <1>4, <1>5, <1>7, <1>8

LEMMA CompleteVisitStep ==
    ASSUME FieldInv, NEW c \in completing, CompleteVisit(c)
    PROVE  FieldInv'
  <1> USE DEF FieldInv
  <1> DEFINE v == c.visit
             w == [visits[v] EXCEPT !.status = "COMPLETED"]
             i == visits[v].item
             e == [items[i] EXCEPT !.status = "COMPLETED"]
  <1>1. /\ visits \in Seq(Visit) /\ Len(visits) \in Nat /\ DOMAIN visits = 1..Len(visits)
        /\ \A u \in DOMAIN visits : visits[u] \in Visit
        /\ items \in Seq(Item) /\ Len(items) \in Nat /\ DOMAIN items = 1..Len(items)
        /\ \A j \in DOMAIN items : items[j] \in Item
        /\ Len(followUps) \in Nat
    BY VisitsType, ItemsType, FollowUpsType
  <1>2. v \in DOMAIN visits /\ w \in Visit /\ w.item = i /\ visits[v].farmer \in Farmers
    <2>1. v \in DOMAIN visits /\ visits[v] \in Visit
      BY <1>1, CompletionType
    <2> QED BY <2>1 DEF Visit
  <1>3. /\ visits' \in Seq(Visit) /\ Len(visits') = Len(visits) /\ DOMAIN visits' = DOMAIN visits
        /\ \A u \in DOMAIN visits : visits'[u].item = visits[u].item
        /\ \A u \in DOMAIN visits \ {v} : visits'[u] = visits[u]
    <2>1. /\ DOMAIN visits' = DOMAIN visits /\ visits' = [u \in DOMAIN visits |-> visits'[u]]
          /\ visits'[v] = w /\ \A u \in DOMAIN visits \ {v} : visits'[u] = visits[u]
      BY <1>2 DEF CompleteVisit
    <2> HIDE DEF w, i
    <2>2. \A u \in DOMAIN visits : visits'[u] \in Visit
      BY <1>1, <1>2, <2>1
    <2>3. visits' \in Seq(Visit) /\ Len(visits') = Len(visits)
      BY <1>1, <2>1, <2>2, Rewritten
    <2>4. \A u \in DOMAIN visits : visits'[u].item = visits[u].item
      BY <1>2, <2>1 DEF i
    <2> QED BY <2>1, <2>3, <2>4
  <1>4. /\ followUps' \in Seq(FollowUp)
        /\ Len(followUps') \in {Len(followUps), Len(followUps) + 1}
    BY FollowUpsOfVisit DEF CompleteVisit
  <1>5. i \in 0..Len(items)
    BY <1>2 DEF Referenced
  <1>6. /\ items' \in Seq(Item) /\ Len(items') = Len(items) /\ DOMAIN items' = DOMAIN items
        /\ \A j \in DOMAIN items : items'[j].status = "PLANNED" => items'[j] = items[j]
        /\ i # 0 => items'[i].status = "COMPLETED"
    <2>1. CASE i = 0
      BY <2>1, <1>1 DEF CompleteVisit
    <2>2. CASE i # 0
      <3>1. i \in DOMAIN items
        BY <2>2, <1>1, <1>5
      <3>2. e \in Item /\ e.status = "COMPLETED" /\ items' = [items EXCEPT ![i] = e]
        BY <3>1, <2>2, <1>1, ItemStatusType DEF CompleteVisit
      <3> HIDE DEF e, i
      <3>3. /\ items' \in Seq(Item) /\ Len(items') = Len(items) /\ DOMAIN items' = DOMAIN items
            /\ items'[i] = e /\ \A j \in DOMAIN items \ {i} : items'[j] = items[j]
        BY <3>1, <3>2, StopRewritten
      <3> QED BY <3>2, <3>3
    <2> QED BY <2>1, <2>2
  <1>12. reopened' = reopened \ {i} /\ completing' \subseteq completing
    BY DEF CompleteVisit
  <1>7. TypeOK'
    <2>1. Len(items') + Len(visits') + Len(followUps') <= MaxRows
      <3>1. Len(items) + Len(visits) + Len(followUps) + 1 <= MaxRows
        BY DEF CompleteVisit, Room
      <3> QED BY <3>1, <1>1, <1>3, <1>4, <1>6, DaysType
    <2>2. contested' \subseteq Farmers \X Days
      BY <1>2 DEF TypeOK, CompleteVisit
    <2> HIDE DEF i
    <2> QED BY <1>3, <1>4, <1>6, <1>12, <2>1, <2>2 DEF TypeOK, CompleteVisit
  <1>8. \A d \in Days : PlannedOn(d) = {} => PlannedOn(d)' = {}
    BY <1>6 DEF PlannedOn
  <1>9. Checked' /\ LeaveStrandsNothing'
    BY <1>8, NothingPlanned DEF CompleteVisit
  <1>10. Referenced'
    BY <1>3, <1>6 DEF Referenced
  <1>11. VisitedIsNotPlanned'
    <2>1. ASSUME NEW u \in DOMAIN visits', visits'[u].status = "COMPLETED",
                 visits'[u].item \notin {0} \cup reopened'
          PROVE  items'[visits'[u].item].status # "PLANNED"
      <3>1. CASE visits[u].item = i
        BY <3>1, <2>1, <1>3, <1>6
      <3>2. CASE visits[u].item # i
        <4>1. u # v /\ visits'[u] = visits[u] /\ visits[u].item \in DOMAIN items
          BY <3>2, <2>1, <1>1, <1>3 DEF Referenced
        <4>2. visits[u].item \notin {0} \cup reopened
          BY <4>1, <3>2, <2>1, <1>12
        <4>3. items[visits[u].item].status # "PLANNED"
          BY <4>1, <4>2, <2>1, <1>3 DEF VisitedIsNotPlanned
        <4> QED BY <4>1, <4>3, <1>6
      <3> QED BY <3>1, <3>2
    <2> QED BY <2>1 DEF VisitedIsNotPlanned
  <1> QED BY <1>7, <1>9, <1>10, <1>11, NothingTwice, StillLooked

-----------------------------------------------------------------------------
(* Leads and follow-ups                                                     *)

\* What only concerns the follow-ups leaves plans and leave as they are.
LEMMA OnlyFollowUps ==
    ASSUME FieldInv, UNCHANGED <<today, attendance, plan, items, visits, inFlight, finishing>>,
           followUps' \in Seq(FollowUp),
           Len(items) + Len(visits) + Len(followUps') <= MaxRows,
           NoDuplicateFollowUp',
           \A k \in DOMAIN followUps :
              /\ k \in DOMAIN followUps'
              /\ followUps'[k].farmer = followUps[k].farmer /\ followUps'[k].day = followUps[k].day,
           \A k \in DOMAIN followUps' :
              (followUps'[k].byVisit /\ followUps'[k].status = "PENDING") =>
                 k \in DOMAIN followUps /\ followUps[k] = followUps'[k]
    PROVE  FieldInv'
  <1> USE DEF FieldInv, inFlight, finishing
  <1>1. TypeOK'
    BY DEF TypeOK
  <1>2. Checked' /\ LeaveStrandsNothing'
    BY DEF Checked, LeaveStrandsNothing, PlannedOn
  <1>3. Referenced' /\ VisitedIsNotPlanned'
    BY DEF Referenced, VisitedIsNotPlanned
  <1>4. Looked'
    BY DEF Looked, Customer, Adds, PendingOn
  <1> QED BY <1>1, <1>2, <1>3, <1>4

LEMMA UpdateLeadStep ==
    ASSUME FieldInv, NEW f \in Farmers, NEW d \in today..LastDay, UpdateLead(f, d)
    PROVE  FieldInv'
  <1> USE DEF FieldInv
  <1> DEFINE new == Due(f, d, FALSE)
  <1>1. /\ Len(followUps) \in Nat /\ DOMAIN followUps = 1..Len(followUps)
        /\ followUps \in Seq(FollowUp)
    BY FollowUpsType
  <1>2. d \in Days
    BY DaysType DEF Days, TypeOK
  <1>3. new \in FollowUp /\ ~new.byVisit /\ followUps' = Append(followUps, new)
    BY <1>2, FollowUpType DEF UpdateLead
  <1> HIDE DEF new
  <1>4. /\ Append(followUps, new) \in Seq(FollowUp)
        /\ Len(Append(followUps, new)) = Len(followUps) + 1
        /\ \A k \in 1..Len(followUps) : Append(followUps, new)[k] = followUps[k]
        /\ Append(followUps, new)[Len(followUps) + 1] = new
    BY <1>1, <1>3, RowAdded
  <1>5. /\ followUps' \in Seq(FollowUp) /\ Len(followUps') = Len(followUps) + 1
        /\ DOMAIN followUps' = 1..(Len(followUps) + 1)
        /\ \A k \in DOMAIN followUps : followUps'[k] = followUps[k]
        /\ followUps'[Len(followUps) + 1] = new
    BY <1>1, <1>3, <1>4, RowsOfTable
  <1>6. \A k \in DOMAIN followUps' : followUps'[k].byVisit => k \in DOMAIN followUps
    BY <1>1, <1>3, <1>5
  <1>7. NoDuplicateFollowUp'
    <2>1. UNCHANGED contested
      BY DEF UpdateLead, finishing
    <2>2. \A k \in DOMAIN followUps' : followUps'[k].byVisit =>
             k \in DOMAIN followUps /\ followUps'[k] = followUps[k]
      BY <1>5, <1>6
    <2> QED BY <2>1, <2>2 DEF NoDuplicateFollowUp
  <1>8. Len(items) + Len(visits) + Len(followUps') <= MaxRows
    BY <1>1, <1>5, ItemsType, VisitsType, DaysType DEF UpdateLead, Room
  <1>9. \A k \in DOMAIN followUps : k \in DOMAIN followUps'
    BY <1>1, <1>5
  <1> QED BY <1>5, <1>6, <1>7, <1>8, <1>9, OnlyFollowUps DEF UpdateLead

LEMMA FollowUpBecomesStep ==
    ASSUME FieldInv, NEW k \in DOMAIN followUps,
           NEW status \in {"ACKNOWLEDGED", "ESCALATED", "COMPLETED"},
           FollowUpBecomes(k, status)
    PROVE  FieldInv'
  <1> USE DEF FieldInv
  <1> DEFINE e == [followUps[k] EXCEPT !.status = status]
  <1>1. /\ followUps \in Seq(FollowUp) /\ DOMAIN followUps = 1..Len(followUps)
        /\ \A l \in DOMAIN followUps : followUps[l] \in FollowUp
    BY FollowUpsType
  <1>2. /\ e \in FollowUp /\ e.status # "PENDING" /\ followUps' = [followUps EXCEPT ![k] = e]
        /\ e.farmer = followUps[k].farmer /\ e.day = followUps[k].day
    <2>1. followUps[k] \in FollowUp
      BY <1>1
    <2>2. /\ e \in FollowUp /\ e.status = status
          /\ e.farmer = followUps[k].farmer /\ e.day = followUps[k].day
      BY <2>1 DEF FollowUp
    <2> QED BY <2>2 DEF FollowUpBecomes
  <1> HIDE DEF e
  <1>3. /\ DOMAIN followUps' = DOMAIN followUps /\ followUps'[k] = e
        /\ followUps' = [l \in DOMAIN followUps |-> followUps'[l]]
        /\ \A l \in DOMAIN followUps \ {k} : followUps'[l] = followUps[l]
    BY <1>2
  <1>4. followUps' \in Seq(FollowUp) /\ Len(followUps') = Len(followUps)
    <2>1. \A l \in DOMAIN followUps : followUps'[l] \in FollowUp
      BY <1>1, <1>2, <1>3
    <2> QED BY <1>1, <1>3, <2>1, Rewritten
  <1>5. NoDuplicateFollowUp'
    <2>1. UNCHANGED contested
      BY DEF FollowUpBecomes, finishing
    <2>2. \A l \in DOMAIN followUps : followUps'[l].status = "PENDING" => followUps'[l] = followUps[l]
      BY <1>2, <1>3
    <2> QED BY <1>3, <2>1, <2>2 DEF NoDuplicateFollowUp
  <1>6. Len(items) + Len(visits) + Len(followUps') <= MaxRows
    BY <1>4 DEF TypeOK
  <1> QED BY <1>2, <1>3, <1>4, <1>5, <1>6, OnlyFollowUps DEF FollowUpBecomes

-----------------------------------------------------------------------------
(* Every step                                                               *)

LEMMA PlanStep == ASSUME FieldInv, Plan PROVE FieldInv'
  <1>1. ASSUME NEW d \in Days, CheckLeave(d) PROVE FieldInv'
    BY <1>1, CheckLeaveStep
  <1>2. ASSUME NEW d \in Days, NEW s \in Stops, UpsertPlan(s, d) PROVE FieldInv'
    BY <1>2, UpsertPlanStep
  <1>3. ASSUME NEW d \in Days, NEW i \in DOMAIN items, UpdateItem(i, d) \/ CarryOverItem(i, d)
        PROVE  FieldInv'
    BY <1>3, UpdateItemStep, CarryOverItemStep
  <1> QED BY <1>1, <1>2, <1>3 DEF Plan

LEMMA EditStopStep == ASSUME FieldInv, EditStop PROVE FieldInv'
  BY SkipMissedItemStep, UpdateItemStatusStep DEF EditStop

LEMMA DoVisitStep == ASSUME FieldInv, DoVisit PROVE FieldInv'
  <1>1. ASSUME NEW f \in Farmers, CheckInWithTarget(f) PROVE FieldInv'
    BY <1>1, CheckInWithTargetStep
  <1>2. ASSUME NEW f \in Farmers, NEW i \in 0..Len(items), CheckIn(f, i) PROVE FieldInv'
    BY <1>2, CheckInStep
  <1>3. ASSUME NEW v \in DOMAIN visits, NEW d \in {0} \cup today..LastDay, CheckFollowUps(v, d)
        PROVE  FieldInv'
    BY <1>3, CheckFollowUpsStep
  <1>4. ASSUME NEW c \in completing, CompleteVisit(c) PROVE FieldInv'
    BY <1>4, CompleteVisitStep
  <1> QED BY <1>1, <1>2, <1>3, <1>4 DEF DoVisit

LEMMA FollowUpWorkStep == ASSUME FieldInv, FollowUpWork PROVE FieldInv'
  <1>1. ASSUME NEW f \in Farmers, NEW d \in today..LastDay, UpdateLead(f, d) PROVE FieldInv'
    BY <1>1, UpdateLeadStep
  <1>2. ASSUME NEW k \in DOMAIN followUps, Acknowledge(k) \/ Complete(k) \/ Escalate(k)
        PROVE  FieldInv'
    BY <1>2, FollowUpBecomesStep DEF Acknowledge, Complete, Escalate
  <1> QED BY <1>1, <1>2 DEF FollowUpWork

LEMMA FieldStep == FieldInv /\ [Next]_vars => FieldInv'
  <1> SUFFICES ASSUME FieldInv, [Next]_vars PROVE FieldInv'
    OBVIOUS
  <1>1. CASE UNCHANGED vars
    <2>1. UNCHANGED <<today, attendance, plan, items, visits, followUps, inFlight, finishing>>
      BY <1>1 DEF vars
    <2>2. Referenced' /\ VisitedIsNotPlanned' /\ NoDuplicateFollowUp' /\ Looked'
      BY <2>1, NoItemMoves DEF inFlight
    <2> QED BY <2>1, <2>2 DEF FieldInv, TypeOK, Checked, LeaveStrandsNothing, PlannedOn,
                              inFlight, finishing
  <1>2. CASE Next
    BY <1>2, PlanStep, EditStopStep, AttendStep, DoVisitStep, FollowUpWorkStep DEF Next
  <1> QED BY <1>1, <1>2

LEMMA FieldAlways == Spec => []FieldInv
  <1>1. Init => FieldInv
    BY FieldInitially
  <1>2. FieldInv /\ [Next]_vars => FieldInv'
    BY FieldStep
  <1> QED BY <1>1, <1>2, PTL DEF Spec

\* Every table of plans, visits and follow-ups holds rows of its type, and
\* they never outgrow MaxRows.
THEOREM FieldTypeCorrect == Spec => []TypeOK
  <1>1. FieldInv => TypeOK
    BY DEF FieldInv
  <1> QED BY <1>1, FieldAlways, PTL

\* _assert_not_on_leave and mark_leave: a day that is leave has no planned
\* stop, unless the two overtook each other after both had checked, or a stop of
\* the day was set back to PLANNED (update_item_status), which checks nothing.
THEOREM LeaveAndPlansExclude == Spec => []LeaveStrandsNothing
  <1>1. FieldInv => LeaveStrandsNothing
    BY DEF FieldInv
  <1> QED BY <1>1, FieldAlways, PTL

\* complete_visit and update_item: the stop of a completed visit is never
\* offered as planned again, however the plan is edited before and after, unless
\* its status is set back by hand (update_item_status).
THEOREM VisitedStaysVisited == Spec => []VisitedIsNotPlanned
  <1>1. FieldInv => VisitedIsNotPlanned
    BY DEF FieldInv
  <1> QED BY <1>1, FieldAlways, PTL

\* complete_visit's "no duplicate": however often a visit is completed, also by
\* requests that overlap, its farmer has one pending follow-up of a visit for a
\* day, unless two visits to the farmer are completed at once.
THEOREM OneFollowUp == Spec => []NoDuplicateFollowUp
  <1>1. FieldInv => NoDuplicateFollowUp
    BY DEF FieldInv
  <1> QED BY <1>1, FieldAlways, PTL

\* Only its COMMIT takes a completion out of flight.
LEMMA OnlyCommitsFinish ==
    ASSUME FieldInv, Next, NEW c \in completing \ completing'
    PROVE  CompleteVisit(c)
  <1>1. CASE Plan \/ EditStop \/ Attend \/ FollowUpWork
    <2>1. CASE Plan
      BY <2>1 DEF Plan, CheckLeave, UpsertPlan, UpdateItem, CarryOverItem, Rest, finishing
    <2>2. CASE EditStop
      BY <2>2 DEF EditStop, SkipMissedItem, UpdateItemStatus, Rest, finishing
    <2>3. CASE Attend
      BY <2>3 DEF Attend, StartWork, NextDay, CheckPlan, MarkLeave, RevokeLeave, finishing
    <2>4. CASE FollowUpWork
      BY <2>4 DEF FollowUpWork, UpdateLead, Acknowledge, Complete, Escalate, FollowUpBecomes, finishing
    <2> QED BY <1>1, <2>1, <2>2, <2>3, <2>4
  <1>2. CASE DoVisit
    <2>1. ASSUME NEW f \in Farmers, CheckInWithTarget(f) \/ \E i \in 0..Len(items) : CheckIn(f, i)
          PROVE  FALSE
      BY <2>1 DEF CheckInWithTarget, CheckIn, finishing
    <2>2. ASSUME NEW v \in DOMAIN visits, NEW d \in {0} \cup today..LastDay, CheckFollowUps(v, d)
          PROVE  FALSE
      BY <2>2 DEF CheckFollowUps
    <2>3. ASSUME NEW b \in completing, CompleteVisit(b) PROVE b = c
      BY <2>3 DEF CompleteVisit
    <2> QED BY <1>2, <2>1, <2>2, <2>3 DEF DoVisit
  <1> QED BY <1>1, <1>2 DEF Next

\* complete_visit: the visit that closes the due follow-ups leaves its own
\* pending, also when it is due today, or has found one before.
THEOREM WarmLeadIsFollowedUp == Spec => WarmVisitIsFollowedUp
  <1>1. ASSUME FieldInv, Next, NEW c \in completing \ completing', c.day # 0
        PROVE  \E k \in DOMAIN followUps' :
                  /\ followUps'[k].farmer = visits[c.visit].farmer
                  /\ followUps'[k].day = c.day
                  /\ followUps'[k].status = "PENDING" \/ k \in c.found
    <2>1. CompleteVisit(c) /\ followUps' = FollowUpsAfter(c)
      BY <1>1, OnlyCommitsFinish DEF CompleteVisit
    <2>2. /\ DOMAIN followUps' = 1..Len(followUps')
          /\ Len(followUps') = IF Adds(c) THEN Len(followUps) + 1 ELSE Len(followUps)
          /\ \A k \in DOMAIN followUps :
                followUps'[k].farmer = followUps[k].farmer /\ followUps'[k].day = followUps[k].day
          /\ Adds(c) => /\ followUps'[Len(followUps')].farmer = Customer(c)
                        /\ followUps'[Len(followUps')].day = c.day
                        /\ followUps'[Len(followUps')].status = "PENDING"
      BY <1>1, <2>1, FollowUpsOfVisit
    <2>3. Len(followUps) \in Nat /\ DOMAIN followUps = 1..Len(followUps)
      BY <1>1, FollowUpsType DEF FieldInv
    <2>4. CASE Adds(c)
      <3>1. Len(followUps') \in DOMAIN followUps'
        BY <2>2, <2>3, <2>4
      <3> QED BY <2>2, <2>4, <3>1 DEF Customer
    <2>5. CASE ~Adds(c)
      <3>1. PICK k \in c.found : TRUE
        BY <1>1, <2>5 DEF Adds
      <3>2. k \in DOMAIN followUps /\ followUps[k].farmer = Customer(c) /\ followUps[k].day = c.day
        BY <1>1, <3>1 DEF FieldInv, Looked
      <3> QED BY <2>2, <2>3, <2>5, <3>2 DEF Customer
    <2> QED BY <2>4, <2>5
  <1>2. FieldInv /\ [Next]_vars =>
          [\A c \in completing \ completing' :
              c.day # 0 =>
                 \E k \in DOMAIN followUps' :
                    /\ followUps'[k].farmer = visits[c.visit].farmer
                    /\ followUps'[k].day = c.day
                    /\ followUps'[k].status = "PENDING" \/ k \in c.found]_vars
    BY <1>1
  <1> QED BY <1>2, FieldAlways, PTL DEF Spec, WarmVisitIsFollowedUp

-----------------------------------------------------------------------------
(* What is recorded of a visit: the requests in flight                      *)

FormRequest(on) == [on : {on}, at : {"read"}, row : Nat, save : Saves]
FarmerValues == [Fields -> Values]
LivestockRequest == [on : {"livestock"}, at : {"read"}, given : FarmerValues, seen : FarmerValues]
VetState == [needs : BOOLEAN, status : VetStatus]
RaiseRequest == [on : {"vet"}, at : {"raise"}, needs : BOOLEAN, seen : VetState]
MoveRequest == [on : {"vet"}, at : {"move"}, status : VetStatus \ {"NONE"}, seen : VetState]
CreateRequest == [on : Orders, at : {"absent"}]
ReviewRequest == [on : Orders, at : {"review", "flushed"}, ruling : Verdicts]
UploadRequest == [on : {"photos"}, at : {"counted", "uploaded"}, key : Saves]
DeleteRequest == [on : {"photo"}, at : {"found", "deleted"}, key : Saves]

Work == FormRequest("notes") \cup FormRequest("answers") \cup LivestockRequest
            \cup RaiseRequest \cup MoveRequest \cup CreateRequest \cup ReviewRequest
            \cup UploadRequest \cup DeleteRequest
RequestsTyped == request \in [Requests -> Work \cup {Free}]

\* One request at a time, for all that is not crossed.
Alone ==
    \A p, q \in Requests :
       (request[p].on = request[q].on /\ request[p].on \notin crossed \cup {"nothing"}) => p = q

\* One row of notes, and one of answers: what was saved last, which is what a
\* request in flight has found.
NotesAreOneRow ==
    "notes" \notin crossed =>
       /\ Len(notes) <= 1 /\ saved.notes = IF Len(notes) = 0 THEN 0 ELSE notes[1]
       /\ \A q \in InFlight("notes") : request[q].row = Len(notes)
AnswersAreOneRow ==
    "answers" \notin crossed =>
       /\ Len(answers) <= 1 /\ saved.answers = IF Len(answers) = 0 THEN 0 ELSE answers[1]
       /\ \A q \in InFlight("answers") : request[q].row = Len(answers)

FarmerIsNewest ==
    "livestock" \notin crossed =>
       farmer = newest /\ \A q \in InFlight("livestock") : request[q].seen = farmer

VetIsSeen ==
    "vet" \notin crossed =>
       \A q \in InFlight("vet") :
          request[q].seen = vet /\ (request[q].at = "move" => vet.needs)

\* How far a review has come, and what was told of it by then.
ReviewFollowed ==
    \A o \in Orders \ crossed :
       /\ orders[o].status \notin Verdicts =>
             ~orders[o].reason /\ (told[o] = <<>> \/ \E q \in Requests : At(q, o, "flushed"))
       /\ orders[o].status \in Verdicts =>
             told[o] = <<orders[o].status>> /\ orders[o].reason = (orders[o].status = "REJECTED")
       /\ \A q \in InFlight(o) :
             /\ request[q].at = "absent" => orders[o].status = "NONE"
             /\ request[q].at # "absent" => orders[o].status = "SUBMITTED"
             /\ request[q].at = "review" => told[o] = <<>>
             /\ request[q].at = "flushed" => told[o] = <<request[q].ruling>>

\* A key belongs to one upload, and then to the row that it inserts; the
\* object goes after the row.
KeysKept ==
    /\ photos \subseteq objects /\ \A key \in photos : key <= started
    /\ \A q \in InFlight("photos") :
          /\ request[q].key <= started /\ request[q].key \notin photos
          /\ request[q].at = "uploaded" => request[q].key \in objects
          /\ \A p \in InFlight("photos") : request[p].key = request[q].key => p = q
          /\ \A p \in InFlight("photo") : request[p].key # request[q].key
    /\ \A q \in InFlight("photo") :
          /\ request[q].key <= started
          /\ request[q].at = "deleted" => request[q].key \notin photos

\* An upload in flight has counted fewer photos than the cap.
Counted ==
    "photos" \notin crossed =>
       /\ Cardinality(photos) <= MaxPhotos
       /\ InFlight("photos") # {} => Cardinality(photos) < MaxPhotos

RecordInv ==
    /\ RecordTypeOK /\ RequestsTyped /\ Alone
    /\ NotesAreOneRow /\ AnswersAreOneRow
    /\ FarmerIsNewest
    /\ VetIsSeen /\ VetRequestStartsOver
    /\ ReviewFollowed
    /\ KeysKept /\ Counted

-----------------------------------------------------------------------------
(* A request is of one kind                                                 *)

LEMMA KindOfRequest ==
    ASSUME RequestsTyped, NEW q \in Requests
    PROVE  /\ request[q].on = "notes" => request[q] \in FormRequest("notes")
           /\ request[q].on = "answers" => request[q] \in FormRequest("answers")
           /\ request[q].on = "livestock" => request[q] \in LivestockRequest
           /\ request[q].on = "vet" => request[q] \in RaiseRequest \cup MoveRequest
           /\ request[q].on \in Orders => request[q] \in CreateRequest \cup ReviewRequest
           /\ request[q].on = "photos" => request[q] \in UploadRequest
           /\ request[q].on = "photo" => request[q] \in DeleteRequest
           /\ request[q].on = "nothing" => request[q] = Free
           /\ request[q].on \in Things \cup Orders
  <1>1. request[q] \in Work \cup {Free}
    BY DEF RequestsTyped
  <1>2. CASE request[q] = Free
    BY <1>2, RecordAssumption DEF Free, Things
  <1>3. CASE request[q] \in FormRequest("notes") \cup FormRequest("answers")
    BY <1>3, RecordAssumption DEF FormRequest, Things
  <1>4. CASE request[q] \in LivestockRequest \cup RaiseRequest \cup MoveRequest
    BY <1>4, RecordAssumption DEF LivestockRequest, RaiseRequest, MoveRequest, Things
  <1>5. CASE request[q] \in CreateRequest \cup ReviewRequest
    BY <1>5, RecordAssumption DEF CreateRequest, ReviewRequest, Things
  <1>6. CASE request[q] \in UploadRequest \cup DeleteRequest
    BY <1>6, RecordAssumption DEF UploadRequest, DeleteRequest, Things
  <1> QED BY <1>1, <1>2, <1>3, <1>4, <1>5, <1>6 DEF Work

LEMMA WorkIsOnSomething == ASSUME NEW r \in Work PROVE r # Free /\ r.on # "nothing"
  BY RecordAssumption DEF Work, Free, FormRequest, LivestockRequest, RaiseRequest, MoveRequest,
     CreateRequest, ReviewRequest, UploadRequest, DeleteRequest, Things

-----------------------------------------------------------------------------
(* What a step leaves alone                                                 *)

\* No request begins or goes on with a thing.
Fewer(on) ==
    /\ crossed \subseteq crossed'
    /\ \A p \in Requests : request'[p].on = on => request'[p] = request[p]

\* Nor does one end.
Untouched(on) == Fewer(on) /\ \A p \in Requests : request[p].on = on => request'[p] = request[p]

LEMMA NotesKept ==
    ASSUME NotesAreOneRow, Fewer("notes"), notes' = notes, saved'.notes = saved.notes
    PROVE  NotesAreOneRow'
  BY DEF NotesAreOneRow, Fewer, InFlight

LEMMA AnswersKept ==
    ASSUME AnswersAreOneRow, Fewer("answers"), answers' = answers, saved'.answers = saved.answers
    PROVE  AnswersAreOneRow'
  BY DEF AnswersAreOneRow, Fewer, InFlight

LEMMA FarmerKept ==
    ASSUME FarmerIsNewest, Fewer("livestock"), UNCHANGED <<newest, farmer>>
    PROVE  FarmerIsNewest'
  BY DEF FarmerIsNewest, Fewer, InFlight

LEMMA VetKept ==
    ASSUME VetIsSeen, VetRequestStartsOver, Fewer("vet"), UNCHANGED <<vet, moved>>
    PROVE  VetIsSeen' /\ VetRequestStartsOver'
  BY DEF VetIsSeen, VetRequestStartsOver, Fewer, InFlight

LEMMA ReviewsKept ==
    ASSUME ReviewFollowed, \A o \in Orders : Untouched(o), UNCHANGED <<orders, told>>
    PROVE  ReviewFollowed'
  BY DEF ReviewFollowed, Untouched, Fewer, InFlight, At

LEMMA PhotosKept ==
    ASSUME RecordTypeOK, RequestsTyped, KeysKept, Counted, started' \in Nat, started <= started',
           Fewer("photos"), Fewer("photo"), UNCHANGED <<photos, objects>>
    PROVE  KeysKept' /\ Counted'
  <1>1. /\ started \in Nat /\ \A key \in photos : key \in Nat
        /\ \A q \in InFlight("photos") \cup InFlight("photo") : request[q].key \in Nat
    <2>1. \A q \in InFlight("photos") \cup InFlight("photo") : request[q].key \in Saves
      BY KindOfRequest DEF InFlight, UploadRequest, DeleteRequest
    <2> QED BY <2>1, RecordAssumption DEF RecordTypeOK, Saves
  <1>2. /\ \A q \in InFlight("photos")' : q \in InFlight("photos") /\ request'[q] = request[q]
        /\ \A q \in InFlight("photo")' : q \in InFlight("photo") /\ request'[q] = request[q]
        /\ crossed \subseteq crossed'
    BY DEF InFlight, Fewer
  <1>3. KeysKept'
    BY <1>1, <1>2 DEF KeysKept
  <1>4. Counted'
    BY <1>2 DEF Counted
  <1> QED BY <1>3, <1>4

\* Requests of three kinds of step, and what they leave alone.
LEMMA Started ==
    ASSUME RecordTypeOK, RequestsTyped, Alone, NEW q \in Requests, NEW r \in Work, Start(q, r)
    PROVE  /\ request'[q] = r /\ \A p \in Requests \ {q} : request'[p] = request[p]
           /\ RequestsTyped' /\ Alone'
           /\ \A on \in Things \cup Orders : on \notin {r.on, "nothing"} => Untouched(on)
           /\ crossed \subseteq crossed'
           /\ r.on \notin crossed' => InFlight(r.on) = {}
           /\ started \in Nat /\ started' = started + 1 /\ started' \in Saves
           /\ UNCHANGED <<rows, saved, told, moved>>
  <1>1. r # Free /\ r.on # "nothing" /\ request[q].on = "nothing"
    BY WorkIsOnSomething DEF Start, Free
  <1>2. request'[q] = r /\ \A p \in Requests \ {q} : request'[p] = request[p]
    BY DEF Start, RequestsTyped
  <1>3. RequestsTyped'
    BY DEF Start, RequestsTyped
  <1>4. crossed \subseteq crossed' /\ (r.on \notin crossed' => InFlight(r.on) = {})
    BY DEF Start
  <1>5. Alone'
    BY <1>1, <1>2, <1>4 DEF Alone, InFlight
  <1>6. \A on \in Things \cup Orders : on \notin {r.on, "nothing"} => Untouched(on)
    BY <1>1, <1>2, <1>4 DEF Untouched, Fewer
  <1>7. started \in Nat /\ started' = started + 1 /\ started' \in Saves
    BY RecordAssumption DEF Start, RecordTypeOK, Saves
  <1> QED BY <1>2, <1>3, <1>4, <1>5, <1>6, <1>7 DEF Start

LEMMA Ended ==
    ASSUME RecordTypeOK, RequestsTyped, Alone, NEW q \in Requests, Ends(q), UNCHANGED crossed
    PROVE  /\ request'[q] = Free /\ \A p \in Requests \ {q} : request'[p] = request[p]
           /\ \A p \in Requests : request'[p].on # "nothing" => p # q
           /\ RequestsTyped' /\ Alone'
           /\ \A on \in Things \cup Orders : on # "nothing" => Fewer(on)
           /\ \A on \in Things \cup Orders : on \notin {request[q].on, "nothing"} => Untouched(on)
           /\ started' = started /\ started \in Nat
  <1>1. request'[q] = Free /\ \A p \in Requests \ {q} : request'[p] = request[p]
    BY DEF Ends, RequestsTyped
  <1>2. RequestsTyped'
    BY DEF Ends, RequestsTyped
  <1>3. Alone'
    BY <1>1 DEF Alone, Free
  <1>4. \A on \in Things \cup Orders : on # "nothing" => Fewer(on)
    BY <1>1 DEF Fewer, Free
  <1>5. \A on \in Things \cup Orders : on \notin {request[q].on, "nothing"} => Untouched(on)
    BY <1>1, <1>4 DEF Untouched, Fewer, Free
  <1>6. started' = started /\ started \in Nat
    BY RecordAssumption DEF Ends, RecordTypeOK, Saves
  <1> QED BY <1>1, <1>2, <1>3, <1>4, <1>5, <1>6 DEF Free

LEMMA WentOn ==
    ASSUME RecordTypeOK, RequestsTyped, Alone, NEW q \in Requests, NEW at, Goes(q, at),
           NEW r \in Work, r = [request[q] EXCEPT !.at = at], r.on = request[q].on,
           UNCHANGED crossed
    PROVE  /\ request'[q] = r
           /\ \A p \in Requests \ {q} : request'[p] = request[p]
           /\ RequestsTyped' /\ Alone'
           /\ \A on \in Things \cup Orders : on \notin {request[q].on, "nothing"} => Untouched(on)
           /\ started' = started /\ started \in Nat
  <1>1. request'[q] = r /\ \A p \in Requests \ {q} : request'[p] = request[p]
    BY DEF Goes, RequestsTyped
  <1>2. RequestsTyped'
    BY DEF Goes, RequestsTyped
  <1>3. \A p \in Requests : request'[p].on = request[p].on
    BY <1>1
  <1>4. Alone'
    BY <1>3 DEF Alone
  <1>5. \A on \in Things \cup Orders : on \notin {request[q].on, "nothing"} => Untouched(on)
    BY <1>1, <1>3 DEF Untouched, Fewer
  <1>6. started' = started /\ started \in Nat
    BY RecordAssumption DEF Goes, RecordTypeOK, Saves
  <1> QED BY <1>1, <1>2, <1>4, <1>5, <1>6

-----------------------------------------------------------------------------
(* A request begins                                                         *)

\* What a request has read of the thing that it begins with.
HasRead(r) ==
    /\ r.on = "notes" /\ Len(notes) <= 1 => r.row = Len(notes)
    /\ r.on = "answers" => r.row = Len(answers)
    /\ r.on = "livestock" => r.seen = farmer
    /\ r.on = "vet" => r.seen = vet /\ (r.at = "move" => vet.needs)
    /\ r.on \in Orders => \/ r.at = "absent" /\ orders[r.on].status = "NONE"
                          \/ r.at = "review" /\ orders[r.on].status = "SUBMITTED"
    /\ r.on = "photos" => /\ r.at = "counted" /\ r.key = started + 1
                          /\ Cardinality(photos) < MaxPhotos
    /\ r.on = "photo" => r.at = "found" /\ r.key \in photos

LEMMA BeginStep ==
    ASSUME RecordInv, NEW q \in Requests, NEW r \in Work, HasRead(r), Start(q, r)
    PROVE  RecordInv'
  <1> USE DEF RecordInv
  <1>1. /\ request'[q] = r /\ \A p \in Requests \ {q} : request'[p] = request[p]
        /\ RequestsTyped' /\ Alone'
        /\ \A on \in Things \cup Orders : on \notin {r.on, "nothing"} => Untouched(on)
        /\ crossed \subseteq crossed'
        /\ r.on \notin crossed' => InFlight(r.on) = {}
        /\ started \in Nat /\ started' = started + 1 /\ started' \in Saves
        /\ UNCHANGED <<rows, saved, told, moved>>
    BY Started
  <1>2. RecordTypeOK'
    BY <1>1 DEF RecordTypeOK, rows
  <1>3. NotesAreOneRow'
    <2>1. CASE r.on = "notes"
      BY <2>1, <1>1 DEF NotesAreOneRow, InFlight, rows, HasRead
    <2>2. CASE r.on # "notes"
      BY <2>2, <1>1, NotesKept DEF Untouched, Things, rows
    <2> QED BY <2>1, <2>2
  <1>4. AnswersAreOneRow'
    <2>1. CASE r.on = "answers"
      BY <2>1, <1>1 DEF AnswersAreOneRow, InFlight, rows, HasRead
    <2>2. CASE r.on # "answers"
      BY <2>2, <1>1, AnswersKept DEF Untouched, Things, rows
    <2> QED BY <2>1, <2>2
  <1>5. FarmerIsNewest'
    <2>1. CASE r.on = "livestock"
      BY <2>1, <1>1 DEF FarmerIsNewest, InFlight, rows, HasRead
    <2>2. CASE r.on # "livestock"
      BY <2>2, <1>1, FarmerKept DEF Untouched, Things, rows
    <2> QED BY <2>1, <2>2
  <1>6. VetIsSeen' /\ VetRequestStartsOver'
    <2>1. CASE r.on = "vet"
      BY <2>1, <1>1 DEF VetIsSeen, VetRequestStartsOver, InFlight, rows, HasRead
    <2>2. CASE r.on # "vet"
      BY <2>2, <1>1, VetKept DEF Untouched, Things, rows
    <2> QED BY <2>1, <2>2
  <1>7. ReviewFollowed'
    <2>1. CASE r.on \notin Orders
      BY <2>1, <1>1, WorkIsOnSomething, RecordAssumption, ReviewsKept DEF Things, rows
    <2>2. CASE r.on \in Orders
      <3>1. ASSUME NEW o \in Orders \ crossed', o # r.on
            PROVE  Untouched(o)
        BY <3>1, <1>1, RecordAssumption DEF Things
      <3>2. ASSUME r.on \notin crossed'
            PROVE  told[r.on] = <<>> /\ r.at # "flushed"
        BY <3>2, <2>2, <1>1 DEF ReviewFollowed, HasRead, InFlight, At, Verdicts
      <3> QED BY <3>1, <3>2, <2>2, <1>1
              DEF ReviewFollowed, HasRead, InFlight, At, Untouched, Fewer, rows, Verdicts
    <2> QED BY <2>1, <2>2
  <1>8. /\ \A key \in photos : key \in Nat
        /\ \A p \in InFlight("photos") \cup InFlight("photo") : request[p].key \in Nat
    <2>1. \A p \in InFlight("photos") \cup InFlight("photo") : request[p].key \in Saves
      BY KindOfRequest DEF InFlight, UploadRequest, DeleteRequest
    <2> QED BY <2>1, RecordAssumption DEF RecordTypeOK, Saves
  <1>9. KeysKept' /\ Counted'
    <2>1. CASE r.on = "photos"
      <3>1. InFlight("photos")' = InFlight("photos") \cup {q} /\ q \notin InFlight("photos")
        BY <2>1, <1>1 DEF InFlight, Start, Free
      <3>2. /\ InFlight("photo")' = InFlight("photo") /\ q \notin InFlight("photo")
            /\ \A p \in InFlight("photo") : request'[p] = request[p]
        BY <2>1, <1>1 DEF InFlight, Start, Free
      <3>3. \A p \in InFlight("photos") : request'[p] = request[p]
        BY <3>1, <1>1 DEF InFlight
      <3>4. request'[q].key = started + 1 /\ request'[q].at = "counted"
        BY <2>1, <1>1 DEF HasRead
      <3>5. KeysKept'
        BY <1>1, <1>8, <3>1, <3>2, <3>3, <3>4 DEF KeysKept, rows
      <3>6. Counted'
        BY <1>1, <2>1 DEF Counted, rows, HasRead
      <3> QED BY <3>5, <3>6
    <2>2. CASE r.on = "photo"
      <3>1. InFlight("photo")' = InFlight("photo") \cup {q} /\ q \notin InFlight("photo")
        BY <2>2, <1>1 DEF InFlight, Start, Free
      <3>2. /\ InFlight("photos")' = InFlight("photos") /\ q \notin InFlight("photos")
            /\ \A p \in InFlight("photos") : request'[p] = request[p]
        BY <2>2, <1>1 DEF InFlight, Start, Free
      <3>3. \A p \in InFlight("photo") : request'[p] = request[p]
        BY <3>1, <1>1 DEF InFlight
      <3>4. request'[q].key \in photos /\ request'[q].at = "found"
        BY <2>2, <1>1 DEF HasRead
      <3>5. KeysKept'
        BY <1>1, <1>8, <3>1, <3>2, <3>3, <3>4 DEF KeysKept, rows
      <3>6. Counted'
        BY <1>1, <3>2 DEF Counted, rows
      <3> QED BY <3>5, <3>6
    <2>3. CASE r.on \notin {"photos", "photo"}
      <3>1. Fewer("photos") /\ Fewer("photo")
        BY <2>3, <1>1 DEF Untouched, Things
      <3>2. started' \in Nat /\ started <= started'
        BY <1>1
      <3> QED BY <3>1, <3>2, <1>1, PhotosKept DEF rows
    <2> QED BY <2>1, <2>2, <2>3
  <1> QED BY <1>1, <1>2, <1>3, <1>4, <1>5, <1>6, <1>7, <1>9

LEMMA Numbered == RecordTypeOK /\ started < MaxStarted => started + 1 \in Saves
  BY RecordAssumption DEF RecordTypeOK, Saves

LEMMA RowsFound ==
    ASSUME RecordTypeOK
    PROVE  /\ Len(notes) \in Nat /\ DOMAIN notes = 1..Len(notes)
           /\ Len(answers) \in Nat /\ DOMAIN answers = 1..Len(answers)
           /\ \A row \in notes_for : row \in Nat /\ (Len(notes) <= 1 => row = Len(notes))
           /\ notes \in Seq(Saves) /\ answers \in Seq(Saves)
  <1>1. /\ Len(notes) \in Nat /\ DOMAIN notes = 1..Len(notes) /\ notes \in Seq(Saves)
        /\ Len(answers) \in Nat /\ DOMAIN answers = 1..Len(answers) /\ answers \in Seq(Saves)
    BY RowsOfTable DEF RecordTypeOK
  <1>2. ASSUME NEW row \in notes_for
        PROVE  row \in Nat /\ (Len(notes) <= 1 => row = Len(notes))
    <2>1. CASE notes = << >>
      BY <2>1, <1>2 DEF notes_for
    <2>2. CASE notes # << >>
      <3>1. row \in 1..Len(notes)
        BY <2>2, <1>1, <1>2 DEF notes_for
      <3>2. Len(notes) \in Nat
        BY <1>1
      <3>3. ASSUME Len(notes) <= 1 PROVE row = Len(notes)
        BY <3>1, <3>2, <3>3
      <3> QED BY <3>1, <3>3
    <2> QED BY <2>1, <2>2
  <1> QED BY <1>1, <1>2

LEMMA ReadNotesStep == ASSUME RecordInv, NEW q \in Requests, ReadNotes(q) PROVE RecordInv'
  <1>1. PICK row \in notes_for :
          Start(q, [on |-> "notes", at |-> "read", row |-> row, save |-> started + 1])
    BY DEF ReadNotes
  <1> DEFINE r == [on |-> "notes", at |-> "read", row |-> row, save |-> started + 1]
  <1>2. started + 1 \in Saves /\ row \in Nat /\ (Len(notes) <= 1 => row = Len(notes))
    BY <1>1, Numbered, RowsFound DEF Start, RecordInv
  <1>3. r \in Work /\ Start(q, r)
    BY <1>1, <1>2 DEF Work, FormRequest
  <1>4. HasRead(r)
    BY <1>2, RecordAssumption DEF HasRead, Things
  <1> HIDE DEF r
  <1> QED BY <1>3, <1>4, BeginStep

LEMMA ReadAnswersStep == ASSUME RecordInv, NEW q \in Requests, ReadAnswers(q) PROVE RecordInv'
  <1> DEFINE r == [on |-> "answers", at |-> "read", row |-> Len(answers), save |-> started + 1]
  <1>1. started + 1 \in Saves /\ Len(answers) \in Nat
    BY Numbered, RowsFound DEF ReadAnswers, Start, RecordInv
  <1>2. r \in Work /\ Start(q, r)
    BY <1>1 DEF Work, FormRequest, ReadAnswers
  <1>3. HasRead(r)
    BY RecordAssumption DEF HasRead, Things
  <1> HIDE DEF r
  <1> QED BY <1>2, <1>3, BeginStep

LEMMA ReadFarmerStep == ASSUME RecordInv, NEW q \in Requests, ReadFarmer(q) PROVE RecordInv'
  <1>1. PICK given \in [Fields -> Values] :
          Start(q, [on |-> "livestock", at |-> "read", given |-> given, seen |-> farmer])
    BY DEF ReadFarmer
  <1> DEFINE r == [on |-> "livestock", at |-> "read", given |-> given, seen |-> farmer]
  <1>2. r \in Work /\ Start(q, r)
    BY <1>1 DEF Work, LivestockRequest, FarmerValues, RecordInv, RecordTypeOK
  <1>3. HasRead(r)
    BY RecordAssumption DEF HasRead, Things
  <1> HIDE DEF r
  <1> QED BY <1>2, <1>3, BeginStep

LEMMA ReadVetStep == ASSUME RecordInv, NEW q \in Requests, ReadVet(q) PROVE RecordInv'
  <1>1. vet \in VetState
    BY DEF RecordInv, RecordTypeOK, VetState
  <1>2. ASSUME NEW needs \in BOOLEAN,
               Start(q, [on |-> "vet", at |-> "raise", needs |-> needs, seen |-> vet])
        PROVE  RecordInv'
    <2> DEFINE r == [on |-> "vet", at |-> "raise", needs |-> needs, seen |-> vet]
    <2>1. r \in RaiseRequest
      BY <1>1 DEF RaiseRequest
    <2>2. r \in Work /\ Start(q, r)
      BY <1>2, <2>1 DEF Work
    <2>3. HasRead(r)
      BY RecordAssumption DEF HasRead, Things
    <2> HIDE DEF r
    <2> QED BY <2>2, <2>3, BeginStep
  <1>3. ASSUME NEW status \in VetStatus \ {"NONE"}, vet.needs,
               Start(q, [on |-> "vet", at |-> "move", status |-> status, seen |-> vet])
        PROVE  RecordInv'
    <2> DEFINE r == [on |-> "vet", at |-> "move", status |-> status, seen |-> vet]
    <2>1. r \in MoveRequest
      BY <1>1 DEF MoveRequest
    <2>2. r \in Work /\ Start(q, r)
      BY <1>3, <2>1 DEF Work
    <2>3. HasRead(r)
      BY <1>3, RecordAssumption DEF HasRead, Things
    <2> HIDE DEF r
    <2> QED BY <2>2, <2>3, BeginStep
  <1> QED BY <1>2, <1>3 DEF ReadVet

LEMMA OrderIsNoThing == \A o \in Orders : o \notin Things
  BY RecordAssumption

LEMMA FindOrderStep ==
    ASSUME RecordInv, NEW q \in Requests, NEW o \in Orders, FindOrder(q, o) PROVE RecordInv'
  <1> DEFINE r == [on |-> o, at |-> "absent"]
  <1>1. r \in Work /\ Start(q, r)
    BY DEF Work, CreateRequest, FindOrder
  <1>2. HasRead(r)
    BY OrderIsNoThing DEF HasRead, Things, FindOrder
  <1> HIDE DEF r
  <1> QED BY <1>1, <1>2, BeginStep

LEMMA ReviewStep ==
    ASSUME RecordInv, NEW q \in Requests, NEW o \in Orders, NEW ruling \in Verdicts,
           Review(q, o, ruling)
    PROVE  RecordInv'
  <1> DEFINE r == [on |-> o, at |-> "review", ruling |-> ruling]
  <1>1. r \in ReviewRequest
    BY DEF ReviewRequest
  <1>2. r \in Work /\ Start(q, r)
    BY <1>1 DEF Work, Review
  <1>3. HasRead(r)
    BY OrderIsNoThing DEF HasRead, Things, Review
  <1> HIDE DEF r
  <1> QED BY <1>2, <1>3, BeginStep

LEMMA CountPhotosStep == ASSUME RecordInv, NEW q \in Requests, CountPhotos(q) PROVE RecordInv'
  <1> DEFINE r == [on |-> "photos", at |-> "counted", key |-> started + 1]
  <1>1. started + 1 \in Saves
    BY Numbered DEF CountPhotos, Start, RecordInv
  <1>2. r \in UploadRequest
    BY <1>1 DEF UploadRequest
  <1>3. r \in Work /\ Start(q, r)
    BY <1>2 DEF Work, CountPhotos
  <1>4. HasRead(r)
    BY RecordAssumption DEF HasRead, Things, CountPhotos
  <1> HIDE DEF r
  <1> QED BY <1>3, <1>4, BeginStep

LEMMA FindPhotoStep == ASSUME RecordInv, NEW q \in Requests, FindPhoto(q) PROVE RecordInv'
  <1>1. PICK key \in photos : Start(q, [on |-> "photo", at |-> "found", key |-> key])
    BY DEF FindPhoto
  <1> DEFINE r == [on |-> "photo", at |-> "found", key |-> key]
  <1>2. r \in DeleteRequest
    BY DEF DeleteRequest, RecordInv, RecordTypeOK
  <1>3. r \in Work /\ Start(q, r)
    BY <1>1, <1>2 DEF Work
  <1>4. HasRead(r)
    BY RecordAssumption DEF HasRead, Things
  <1> HIDE DEF r
  <1> QED BY <1>3, <1>4, BeginStep

-----------------------------------------------------------------------------
(* Notes and answers                                                        *)

\* A table of forms when a request that has found a row, or none, writes it.
FormWritten(s, row, save) == IF row = 0 THEN Append(s, save) ELSE [s EXCEPT ![row] = save]

LEMMA FormTable ==
    ASSUME NEW s \in Seq(Saves), NEW row \in Nat, NEW save \in Saves
    PROVE  /\ FormWritten(s, row, save) \in Seq(Saves)
           /\ Len(s) <= 1 /\ row = Len(s) =>
                 Len(FormWritten(s, row, save)) = 1 /\ FormWritten(s, row, save)[1] = save
  <1>1. Len(s) \in Nat /\ DOMAIN s = 1..Len(s) /\ \A i \in 1..Len(s) : s[i] \in Saves
    BY RowsOfTable
  <1>2. CASE row = 0
    <2>1. FormWritten(s, row, save) = Append(s, save)
      BY <1>2 DEF FormWritten
    <2> QED BY <2>1, <1>1, <1>2, RowAdded
  <1>3. CASE row # 0
    <2> DEFINE t == [s EXCEPT ![row] = save]
    <2>1. FormWritten(s, row, save) = t
      BY <1>3 DEF FormWritten
    <2>2. /\ DOMAIN t = DOMAIN s /\ t = [i \in DOMAIN s |-> t[i]]
          /\ \A i \in DOMAIN s : t[i] = IF i = row THEN save ELSE s[i]
      OBVIOUS
    <2> HIDE DEF t
    <2>3. \A i \in DOMAIN s : t[i] \in Saves
      BY <1>1, <2>2
    <2>4. t \in Seq(Saves) /\ Len(t) = Len(s)
      BY <1>1, <2>2, <2>3, Rewritten
    <2>5. Len(s) <= 1 /\ row = Len(s) => Len(t) = 1 /\ t[1] = save
      BY <1>1, <1>3, <2>2, <2>4
    <2> QED BY <2>1, <2>4, <2>5
  <1> QED BY <1>2, <1>3

LEMMA UpsertNotesStep == ASSUME RecordInv, NEW q \in Requests, UpsertNotes(q) PROVE RecordInv'
  <1> USE DEF RecordInv
  <1>1. /\ request[q].on = "notes" /\ request[q].row \in Nat /\ request[q].save \in Saves
        /\ q \in InFlight("notes")
    BY KindOfRequest DEF UpsertNotes, At, FormRequest, InFlight
  <1>2. /\ request'[q] = Free /\ \A p \in Requests \ {q} : request'[p] = request[p]
        /\ RequestsTyped' /\ Alone'
        /\ \A on \in Things \cup Orders : on \notin {"notes", "nothing"} => Untouched(on)
        /\ started' = started /\ started \in Nat /\ crossed' = crossed
    BY <1>1, Ended DEF UpsertNotes
  <1>3. notes' = FormWritten(notes, request[q].row, request[q].save)
    BY DEF UpsertNotes, FormWritten
  <1>4. /\ saved' \in [notes : Saves, answers : Saves]
        /\ saved'.notes = request[q].save /\ saved'.answers = saved.answers
    BY <1>1 DEF UpsertNotes, RecordTypeOK
  <1>5. /\ notes' \in Seq(Saves)
        /\ Len(notes) <= 1 /\ request[q].row = Len(notes) =>
              Len(notes') = 1 /\ notes'[1] = request[q].save
    BY <1>1, <1>3, RowsFound, FormTable
  <1>6. RecordTypeOK'
    BY <1>2, <1>4, <1>5 DEF RecordTypeOK, UpsertNotes, VisitRow, Livestock, Photos
  <1>7. NotesAreOneRow'
    <2>1. ASSUME "notes" \notin crossed
          PROVE  InFlight("notes")' = {}
      BY <2>1, <1>1, <1>2 DEF Alone, InFlight, Free
    <2>2. ASSUME "notes" \notin crossed
          PROVE  Len(notes') = 1 /\ notes'[1] = request[q].save
      <3>1. Len(notes) <= 1 /\ request[q].row = Len(notes)
        BY <2>2, <1>1 DEF NotesAreOneRow
      <3> QED BY <3>1, <1>5
    <2>3. ASSUME "notes" \notin crossed
          PROVE  /\ Len(notes') <= 1
                 /\ saved'.notes = IF Len(notes') = 0 THEN 0 ELSE notes'[1]
      <3>1. Len(notes') = 1 /\ saved'.notes = notes'[1]
        BY <2>2, <2>3, <1>4
      <3>2. Len(notes') <= 1 /\ Len(notes') # 0
        BY <3>1
      <3> QED BY <3>1, <3>2
    <2> QED BY <2>1, <2>3, <1>2 DEF NotesAreOneRow
  <1>8. /\ \A on \in {"answers", "livestock", "vet", "photos", "photo"} : Fewer(on)
        /\ \A o \in Orders : Untouched(o)
    BY <1>2, OrderIsNoThing DEF Untouched, Things
  <1>9. AnswersAreOneRow' /\ FarmerIsNewest' /\ VetIsSeen' /\ VetRequestStartsOver'
    BY <1>4, <1>8, AnswersKept, FarmerKept, VetKept DEF UpsertNotes, Livestock
  <1>10. ReviewFollowed' /\ KeysKept' /\ Counted'
    BY <1>2, <1>8, ReviewsKept, PhotosKept DEF UpsertNotes, Photos
  <1> QED BY <1>2, <1>6, <1>7, <1>9, <1>10

LEMMA UpsertOrgAnswersStep ==
    ASSUME RecordInv, NEW q \in Requests, UpsertOrgAnswers(q) PROVE RecordInv'
  <1> USE DEF RecordInv
  <1>1. /\ request[q].on = "answers" /\ request[q].row \in Nat /\ request[q].save \in Saves
        /\ q \in InFlight("answers")
    BY KindOfRequest DEF UpsertOrgAnswers, At, FormRequest, InFlight
  <1>2. /\ request'[q] = Free /\ \A p \in Requests \ {q} : request'[p] = request[p]
        /\ RequestsTyped' /\ Alone'
        /\ \A on \in Things \cup Orders : on \notin {"answers", "nothing"} => Untouched(on)
        /\ started' = started /\ started \in Nat /\ crossed' = crossed
    BY <1>1, Ended DEF UpsertOrgAnswers
  <1>3. answers' = FormWritten(answers, request[q].row, request[q].save)
    BY DEF UpsertOrgAnswers, FormWritten
  <1>4. /\ saved' \in [notes : Saves, answers : Saves]
        /\ saved'.answers = request[q].save /\ saved'.notes = saved.notes
    BY <1>1 DEF UpsertOrgAnswers, RecordTypeOK
  <1>5. /\ answers' \in Seq(Saves)
        /\ Len(answers) <= 1 /\ request[q].row = Len(answers) =>
              Len(answers') = 1 /\ answers'[1] = request[q].save
    BY <1>1, <1>3, RowsFound, FormTable
  <1>6. RecordTypeOK'
    BY <1>2, <1>4, <1>5 DEF RecordTypeOK, UpsertOrgAnswers, VisitRow, Livestock, Photos
  <1>7. AnswersAreOneRow'
    <2>1. ASSUME "answers" \notin crossed
          PROVE  InFlight("answers")' = {}
      BY <2>1, <1>1, <1>2 DEF Alone, InFlight, Free
    <2>2. ASSUME "answers" \notin crossed
          PROVE  Len(answers') = 1 /\ answers'[1] = request[q].save
      <3>1. Len(answers) <= 1 /\ request[q].row = Len(answers)
        BY <2>2, <1>1 DEF AnswersAreOneRow
      <3> QED BY <3>1, <1>5
    <2>3. ASSUME "answers" \notin crossed
          PROVE  /\ Len(answers') <= 1
                 /\ saved'.answers = IF Len(answers') = 0 THEN 0 ELSE answers'[1]
      <3>1. Len(answers') = 1 /\ saved'.answers = answers'[1]
        BY <2>2, <2>3, <1>4
      <3>2. Len(answers') <= 1 /\ Len(answers') # 0
        BY <3>1
      <3> QED BY <3>1, <3>2
    <2> QED BY <2>1, <2>3, <1>2 DEF AnswersAreOneRow
  <1>8. /\ \A on \in {"notes", "livestock", "vet", "photos", "photo"} : Fewer(on)
        /\ \A o \in Orders : Untouched(o)
    BY <1>2, OrderIsNoThing DEF Untouched, Things
  <1>9. NotesAreOneRow' /\ FarmerIsNewest' /\ VetIsSeen' /\ VetRequestStartsOver'
    BY <1>4, <1>8, NotesKept, FarmerKept, VetKept DEF UpsertOrgAnswers, Livestock
  <1>10. ReviewFollowed' /\ KeysKept' /\ Counted'
    BY <1>2, <1>8, ReviewsKept, PhotosKept DEF UpsertOrgAnswers, Photos
  <1> QED BY <1>2, <1>6, <1>7, <1>9, <1>10

-----------------------------------------------------------------------------
(* Livestock and the vet request                                            *)

LEMMA UpsertLivestockStep ==
    ASSUME RecordInv, NEW q \in Requests, UpsertLivestock(q) PROVE RecordInv'
  <1> USE DEF RecordInv
  <1> DEFINE given == request[q].given
             seen == request[q].seen
  <1>1. /\ request[q].on = "livestock" /\ q \in InFlight("livestock")
        /\ given \in [Fields -> Values] /\ seen \in [Fields -> Values]
    BY KindOfRequest DEF UpsertLivestock, At, LivestockRequest, FarmerValues, InFlight
  <1>2. /\ request'[q] = Free /\ \A p \in Requests \ {q} : request'[p] = request[p]
        /\ RequestsTyped' /\ Alone'
        /\ \A on \in Things \cup Orders : on \notin {"livestock", "nothing"} => Untouched(on)
        /\ started' = started /\ started \in Nat /\ crossed' = crossed
    BY <1>1, Ended DEF UpsertLivestock, history
  <1>3. /\ newest' = [f \in Fields |-> IF given[f] # 0 THEN given[f] ELSE newest[f]]
        /\ farmer' = [f \in Fields |-> IF given[f] # 0 /\ given[f] # seen[f]
                                       THEN given[f] ELSE farmer[f]]
        /\ newest \in [Fields -> Values] /\ farmer \in [Fields -> Values]
    BY DEF UpsertLivestock, RecordTypeOK
  <1>4. newest' \in [Fields -> Values] /\ farmer' \in [Fields -> Values]
    BY <1>1, <1>3
  <1>5. RecordTypeOK'
    BY <1>2, <1>4 DEF RecordTypeOK, UpsertLivestock, VisitRow, Forms, Photos, history
  <1>6. FarmerIsNewest'
    <2>1. ASSUME "livestock" \notin crossed
          PROVE  farmer = newest /\ seen = farmer /\ \A p \in InFlight("livestock")' : FALSE
      BY <2>1, <1>1, <1>2 DEF FarmerIsNewest, Alone, InFlight, Free
    <2>2. farmer = newest /\ seen = farmer => farmer' = newest'
      BY <1>1, <1>3
    <2> QED BY <2>1, <2>2, <1>2 DEF FarmerIsNewest
  <1>7. /\ \A on \in {"notes", "answers", "vet", "photos", "photo"} : Fewer(on)
        /\ \A o \in Orders : Untouched(o)
    BY <1>2, OrderIsNoThing DEF Untouched, Things
  <1>8. NotesAreOneRow' /\ AnswersAreOneRow' /\ VetIsSeen' /\ VetRequestStartsOver'
    BY <1>7, NotesKept, AnswersKept, VetKept DEF UpsertLivestock, Forms, history
  <1>9. ReviewFollowed' /\ KeysKept' /\ Counted'
    BY <1>2, <1>7, ReviewsKept, PhotosKept DEF UpsertLivestock, Photos, history
  <1> QED BY <1>2, <1>5, <1>6, <1>8, <1>9

\* What ends a request for the vet leaves alone.
LEMMA VetElsewhere ==
    ASSUME RecordInv, NEW q \in Requests, request[q].on = "vet", Ends(q),
           UNCHANGED <<warned, remark, Forms, Livestock, orders, Photos, saved, told, crossed>>,
           vet' \in VetState, moved' \in BOOLEAN
    PROVE  /\ RecordTypeOK' /\ RequestsTyped' /\ Alone'
           /\ NotesAreOneRow' /\ AnswersAreOneRow' /\ FarmerIsNewest'
           /\ ReviewFollowed' /\ KeysKept' /\ Counted'
           /\ "vet" \notin crossed' => InFlight("vet")' = {}
  <1> USE DEF RecordInv
  <1>1. /\ request'[q] = Free /\ \A p \in Requests \ {q} : request'[p] = request[p]
        /\ RequestsTyped' /\ Alone'
        /\ \A on \in Things \cup Orders : on \notin {"vet", "nothing"} => Untouched(on)
        /\ started' = started /\ started \in Nat /\ crossed' = crossed
    BY Ended
  <1>2. RecordTypeOK'
    BY <1>1 DEF RecordTypeOK, VetState, Forms, Livestock, Photos
  <1>3. "vet" \notin crossed' => InFlight("vet")' = {}
    BY <1>1 DEF Alone, InFlight, Free
  <1>4. /\ \A on \in {"notes", "answers", "livestock", "photos", "photo"} : Fewer(on)
        /\ \A o \in Orders : Untouched(o)
    BY <1>1, OrderIsNoThing DEF Untouched, Things
  <1>5. NotesAreOneRow' /\ AnswersAreOneRow' /\ FarmerIsNewest'
    BY <1>4, NotesKept, AnswersKept, FarmerKept DEF Forms, Livestock
  <1>6. ReviewFollowed' /\ KeysKept' /\ Counted'
    BY <1>1, <1>4, ReviewsKept, PhotosKept DEF Photos
  <1> QED BY <1>1, <1>2, <1>3, <1>5, <1>6

LEMMA SetVetStep == ASSUME RecordInv, NEW q \in Requests, SetVet(q) PROVE RecordInv'
  <1> USE DEF RecordInv
  <1> DEFINE r == request[q]
             needs == Changed(r.needs, r.seen.needs, vet.needs)
             status == Changed(Raised(r.needs, r.seen.status), r.seen.status, vet.status)
  <1>1. /\ r.on = "vet" /\ r.at = "raise" /\ r.needs \in BOOLEAN /\ r.seen \in VetState
        /\ q \in InFlight("vet")
    BY KindOfRequest DEF SetVet, At, RaiseRequest, MoveRequest, InFlight
  <1>2. r.seen.status \in VetStatus /\ vet.needs \in BOOLEAN /\ vet.status \in VetStatus
    BY <1>1 DEF VetState, RecordTypeOK
  <1>3. /\ vet' = [needs |-> needs, status |-> status] /\ moved' = (moved /\ r.needs)
        /\ Ends(q)
        /\ UNCHANGED <<warned, remark, Forms, Livestock, orders, Photos, saved, told, crossed>>
    BY DEF SetVet, VisitRow
  <1>4. needs \in BOOLEAN /\ status \in VetStatus
    BY <1>1, <1>2 DEF Changed, Raised, VetStatus
  <1>5. moved' \in BOOLEAN
    BY <1>1, <1>3 DEF RecordTypeOK
  <1>6. vet' \in VetState
    BY <1>3, <1>4 DEF VetState
  <1>7. /\ RecordTypeOK' /\ RequestsTyped' /\ Alone'
        /\ NotesAreOneRow' /\ AnswersAreOneRow' /\ FarmerIsNewest'
        /\ ReviewFollowed' /\ KeysKept' /\ Counted'
        /\ "vet" \notin crossed' => InFlight("vet")' = {}
    BY <1>1, <1>3, <1>5, <1>6, VetElsewhere
  <1>8. VetIsSeen'
    BY <1>7 DEF VetIsSeen
  <1>9. ASSUME "vet" \notin crossed
        PROVE  /\ vet'.needs = (vet'.status # "NONE")
               /\ vet'.status \in {"SCHEDULED", "DONE"} => moved'
    <2>1. /\ r.seen = vet /\ vet.needs = (vet.status # "NONE")
          /\ vet.status \in {"SCHEDULED", "DONE"} => moved
      BY <1>1, <1>9 DEF VetIsSeen, VetRequestStartsOver
    <2>2. needs = r.needs /\ status = Raised(r.needs, vet.status)
      BY <2>1 DEF Changed
    <2>3. vet'.needs = r.needs /\ vet'.status = Raised(r.needs, vet.status)
      BY <2>2, <1>3
    <2>4. CASE r.needs
      BY <2>4, <2>1, <2>3, <1>3 DEF Raised
    <2>5. CASE ~r.needs
      BY <2>5, <1>1, <2>3, <1>3 DEF Raised
    <2> QED BY <2>4, <2>5
  <1>10. VetRequestStartsOver'
    BY <1>3, <1>9 DEF VetRequestStartsOver
  <1> QED BY <1>7, <1>8, <1>10

LEMMA UpdateVetStatusStep ==
    ASSUME RecordInv, NEW q \in Requests, UpdateVetStatus(q) PROVE RecordInv'
  <1> USE DEF RecordInv
  <1> DEFINE r == request[q]
             status == Changed(r.status, r.seen.status, vet.status)
  <1>1. /\ r.on = "vet" /\ r.at = "move" /\ r.status \in VetStatus \ {"NONE"}
        /\ r.seen \in VetState /\ q \in InFlight("vet")
    BY KindOfRequest DEF UpdateVetStatus, At, RaiseRequest, MoveRequest, InFlight
  <1>2. vet \in VetState /\ status \in VetStatus
    BY <1>1 DEF VetState, RecordTypeOK, Changed
  <1>3. /\ vet' = [vet EXCEPT !.status = status] /\ moved' = TRUE /\ Ends(q)
        /\ UNCHANGED <<warned, remark, Forms, Livestock, orders, Photos, saved, told, crossed>>
    BY DEF UpdateVetStatus, VisitRow
  <1>4. vet' \in VetState /\ vet'.needs = vet.needs /\ vet'.status = status
    BY <1>2, <1>3 DEF VetState
  <1>5. /\ RecordTypeOK' /\ RequestsTyped' /\ Alone'
        /\ NotesAreOneRow' /\ AnswersAreOneRow' /\ FarmerIsNewest'
        /\ ReviewFollowed' /\ KeysKept' /\ Counted'
        /\ "vet" \notin crossed' => InFlight("vet")' = {}
    BY <1>1, <1>3, <1>4, VetElsewhere
  <1>6. VetIsSeen'
    BY <1>5 DEF VetIsSeen
  <1>7. ASSUME "vet" \notin crossed
        PROVE  vet'.needs = (vet'.status # "NONE")
    <2>1. r.seen = vet /\ vet.needs
      BY <1>1, <1>7 DEF VetIsSeen
    <2>2. status = r.status
      BY <2>1 DEF Changed
    <2> QED BY <2>1, <2>2, <1>1, <1>2, <1>4 DEF VetState
  <1>8. VetRequestStartsOver'
    BY <1>3, <1>7 DEF VetRequestStartsOver
  <1> QED BY <1>5, <1>6, <1>8

-----------------------------------------------------------------------------
(* Orders                                                                   *)

\* What a step with the order o leaves alone: all but o.
LEMMA OrderElsewhere ==
    ASSUME RecordInv, NEW o \in Orders,
           UNCHANGED <<warned, remark, vet, Forms, Livestock, Photos, saved, moved, started, crossed>>,
           \A on \in Things \cup Orders : on \notin {o, "nothing"} => Untouched(on),
           orders' \in [Orders -> Order], told' \in [Orders -> Seq(Verdicts)],
           \A x \in Orders \ {o} : orders'[x] = orders[x] /\ told'[x] = told[x]
    PROVE  /\ RecordTypeOK' /\ NotesAreOneRow' /\ AnswersAreOneRow' /\ FarmerIsNewest'
           /\ VetIsSeen' /\ VetRequestStartsOver' /\ KeysKept' /\ Counted'
           /\ \A x \in Orders \ crossed : x # o =>
                 /\ Untouched(x) /\ orders'[x] = orders[x] /\ told'[x] = told[x]
  <1> USE DEF RecordInv
  <1>1. \A on \in {"notes", "answers", "livestock", "vet", "photos", "photo"} : Fewer(on)
    BY OrderIsNoThing DEF Untouched, Things
  <1>2. RecordTypeOK'
    BY DEF RecordTypeOK, Forms, Livestock, Photos
  <1>3. /\ NotesAreOneRow' /\ AnswersAreOneRow' /\ FarmerIsNewest'
        /\ VetIsSeen' /\ VetRequestStartsOver'
    BY <1>1, NotesKept, AnswersKept, FarmerKept, VetKept DEF Forms, Livestock
  <1>4. started \in Nat
    BY RecordAssumption DEF RecordTypeOK, Saves
  <1>5. KeysKept' /\ Counted'
    BY <1>1, <1>4, PhotosKept DEF Photos
  <1>6. \A x \in Orders : x # o => Untouched(x)
    BY OrderIsNoThing DEF Things
  <1> QED BY <1>2, <1>3, <1>5, <1>6

\* The review of the other orders is followed still.
LEMMA OthersFollowed ==
    ASSUME ReviewFollowed, NEW x \in Orders \ crossed, Untouched(x),
           orders'[x] = orders[x], told'[x] = told[x]
    PROVE  /\ orders'[x].status \notin Verdicts =>
                 ~orders'[x].reason /\ (told'[x] = <<>> \/ \E q \in Requests : At(q, x, "flushed")')
           /\ orders'[x].status \in Verdicts =>
                 told'[x] = <<orders'[x].status>> /\ orders'[x].reason = (orders'[x].status = "REJECTED")
           /\ \A q \in InFlight(x)' :
                 /\ request'[q].at = "absent" => orders'[x].status = "NONE"
                 /\ request'[q].at # "absent" => orders'[x].status = "SUBMITTED"
                 /\ request'[q].at = "review" => told'[x] = <<>>
                 /\ request'[q].at = "flushed" => told'[x] = <<request'[q].ruling>>
  BY DEF ReviewFollowed, Untouched, Fewer, InFlight, At

LEMMA CreateOrderStep ==
    ASSUME RecordInv, NEW q \in Requests, NEW o \in Orders, CreateOrder(q, o) PROVE RecordInv'
  <1> USE DEF RecordInv
  <1>1. request[q].on = o /\ request[q].at = "absent" /\ q \in InFlight(o) /\ o # "nothing"
    BY OrderIsNoThing DEF CreateOrder, At, InFlight, Things
  <1>2. /\ request'[q] = Free /\ \A p \in Requests \ {q} : request'[p] = request[p]
        /\ RequestsTyped' /\ Alone'
        /\ \A on \in Things \cup Orders : on \notin {o, "nothing"} => Untouched(on)
        /\ started' = started /\ crossed' = crossed
    BY <1>1, Ended DEF CreateOrder, history
  <1>3. /\ orders' = IF orders[o].status = "NONE"
                     THEN [orders EXCEPT ![o] = [orders[o] EXCEPT !.status = "SUBMITTED"]]
                     ELSE orders
        /\ orders \in [Orders -> Order] /\ told' = told /\ told \in [Orders -> Seq(Verdicts)]
        /\ UNCHANGED <<warned, remark, vet, Forms, Livestock, Photos, saved, moved, started, crossed>>
    BY <1>2 DEF CreateOrder, RecordTypeOK, VisitRow, history
  <1>4. [orders[o] EXCEPT !.status = "SUBMITTED"] \in Order
    <2>1. orders[o] \in Order
      BY <1>3
    <2> QED BY <2>1 DEF Order
  <1>5. orders' \in [Orders -> Order] /\ \A x \in Orders \ {o} : orders'[x] = orders[x]
    BY <1>3, <1>4
  <1>6. /\ RecordTypeOK' /\ NotesAreOneRow' /\ AnswersAreOneRow' /\ FarmerIsNewest'
        /\ VetIsSeen' /\ VetRequestStartsOver' /\ KeysKept' /\ Counted'
        /\ \A x \in Orders \ crossed : x # o =>
              Untouched(x) /\ orders'[x] = orders[x] /\ told'[x] = told[x]
    BY <1>2, <1>3, <1>5, OrderElsewhere
  <1>7. ASSUME o \notin crossed
        PROVE  /\ InFlight(o)' = {} /\ told'[o] = <<>>
               /\ orders'[o].status = "SUBMITTED" /\ ~orders'[o].reason
    <2>1. InFlight(o)' = {} /\ \A p \in Requests : ~At(p, o, "flushed")
      BY <1>1, <1>2, <1>7 DEF Alone, InFlight, Free, At
    <2>2. orders[o].status = "NONE" /\ ~orders[o].reason /\ told[o] = <<>>
      BY <1>1, <1>7, <2>1 DEF ReviewFollowed, Verdicts
    <2>3. orders[o] \in Order
      BY <1>3
    <2>4. orders'[o] = [orders[o] EXCEPT !.status = "SUBMITTED"]
      BY <1>3, <2>2
    <2> QED BY <1>3, <2>1, <2>2, <2>3, <2>4 DEF Order
  <1>8. ReviewFollowed'
    <2>1. ASSUME NEW x \in Orders \ crossed', x # o
          PROVE  Untouched(x) /\ orders'[x] = orders[x] /\ told'[x] = told[x] /\ x \in Orders \ crossed
      BY <2>1, <1>2, <1>6
    <2> QED BY <1>2, <1>7, <2>1, OthersFollowed DEF ReviewFollowed, Verdicts
  <1> QED BY <1>2, <1>6, <1>8

LEMMA FlushReviewStep ==
    ASSUME RecordInv, NEW q \in Requests, NEW o \in Orders, FlushReview(q, o) PROVE RecordInv'
  <1> USE DEF RecordInv
  <1> DEFINE r == [request[q] EXCEPT !.at = "flushed"]
  <1>1. /\ request[q].on = o /\ request[q].at = "review" /\ q \in InFlight(o) /\ o # "nothing"
        /\ request[q] \in ReviewRequest
    BY KindOfRequest, OrderIsNoThing
       DEF FlushReview, At, InFlight, Things, CreateRequest, ReviewRequest
  <1>2. /\ r \in ReviewRequest /\ r.on = o /\ r.at = "flushed" /\ r.ruling = request[q].ruling
        /\ r = [request[q] EXCEPT !.at = "flushed"] /\ r.ruling \in Verdicts
    BY <1>1 DEF ReviewRequest
  <1>3. r \in Work
    BY <1>2 DEF Work
  <1> HIDE DEF r
  <1>4. /\ request'[q] = r /\ \A p \in Requests \ {q} : request'[p] = request[p]
        /\ RequestsTyped' /\ Alone'
        /\ \A on \in Things \cup Orders : on \notin {o, "nothing"} => Untouched(on)
        /\ started' = started
    BY <1>1, <1>2, <1>3, WentOn DEF FlushReview
  <1>5. /\ told' = [told EXCEPT ![o] = Append(told[o], r.ruling)] /\ told \in [Orders -> Seq(Verdicts)]
        /\ orders' = orders /\ orders \in [Orders -> Order] /\ crossed' = crossed
        /\ UNCHANGED <<warned, remark, vet, Forms, Livestock, Photos, saved, moved, started, crossed>>
    BY <1>2, <1>4 DEF FlushReview, RecordTypeOK, rows, Forms, Livestock, Photos
  <1>6. told' \in [Orders -> Seq(Verdicts)] /\ \A x \in Orders \ {o} : told'[x] = told[x]
    <2>1. told[o] \in Seq(Verdicts)
      BY <1>5
    <2>2. Append(told[o], r.ruling) \in Seq(Verdicts)
      BY <1>2, <2>1, AppendProperties
    <2> QED BY <1>5, <2>2
  <1>7. /\ RecordTypeOK' /\ NotesAreOneRow' /\ AnswersAreOneRow' /\ FarmerIsNewest'
        /\ VetIsSeen' /\ VetRequestStartsOver' /\ KeysKept' /\ Counted'
        /\ \A x \in Orders \ crossed : x # o =>
              Untouched(x) /\ orders'[x] = orders[x] /\ told'[x] = told[x]
    BY <1>4, <1>5, <1>6, OrderElsewhere
  <1>8. ASSUME o \notin crossed
        PROVE  /\ InFlight(o)' = {q} /\ told'[o] = <<r.ruling>> /\ At(q, o, "flushed")'
               /\ orders'[o].status = "SUBMITTED" /\ ~orders'[o].reason
    <2>1. InFlight(o)' = {q} /\ At(q, o, "flushed")'
      <3>1. At(q, o, "flushed")'
        BY <1>2, <1>4 DEF At
      <3>2. ASSUME NEW p \in InFlight(o)' PROVE p = q
        BY <3>2, <1>1, <1>4, <1>8 DEF Alone, InFlight
      <3> QED BY <3>1, <3>2 DEF InFlight, At
    <2>2. told[o] = <<>> /\ orders[o].status = "SUBMITTED" /\ ~orders[o].reason
      BY <1>1, <1>8 DEF ReviewFollowed, Verdicts
    <2>3. told'[o] = <<r.ruling>>
      <3>1. Append(<<>>, r.ruling) = <<r.ruling>>
        OBVIOUS
      <3> QED BY <1>5, <2>2, <3>1
    <2> QED BY <1>5, <2>1, <2>2, <2>3
  <1>9. ReviewFollowed'
    <2>1. ASSUME NEW x \in Orders \ crossed', x # o
          PROVE  Untouched(x) /\ orders'[x] = orders[x] /\ told'[x] = told[x] /\ x \in Orders \ crossed
      BY <2>1, <1>5, <1>7
    <2>2. ASSUME o \notin crossed
          PROVE  /\ InFlight(o)' = {q} /\ request'[q].at = "flushed"
                 /\ told'[o] = <<request'[q].ruling>>
                 /\ orders'[o].status = "SUBMITTED" /\ ~orders'[o].reason
                 /\ \E p \in Requests : At(p, o, "flushed")'
      BY <2>2, <1>2, <1>4, <1>8
    <2> QED BY <1>5, <2>1, <2>2, OthersFollowed DEF ReviewFollowed, Verdicts
  <1> QED BY <1>4, <1>7, <1>9

LEMMA CommitReviewStep ==
    ASSUME RecordInv, NEW q \in Requests, NEW o \in Orders, CommitReview(q, o) PROVE RecordInv'
  <1> USE DEF RecordInv
  <1> DEFINE r == request[q]
             row == [orders[o] EXCEPT !.status = r.ruling, !.reason = @ \/ r.ruling = "REJECTED"]
  <1>1. /\ r.on = o /\ r.at = "flushed" /\ q \in InFlight(o) /\ o # "nothing" /\ r.ruling \in Verdicts
    BY KindOfRequest, OrderIsNoThing
       DEF CommitReview, At, InFlight, Things, CreateRequest, ReviewRequest
  <1>2. /\ request'[q] = Free /\ \A p \in Requests \ {q} : request'[p] = request[p]
        /\ RequestsTyped' /\ Alone'
        /\ \A on \in Things \cup Orders : on \notin {o, "nothing"} => Untouched(on)
        /\ started' = started /\ crossed' = crossed
    BY <1>1, Ended DEF CommitReview, history
  <1>3. /\ orders \in [Orders -> Order] /\ told' = told /\ told \in [Orders -> Seq(Verdicts)]
        /\ UNCHANGED <<warned, remark, vet, Forms, Livestock, Photos, saved, moved, started, crossed>>
    BY <1>2 DEF CommitReview, RecordTypeOK, VisitRow, history
  <1>4. /\ row \in Order /\ row.status = r.ruling
        /\ row.reason = (orders[o].reason \/ r.ruling = "REJECTED")
    <2>1. orders[o] \in Order
      BY <1>3
    <2> QED BY <2>1, <1>1 DEF Order, Verdicts
  <1>5. orders' = [orders EXCEPT ![o] = row]
    BY <1>3 DEF CommitReview
  <1>6. /\ orders' \in [Orders -> Order] /\ \A x \in Orders \ {o} : orders'[x] = orders[x]
        /\ orders'[o] = row
    BY <1>3, <1>4, <1>5
  <1>7. /\ RecordTypeOK' /\ NotesAreOneRow' /\ AnswersAreOneRow' /\ FarmerIsNewest'
        /\ VetIsSeen' /\ VetRequestStartsOver' /\ KeysKept' /\ Counted'
        /\ \A x \in Orders \ crossed : x # o =>
              Untouched(x) /\ orders'[x] = orders[x] /\ told'[x] = told[x]
    BY <1>2, <1>3, <1>6, OrderElsewhere
  <1>8. ASSUME o \notin crossed
        PROVE  /\ InFlight(o)' = {} /\ told'[o] = <<r.ruling>>
               /\ orders'[o].status = r.ruling /\ orders'[o].reason = (r.ruling = "REJECTED")
    <2>1. InFlight(o)' = {}
      BY <1>1, <1>2, <1>8 DEF Alone, InFlight, Free
    <2>2. told[o] = <<r.ruling>> /\ orders[o].reason = FALSE
      <3>1. orders[o] \in Order
        BY <1>3
      <3> QED BY <3>1, <1>1, <1>8 DEF ReviewFollowed, Verdicts, Order
    <2> QED BY <1>3, <1>6, <2>1, <2>2
  <1>9. ReviewFollowed'
    <2>1. ASSUME NEW x \in Orders \ crossed', x # o
          PROVE  Untouched(x) /\ orders'[x] = orders[x] /\ told'[x] = told[x] /\ x \in Orders \ crossed
      BY <2>1, <1>2, <1>7
    <2>2. ASSUME o \notin crossed
          PROVE  /\ InFlight(o)' = {} /\ orders'[o].status \in Verdicts
                 /\ told'[o] = <<orders'[o].status>>
                 /\ orders'[o].reason = (orders'[o].status = "REJECTED")
      BY <2>2, <1>1, <1>8
    <2> QED BY <1>2, <2>1, <2>2, OthersFollowed DEF ReviewFollowed
  <1> QED BY <1>2, <1>7, <1>9

-----------------------------------------------------------------------------
(* Photos                                                                   *)

\* What a step with photos leaves alone.
LEMMA PhotoElsewhere ==
    ASSUME RecordInv, NEW q \in Requests, request[q].on \in {"photos", "photo"},
           UNCHANGED <<VisitRow, vet, Forms, Livestock, orders, history, started>>,
           photos' \cup objects' \subseteq Saves,
           \A on \in Things \cup Orders : on \notin {request[q].on, "nothing"} => Untouched(on)
    PROVE  /\ RecordTypeOK' /\ NotesAreOneRow' /\ AnswersAreOneRow' /\ FarmerIsNewest'
           /\ VetIsSeen' /\ VetRequestStartsOver' /\ ReviewFollowed'
  <1> USE DEF RecordInv
  <1>1. /\ \A on \in {"notes", "answers", "livestock", "vet"} : Fewer(on)
        /\ \A o \in Orders : Untouched(o)
    BY OrderIsNoThing DEF Untouched, Things
  <1>2. RecordTypeOK'
    BY DEF RecordTypeOK, VisitRow, Forms, Livestock, history
  <1>3. /\ NotesAreOneRow' /\ AnswersAreOneRow' /\ FarmerIsNewest'
        /\ VetIsSeen' /\ VetRequestStartsOver' /\ ReviewFollowed'
    BY <1>1, NotesKept, AnswersKept, FarmerKept, VetKept, ReviewsKept DEF Forms, Livestock, history
  <1> QED BY <1>2, <1>3

LEMMA PhotosFinite ==
    ASSUME RecordTypeOK PROVE IsFiniteSet(photos) /\ Cardinality(photos) \in Nat
  <1>1. photos \subseteq 0..MaxStarted /\ MaxStarted \in Nat
    BY RecordAssumption DEF RecordTypeOK, Saves
  <1>2. IsFiniteSet(0..MaxStarted)
    BY <1>1, FS_Interval
  <1> QED BY <1>1, <1>2, FS_Subset, FS_CardinalityType

LEMMA UploadPhotoStep == ASSUME RecordInv, NEW q \in Requests, UploadPhoto(q) PROVE RecordInv'
  <1> USE DEF RecordInv
  <1> DEFINE r == [request[q] EXCEPT !.at = "uploaded"]
  <1>1. /\ request[q].on = "photos" /\ q \in InFlight("photos") /\ request[q] \in UploadRequest
    BY KindOfRequest DEF UploadPhoto, At, InFlight
  <1>2. /\ r \in UploadRequest /\ r.on = "photos" /\ r.at = "uploaded" /\ r.key = request[q].key
        /\ r = [request[q] EXCEPT !.at = "uploaded"] /\ r.key \in Saves
    BY <1>1 DEF UploadRequest
  <1>3. r \in Work
    BY <1>2 DEF Work
  <1> HIDE DEF r
  <1>4. /\ request'[q] = r /\ \A p \in Requests \ {q} : request'[p] = request[p]
        /\ RequestsTyped' /\ Alone'
        /\ \A on \in Things \cup Orders : on \notin {"photos", "nothing"} => Untouched(on)
        /\ started' = started
    BY <1>1, <1>2, <1>3, WentOn DEF UploadPhoto, history
  <1>5. /\ photos' = photos /\ objects' = objects \cup {r.key} /\ crossed' = crossed
        /\ UNCHANGED <<VisitRow, vet, Forms, Livestock, orders, history, started>>
    BY <1>2, <1>4 DEF UploadPhoto, history
  <1>6. /\ RecordTypeOK' /\ NotesAreOneRow' /\ AnswersAreOneRow' /\ FarmerIsNewest'
        /\ VetIsSeen' /\ VetRequestStartsOver' /\ ReviewFollowed'
    <2>1. photos' \cup objects' \subseteq Saves
      BY <1>2, <1>5 DEF RecordTypeOK
    <2> QED BY <2>1, <1>1, <1>4, <1>5, PhotoElsewhere
  <1>7. InFlight("photos")' = InFlight("photos") /\ InFlight("photo")' = InFlight("photo")
    BY <1>1, <1>2, <1>4 DEF InFlight
  <1>8. /\ \A p \in InFlight("photos") : request'[p].key = request[p].key
        /\ \A p \in InFlight("photo") : request'[p] = request[p]
    BY <1>1, <1>2, <1>4 DEF InFlight
  <1>9. KeysKept'
    <2>1. /\ photos' \subseteq objects' /\ \A key \in photos' : key <= started'
      BY <1>4, <1>5 DEF KeysKept
    <2>2. ASSUME NEW p \in InFlight("photos")'
          PROVE  request'[p].at = "uploaded" => request'[p].key \in objects'
      BY <2>2, <1>2, <1>4, <1>5, <1>7 DEF KeysKept, InFlight
    <2> QED BY <2>1, <2>2, <1>4, <1>5, <1>7, <1>8 DEF KeysKept
  <1>10. Counted'
    BY <1>5, <1>7 DEF Counted
  <1> QED BY <1>4, <1>6, <1>9, <1>10

LEMMA AddPhotoStep == ASSUME RecordInv, NEW q \in Requests, AddPhoto(q) PROVE RecordInv'
  <1> USE DEF RecordInv
  <1> DEFINE key == request[q].key
  <1>1. /\ request[q].on = "photos" /\ q \in InFlight("photos") /\ key \in Saves
        /\ request[q].at = "uploaded"
    BY KindOfRequest DEF AddPhoto, At, InFlight, UploadRequest
  <1>2. /\ request'[q] = Free /\ \A p \in Requests \ {q} : request'[p] = request[p]
        /\ RequestsTyped' /\ Alone'
        /\ \A on \in Things \cup Orders : on \notin {"photos", "nothing"} => Untouched(on)
        /\ started' = started /\ crossed' = crossed
    BY <1>1, Ended DEF AddPhoto, history
  <1>3. /\ photos' = photos \cup {key} /\ objects' = objects
        /\ UNCHANGED <<VisitRow, vet, Forms, Livestock, orders, history, started>>
    BY <1>2 DEF AddPhoto
  <1>4. /\ RecordTypeOK' /\ NotesAreOneRow' /\ AnswersAreOneRow' /\ FarmerIsNewest'
        /\ VetIsSeen' /\ VetRequestStartsOver' /\ ReviewFollowed'
    <2>1. photos' \cup objects' \subseteq Saves
      BY <1>1, <1>3 DEF RecordTypeOK
    <2> QED BY <2>1, <1>1, <1>2, <1>3, PhotoElsewhere
  <1>5. InFlight("photos")' = InFlight("photos") \ {q} /\ InFlight("photo")' = InFlight("photo")
    BY <1>1, <1>2 DEF InFlight, Free
  <1>6. /\ \A p \in InFlight("photos") \ {q} : request'[p] = request[p]
        /\ \A p \in InFlight("photo") : request'[p] = request[p]
    BY <1>1, <1>2 DEF InFlight
  <1> HIDE DEF key
  <1>7. /\ key <= started /\ key \notin photos /\ key \in objects
        /\ \A p \in InFlight("photos") \ {q} : request[p].key # key
        /\ \A p \in InFlight("photo") : request[p].key # key
    BY <1>1 DEF KeysKept, key
  <1>8. KeysKept'
    BY <1>2, <1>3, <1>5, <1>6, <1>7 DEF KeysKept
  <1>9. Counted'
    <2>1. ASSUME "photos" \notin crossed
          PROVE  InFlight("photos")' = {} /\ Cardinality(photos') <= MaxPhotos
      <3>1. InFlight("photos")' = {}
        BY <2>1, <1>1, <1>5 DEF Alone, InFlight
      <3>2. Cardinality(photos) < MaxPhotos
        BY <2>1, <1>1 DEF Counted
      <3>3. Cardinality(photos \cup {key}) = Cardinality(photos) + 1 /\ Cardinality(photos) \in Nat
        BY <1>7, PhotosFinite, FS_AddElement
      <3> QED BY <3>1, <3>2, <3>3, <1>3, RecordAssumption
    <2> QED BY <2>1, <1>2 DEF Counted
  <1> QED BY <1>2, <1>4, <1>8, <1>9

LEMMA DeletePhotoStep == ASSUME RecordInv, NEW q \in Requests, DeletePhoto(q) PROVE RecordInv'
  <1> USE DEF RecordInv
  <1> DEFINE r == [request[q] EXCEPT !.at = "deleted"]
  <1>1. /\ request[q].on = "photo" /\ q \in InFlight("photo") /\ request[q] \in DeleteRequest
    BY KindOfRequest DEF DeletePhoto, At, InFlight
  <1>2. /\ r \in DeleteRequest /\ r.on = "photo" /\ r.at = "deleted" /\ r.key = request[q].key
        /\ r = [request[q] EXCEPT !.at = "deleted"]
    BY <1>1 DEF DeleteRequest
  <1>3. r \in Work
    BY <1>2 DEF Work
  <1> HIDE DEF r
  <1>4. /\ request'[q] = r /\ \A p \in Requests \ {q} : request'[p] = request[p]
        /\ RequestsTyped' /\ Alone'
        /\ \A on \in Things \cup Orders : on \notin {"photo", "nothing"} => Untouched(on)
        /\ started' = started
    BY <1>1, <1>2, <1>3, WentOn DEF DeletePhoto, history
  <1>5. /\ photos' = photos \ {r.key} /\ objects' = objects /\ crossed' = crossed
        /\ UNCHANGED <<VisitRow, vet, Forms, Livestock, orders, history, started>>
    BY <1>2, <1>4 DEF DeletePhoto, history
  <1>6. /\ RecordTypeOK' /\ NotesAreOneRow' /\ AnswersAreOneRow' /\ FarmerIsNewest'
        /\ VetIsSeen' /\ VetRequestStartsOver' /\ ReviewFollowed'
    <2>1. photos' \cup objects' \subseteq Saves
      BY <1>5 DEF RecordTypeOK
    <2> QED BY <2>1, <1>1, <1>4, <1>5, PhotoElsewhere
  <1>7. InFlight("photos")' = InFlight("photos") /\ InFlight("photo")' = InFlight("photo")
    BY <1>1, <1>2, <1>4 DEF InFlight
  <1>8. /\ \A p \in InFlight("photos") : request'[p] = request[p]
        /\ \A p \in InFlight("photo") : request'[p].key = request[p].key
    BY <1>1, <1>2, <1>4 DEF InFlight
  <1>9. KeysKept'
    <2>1. ASSUME NEW p \in InFlight("photo")', request'[p].at = "deleted"
          PROVE  request'[p].key \notin photos'
      BY <2>1, <1>2, <1>4, <1>5, <1>7 DEF KeysKept, InFlight
    <2>2. /\ photos' \subseteq objects' /\ \A key \in photos' : key <= started'
      BY <1>4, <1>5 DEF KeysKept
    <2> QED BY <2>1, <2>2, <1>4, <1>5, <1>7, <1>8 DEF KeysKept
  <1>10. Counted'
    <2>1. Cardinality(photos') <= Cardinality(photos) /\ Cardinality(photos') \in Nat
      <3> DEFINE key == r.key
                 rest == photos \ {key}
      <3>1. /\ IsFiniteSet(rest)
            /\ Cardinality(rest) = IF key \in photos THEN Cardinality(photos) - 1 ELSE Cardinality(photos)
        BY PhotosFinite, FS_RemoveElement
      <3>2. photos' = rest
        BY <1>5
      <3> HIDE DEF rest, key
      <3>3. Cardinality(rest) \in Nat
        BY <3>1, FS_CardinalityType
      <3>4. Cardinality(rest) <= Cardinality(photos)
        BY <3>1, PhotosFinite
      <3> QED BY <3>2, <3>3, <3>4
    <2> QED BY <2>1, <1>5, <1>7, PhotosFinite, RecordAssumption DEF Counted
  <1> QED BY <1>4, <1>6, <1>9, <1>10

LEMMA DeleteObjectStep == ASSUME RecordInv, NEW q \in Requests, DeleteObject(q) PROVE RecordInv'
  <1> USE DEF RecordInv
  <1> DEFINE key == request[q].key
  <1>1. /\ request[q].on = "photo" /\ q \in InFlight("photo") /\ request[q].at = "deleted"
    BY DEF DeleteObject, At, InFlight
  <1>2. /\ request'[q] = Free /\ \A p \in Requests \ {q} : request'[p] = request[p]
        /\ RequestsTyped' /\ Alone'
        /\ \A on \in Things \cup Orders : on \notin {"photo", "nothing"} => Untouched(on)
        /\ started' = started /\ crossed' = crossed
    BY <1>1, Ended DEF DeleteObject, history
  <1>3. /\ photos' = photos /\ objects' = objects \ {key}
        /\ UNCHANGED <<VisitRow, vet, Forms, Livestock, orders, history, started>>
    BY <1>2 DEF DeleteObject
  <1>4. /\ RecordTypeOK' /\ NotesAreOneRow' /\ AnswersAreOneRow' /\ FarmerIsNewest'
        /\ VetIsSeen' /\ VetRequestStartsOver' /\ ReviewFollowed'
    <2>1. photos' \cup objects' \subseteq Saves
      BY <1>3 DEF RecordTypeOK
    <2> QED BY <2>1, <1>1, <1>2, <1>3, PhotoElsewhere
  <1>5. InFlight("photos")' = InFlight("photos") /\ InFlight("photo")' = InFlight("photo") \ {q}
    BY <1>1, <1>2 DEF InFlight, Free
  <1>6. /\ \A p \in InFlight("photos") : request'[p] = request[p]
        /\ \A p \in InFlight("photo") \ {q} : request'[p] = request[p]
    BY <1>1, <1>2 DEF InFlight
  <1>7. key \notin photos /\ \A p \in InFlight("photos") : request[p].key # key
    BY <1>1 DEF KeysKept
  <1> HIDE DEF key
  <1>8. KeysKept'
    BY <1>2, <1>3, <1>5, <1>6, <1>7 DEF KeysKept
  <1>9. Counted'
    BY <1>2, <1>3, <1>5 DEF Counted
  <1> QED BY <1>2, <1>4, <1>8, <1>9

-----------------------------------------------------------------------------
(* A request dies                                                           *)

LEMMA DieStep == ASSUME RecordInv, NEW q \in Requests, Die(q) PROVE RecordInv'
  <1> USE DEF RecordInv
  <1>1. /\ request'[q] = Free /\ \A p \in Requests \ {q} : request'[p] = request[p]
        /\ crossed \subseteq crossed' /\ started' = started /\ started \in Nat
        /\ request[q].at = "flushed" => request[q].on \in crossed'
        /\ UNCHANGED <<rows, saved, told, moved>>
    BY RecordAssumption DEF Die, Ends, RequestsTyped, RecordTypeOK, Saves
  <1>2. RequestsTyped' /\ Alone'
    BY <1>1 DEF RequestsTyped, Alone, Free, Die, Ends
  <1>3. RecordTypeOK'
    BY <1>1 DEF RecordTypeOK, rows
  <1>4. \A on \in {"notes", "answers", "livestock", "vet", "photos", "photo"} : Fewer(on)
    BY <1>1 DEF Fewer, Free
  <1>5. /\ NotesAreOneRow' /\ AnswersAreOneRow' /\ FarmerIsNewest'
        /\ VetIsSeen' /\ VetRequestStartsOver' /\ KeysKept' /\ Counted'
    BY <1>1, <1>4, NotesKept, AnswersKept, FarmerKept, VetKept, PhotosKept DEF rows
  <1>6. ReviewFollowed'
    <2>1. ASSUME NEW o \in Orders \ crossed'
          PROVE  /\ \A p \in InFlight(o)' : p \in InFlight(o) /\ request'[p] = request[p]
                 /\ \A p \in Requests : At(p, o, "flushed") => At(p, o, "flushed")'
                 /\ o \in Orders \ crossed
      BY <2>1, <1>1, OrderIsNoThing DEF InFlight, At, Free, Things
    <2> QED BY <2>1, <1>1 DEF ReviewFollowed, rows
  <1> QED BY <1>2, <1>3, <1>5, <1>6

LEMMA SetLocationRemarkStep == ASSUME RecordInv, SetLocationRemark PROVE RecordInv'
  <1> USE DEF RecordInv
  <1>1. /\ request' = request /\ crossed' = crossed
        /\ started \in Nat /\ started' = started + 1 /\ started' \in Saves
    BY Numbered, RecordAssumption DEF SetLocationRemark, history, RecordTypeOK, Saves
  <1>2. \A on \in Things \cup Orders : Untouched(on)
    BY <1>1 DEF Untouched, Fewer
  <1>3. RequestsTyped' /\ Alone'
    BY <1>1 DEF RequestsTyped, Alone
  <1>4. RecordTypeOK'
    BY <1>1 DEF RecordTypeOK, SetLocationRemark, Forms, Livestock, Photos, history
  <1>5. \A on \in {"notes", "answers", "livestock", "vet", "photos", "photo"} : Fewer(on)
    BY <1>2 DEF Untouched, Things
  <1>6. /\ NotesAreOneRow' /\ AnswersAreOneRow' /\ FarmerIsNewest'
        /\ VetIsSeen' /\ VetRequestStartsOver'
    BY <1>5, NotesKept, AnswersKept, FarmerKept, VetKept
       DEF SetLocationRemark, Forms, Livestock, history
  <1>7. ReviewFollowed' /\ KeysKept' /\ Counted'
    BY <1>1, <1>2, <1>5, ReviewsKept, PhotosKept DEF SetLocationRemark, Photos, history
  <1> QED BY <1>3, <1>4, <1>6, <1>7

-----------------------------------------------------------------------------
(* Every request                                                            *)

LEMMA RecordInitially == RecordInit => RecordInv
  <1> SUFFICES ASSUME RecordInit PROVE RecordInv
    OBVIOUS
  <1>1. /\ RequestsTyped /\ Alone
        /\ \A on \in Things \cup Orders : on # "nothing" => InFlight(on) = {}
    BY OrderIsNoThing DEF RecordInit, RequestsTyped, Alone, Free, InFlight
  <1>2. RecordTypeOK
    <2>1. 0 \in Saves /\ 0 \in Values /\ [status |-> "NONE", reason |-> FALSE] \in Order
      BY RecordAssumption DEF Saves, Values, Order
    <2>2. /\ <<>> \in Seq(Saves) /\ <<>> \in Seq(Verdicts)
          /\ [needs |-> FALSE, status |-> "NONE"] \in [needs : BOOLEAN, status : VetStatus]
          /\ [notes |-> 0, answers |-> 0] \in [notes : Saves, answers : Saves]
      BY <2>1, EmptySeq DEF VetStatus
    <2>3. newest \in [Fields -> Values] /\ farmer \in [Fields -> Values]
      BY <2>1 DEF RecordInit
    <2>4. orders \in [Orders -> Order] /\ told \in [Orders -> Seq(Verdicts)]
      BY <2>1, <2>2 DEF RecordInit
    <2>5. warned \in BOOLEAN /\ remark \in BOOLEAN /\ moved \in BOOLEAN
      BY DEF RecordInit
    <2> QED BY <2>1, <2>2, <2>3, <2>4, <2>5 DEF RecordInit, RecordTypeOK
  <1>3. Len(<<>>) = 0 /\ IsFiniteSet({}) /\ Cardinality({}) = 0
    BY FS_EmptySet
  <1>4. NotesAreOneRow /\ AnswersAreOneRow
    BY <1>1, <1>3 DEF RecordInit, NotesAreOneRow, AnswersAreOneRow, Things
  <1>5. FarmerIsNewest /\ VetIsSeen /\ VetRequestStartsOver
    BY <1>1 DEF RecordInit, FarmerIsNewest, VetIsSeen, VetRequestStartsOver, Things
  <1>6. ReviewFollowed
    BY <1>1, OrderIsNoThing DEF RecordInit, ReviewFollowed, Verdicts, Things
  <1>7. KeysKept /\ Counted
    BY <1>1, <1>3, RecordAssumption DEF RecordInit, KeysKept, Counted, Things
  <1> QED BY <1>1, <1>2, <1>4, <1>5, <1>6, <1>7 DEF RecordInv

LEMMA FillStep == ASSUME RecordInv, NEW q \in Requests, Fill(q) PROVE RecordInv'
  BY ReadNotesStep, UpsertNotesStep, ReadAnswersStep, UpsertOrgAnswersStep, ReadFarmerStep,
     UpsertLivestockStep, ReadVetStep, SetVetStep, UpdateVetStatusStep DEF Fill

LEMMA SellStep == ASSUME RecordInv, NEW q \in Requests, Sell(q) PROVE RecordInv'
  BY FindOrderStep, CreateOrderStep, FlushReviewStep, CommitReviewStep, ReviewStep DEF Sell

LEMMA PhotographStep == ASSUME RecordInv, NEW q \in Requests, Photograph(q) PROVE RecordInv'
  BY CountPhotosStep, UploadPhotoStep, AddPhotoStep, FindPhotoStep, DeletePhotoStep,
     DeleteObjectStep DEF Photograph

LEMMA RecordStep == RecordInv /\ [RecordNext]_record => RecordInv'
  <1> SUFFICES ASSUME RecordInv, [RecordNext]_record PROVE RecordInv'
    OBVIOUS
  <1>1. CASE UNCHANGED record
    BY <1>1 DEF RecordInv, RecordTypeOK, RequestsTyped, Alone, NotesAreOneRow, AnswersAreOneRow,
       FarmerIsNewest, VetIsSeen, VetRequestStartsOver, ReviewFollowed, KeysKept, Counted,
       InFlight, At, record, rows, history
  <1>2. CASE RecordNext
    BY <1>2, SetLocationRemarkStep, FillStep, SellStep, PhotographStep, DieStep DEF RecordNext
  <1> QED BY <1>1, <1>2

LEMMA RecordAlways == RecordSpec => []RecordInv
  <1>1. RecordInit => RecordInv
    BY RecordInitially
  <1>2. RecordInv /\ [RecordNext]_record => RecordInv'
    BY RecordStep
  <1> QED BY <1>1, <1>2, PTL DEF RecordSpec

\* Whatever requests overlap or die, the tables of a visit keep their types.
THEOREM RecordTypeCorrect == RecordSpec => []RecordTypeOK
  <1>1. RecordInv => RecordTypeOK
    BY DEF RecordInv
  <1> QED BY <1>1, RecordAlways, PTL

\* upsert_notes, upsert_org_answers, upsert_livestock: unless two saves
\* overlapped, a read shows the last one, whichever row it returns.
THEOREM LastSaveIsShown == RecordSpec => []LastSaveShows
  <1>1. ASSUME RecordInv PROVE LastSaveShows
    <2> USE <1>1 DEF RecordInv
    <2>1. /\ DOMAIN notes = 1..Len(notes) /\ Len(notes) \in Nat
          /\ DOMAIN answers = 1..Len(answers) /\ Len(answers) \in Nat
          /\ notes \in Seq(Saves) /\ answers \in Seq(Saves)
      BY RowsFound
    <2>2. ASSUME NEW row \in notes_for, "notes" \notin crossed
          PROVE  (IF row = 0 THEN 0 ELSE notes[row]) = saved.notes
      <3>1. Len(notes) <= 1 /\ saved.notes = IF Len(notes) = 0 THEN 0 ELSE notes[1]
        BY <2>2 DEF NotesAreOneRow
      <3>2. row = Len(notes)
        BY <3>1, RowsFound
      <3> QED BY <3>1, <3>2, <2>1
    <2>3. ASSUME "answers" \notin crossed
          PROVE  (IF answers = <<>> THEN 0 ELSE Last(answers)) = saved.answers
      <3>1. Len(answers) <= 1 /\ saved.answers = IF Len(answers) = 0 THEN 0 ELSE answers[1]
        BY <2>3 DEF AnswersAreOneRow
      <3>2. answers = <<>> <=> Len(answers) = 0
        BY <2>1, EmptySeq
      <3>3. CASE Len(answers) = 0
        BY <3>1, <3>2, <3>3
      <3>4. CASE Len(answers) # 0
        <4>1. Len(answers) = 1
          BY <3>1, <3>4, <2>1
        <4> QED BY <3>1, <3>2, <4>1 DEF Last
      <3> QED BY <3>3, <3>4
    <2>4. "livestock" \notin crossed => farmer = newest
      BY DEF FarmerIsNewest
    <2> QED BY <2>2, <2>3, <2>4 DEF LastSaveShows, Detail
  <1> QED BY <1>1, RecordAlways, PTL

\* OrderService.review: unless two reviews overlapped or one died after its
\* flush, the employee is told once, and told what the order says.
THEOREM VerdictIsToldOnce == RecordSpec => []VerdictStands
  <1>1. ASSUME RecordInv PROVE VerdictStands
    <2>1. ASSUME NEW o \in Orders \ crossed
          PROVE  /\ Len(told[o]) <= 1
                 /\ orders[o].status \in Verdicts =>
                       /\ told[o] = <<orders[o].status>>
                       /\ orders[o].reason = (orders[o].status = "REJECTED")
      <3>1. /\ told[o] = <<>> \/ told[o] = <<orders[o].status>>
                \/ \E q \in Requests : told[o] = <<request[q].ruling>>
            /\ orders[o].status \in Verdicts =>
                  /\ told[o] = <<orders[o].status>>
                  /\ orders[o].reason = (orders[o].status = "REJECTED")
        BY <1>1, <2>1 DEF RecordInv, ReviewFollowed, At, InFlight
      <3>2. Len(<<>>) <= 1 /\ \A x : Len(<<x>>) <= 1
        OBVIOUS
      <3>3. Len(told[o]) <= 1
        BY <3>1, <3>2
      <3> QED BY <3>1, <3>3
    <2> QED BY <2>1 DEF VerdictStands
  <1> QED BY <1>1, RecordAlways, PTL

\* set_vet and update_status: unless two overlapped, a request that is raised
\* again starts over, and a withdrawn one has no status.
THEOREM VetStartsOver == RecordSpec => []VetRequestStartsOver
  <1>1. RecordInv => VetRequestStartsOver
    BY DEF RecordInv
  <1> QED BY <1>1, RecordAlways, PTL

\* add_photo and delete_photo: whatever dies between S3 and the database, a
\* photo that is shown is in storage, and the cap is kept but for overlapping
\* uploads.
THEOREM ShownPhotosAreStored == RecordSpec => []PhotosAreStored
  <1>1. RecordInv => PhotosAreStored
    BY DEF RecordInv, KeysKept, Counted, PhotosAreStored, Detail, Downloadable
  <1> QED BY <1>1, RecordAlways, PTL
====
