------------------------------- MODULE FieldWork -------------------------------
(***************************************************************************)
(* What one employee plans and does on the server: visit plans, leave,     *)
(* visits, leads and follow-ups (app/services/visit_plan_service.py,       *)
(* visit_service.py, follow_up_service.py, lead_service.py, mark_leave of  *)
(* attendance_service.py).                                                 *)
(*                                                                         *)
(* A handler is one step, except where what it checked may be outdated     *)
(* when it commits.  A request that plans reads the attendance row, one    *)
(* that marks leave reads the plan, and both write later; the employee and *)
(* the manager (who may edit the plan) send such requests at the same      *)
(* time.  And a completion looks for a follow-up that is there already     *)
(* before it commits its own.                                              *)
(* A lead is a row that is only added; what matters here is the follow-up  *)
(* that a WARM or COLD one calls for.                                      *)
(***************************************************************************)
EXTENDS Naturals, Sequences, FiniteSets

CONSTANTS
    Farmers,
    LastDay,       \* the days are 1..LastDay
    MaxStops,      \* stops of a plan that is saved
    MaxRows,       \* stops, visits and follow-ups together
    MaxInFlight,   \* requests between their check and their COMMIT at once
    Apart          \* no completion is in flight with a plan or a leave

ASSUME FieldAssumption ==
    /\ LastDay \in Nat \ {0} /\ MaxStops \in Nat /\ MaxRows \in Nat
    /\ MaxInFlight \in Nat /\ Apart \in BOOLEAN

VARIABLES
    today,
    attendance, \* the row of each day
    plan,       \* visit_plans.status of each day
    items,      \* visit_plan_items; one without a plan has day 0
    visits,
    followUps,
    planning,   \* days for which a request in flight has seen that they are no leave
    leaving,    \* days for which a request in flight has seen no planned stop
    overtaken,  \* days whose check was overtaken by the other's write, or by none
    reopened,   \* stops that were set back to PLANNED after their visit
    completing, \* completions that have flushed their visit and looked for follow-ups
    contested   \* follow-ups <<farmer, day>> that two completions were after at once

inFlight == <<planning, leaving, overtaken, reopened>>
finishing == <<completing, contested>>
vars == <<today, attendance, plan, items, visits, followUps, inFlight, finishing>>

-----------------------------------------------------------------------------
Days == 1..LastDay
Item == [farmer : Farmers, day : 0..LastDay,
         status : {"PLANNED", "IN_PROGRESS", "COMPLETED", "SKIPPED", "DELETED"}]
Visit == [farmer : Farmers, item : 0..MaxRows, status : {"CHECKED_IN", "COMPLETED"}]
FollowUp == [farmer : Farmers, day : Days, byVisit : BOOLEAN,
             status : {"PENDING", "ACKNOWLEDGED", "ESCALATED", "COMPLETED"}]
Completion == [visit : 1..MaxRows, day : 0..LastDay,
               due : SUBSET (1..MaxRows), found : SUBSET (1..MaxRows)]

TypeOK ==
    /\ today \in Days
    /\ attendance \in [Days -> {"NONE", "STARTED", "ON_LEAVE"}]
    /\ plan \in [Days -> {"NONE", "SUBMITTED", "IN_PROGRESS"}]
    /\ items \in Seq(Item) /\ visits \in Seq(Visit) /\ followUps \in Seq(FollowUp)
    /\ Len(items) + Len(visits) + Len(followUps) <= MaxRows
    /\ planning \cup leaving \cup overtaken \subseteq Days
    /\ reopened \subseteq 1..MaxRows
    /\ completing \subseteq Completion /\ contested \subseteq Farmers \X Days

Init ==
    /\ today = 1
    /\ attendance = [d \in Days |-> "NONE"] /\ plan = [d \in Days |-> "NONE"]
    /\ items = <<>> /\ visits = <<>> /\ followUps = <<>>
    /\ planning = {} /\ leaving = {} /\ overtaken = {} /\ reopened = {}
    /\ completing = {} /\ contested = {}

UnderWay == Cardinality(planning) + Cardinality(leaving) + Cardinality(completing)
PlanComes == UnderWay < MaxInFlight /\ (Apart => completing = {})
CompletionComes == UnderWay < MaxInFlight /\ (Apart => planning \cup leaving = {})

Room(n) == Len(items) + Len(visits) + Len(followUps) + n <= MaxRows

\* get_item finds a stop that belongs to a plan.
OnPlan(i) == items[i].day # 0 /\ items[i].status # "DELETED"
PlannedOn(d) == {i \in DOMAIN items : items[i].day = d /\ items[i].status = "PLANNED"}

Stop(f, d) == [farmer |-> f, day |-> d, status |-> "PLANNED"]
Stops == UNION {[1..n -> Farmers] : n \in 0..MaxStops}

\* A plan is created, submitted, for the day it is needed on.
PlanFor(d) == plan' = IF plan[d] = "NONE" THEN [plan EXCEPT ![d] = "SUBMITTED"] ELSE plan

-----------------------------------------------------------------------------
(* Planning                                                                 *)

Rest == UNCHANGED <<today, attendance, visits, followUps, finishing>>

\* _assert_not_on_leave.  A plan is saved for any day; a past day can be
\* leave, but nothing is planned for it that was not planned before.
CheckLeave(d) ==
    /\ PlanComes /\ planning = {} /\ attendance[d] # "ON_LEAVE"
    /\ planning' = {d}
    /\ UNCHANGED <<today, attendance, plan, items, visits, followUps, leaving, overtaken>>
    /\ UNCHANGED <<reopened, finishing>>

\* The request that checked d writes: a leave request that has found d empty
\* is overtaken.
Writes(d) ==
    /\ planning = {d} /\ planning' = {}
    /\ overtaken' = overtaken \cup (leaving \cap {d})
    /\ UNCHANGED <<leaving, reopened>>

StopOf(v, d) == visits[v].item # 0 /\ items[visits[v].item].day = d

\* The items are replaced, visited ones too; their visits keep no item (SET
\* NULL, which waits for the rows that a completion has flushed).
UpsertPlan(s, d) ==
    /\ Room(Len(s))
    /\ \A c \in completing : ~StopOf(c.visit, d)
    /\ IF s = <<>> THEN UNCHANGED inFlight ELSE Writes(d)
    /\ plan' = [plan EXCEPT ![d] = "SUBMITTED"]
    /\ items' = [i \in DOMAIN items |-> IF items[i].day = d
                                        THEN [items[i] EXCEPT !.status = "DELETED"]
                                        ELSE items[i]]
                \o [n \in DOMAIN s |-> Stop(s[n], d)]
    /\ visits' = [v \in DOMAIN visits |->
                    IF StopOf(v, d) THEN [visits[v] EXCEPT !.item = 0] ELSE visits[v]]
    /\ UNCHANGED <<today, attendance, followUps, finishing>>

VisitedAt(i) == \E v \in DOMAIN visits : visits[v].item = i /\ visits[v].status = "COMPLETED"

Reopens(i) ==
    /\ reopened' = reopened \cup {j \in {i} : VisitedAt(i)}
    /\ overtaken' = overtaken \cup
          {d \in Days : d = items[i].day /\ (attendance[d] = "ON_LEAVE" \/ d \in leaving)}

\* Any status may follow any other.  A stop that is set back to PLANNED is not
\* checked against leave, nor against its visit.
UpdateItemStatus(i, status) ==
    /\ OnPlan(i)
    /\ items' = [items EXCEPT ![i].status = status]
    /\ plan' = IF plan[items[i].day] = "SUBMITTED" /\ status # "PLANNED"
               THEN [plan EXCEPT ![items[i].day] = "IN_PROGRESS"] ELSE plan
    /\ IF status = "PLANNED" THEN Reopens(i)
       ELSE reopened' = reopened \ {i} /\ UNCHANGED overtaken
    /\ UNCHANGED <<planning, leaving>> /\ Rest

\* Mutant: a stop that was checked in can still be moved.
MoveAnyItem(i, d) ==
    /\ OnPlan(i)
    /\ d >= today /\ d # items[i].day
    /\ Writes(d) /\ PlanFor(d)
    /\ items' = [items EXCEPT ![i].day = d, ![i].status = "PLANNED"]
    /\ Rest

\* Only a planned stop, and to no past day.
UpdateItem(i, d) ==
    /\ OnPlan(i) /\ items[i].status = "PLANNED"
    /\ d >= today /\ d # items[i].day
    /\ Writes(d) /\ PlanFor(d)
    /\ items' = [items EXCEPT ![i].day = d]
    /\ Rest

\* Whatever its status, the source is skipped and a new stop planned.
CarryOverItem(i, d) ==
    /\ OnPlan(i) /\ Room(1)
    /\ Writes(d) /\ PlanFor(d)
    /\ items' = Append([items EXCEPT ![i].status = "SKIPPED"], Stop(items[i].farmer, d))
    /\ Rest

SkipMissedItem(i) ==
    /\ OnPlan(i)
    /\ items' = [items EXCEPT ![i].status = "SKIPPED"]
    /\ UNCHANGED <<plan, inFlight>> /\ Rest

-----------------------------------------------------------------------------
(* Attendance, as far as plans and visits depend on it                      *)

\* Mutant: planned stops do not stand in the way.
CheckNothing(d) ==
    /\ PlanComes /\ d >= today /\ leaving = {}
    /\ leaving' = {d}
    /\ UNCHANGED <<today, attendance, plan, items, visits, followUps, planning, overtaken>>
    /\ UNCHANGED <<reopened, finishing>>

CheckPlan(d) ==
    /\ PlanComes /\ d >= today /\ leaving = {} /\ PlannedOn(d) = {}
    /\ leaving' = {d}
    /\ UNCHANGED <<today, attendance, plan, items, visits, followUps, planning, overtaken>>
    /\ UNCHANGED <<reopened, finishing>>

\* One row per day: without one the leave is recorded, else refused (409).
MarkLeave(d) ==
    /\ leaving = {d} /\ leaving' = {}
    /\ IF attendance[d] = "NONE"
       THEN /\ attendance' = [attendance EXCEPT ![d] = "ON_LEAVE"]
            /\ overtaken' = overtaken \cup (planning \cap {d})
       ELSE UNCHANGED <<attendance, overtaken>>
    /\ UNCHANGED <<today, plan, items, visits, followUps, planning, reopened, finishing>>

RevokeLeave(d) ==
    /\ d >= today /\ attendance[d] = "ON_LEAVE"
    /\ attendance' = [attendance EXCEPT ![d] = "NONE"]
    /\ overtaken' = overtaken \ ({d} \ leaving)
    /\ UNCHANGED <<today, plan, items, visits, followUps, planning, leaving, reopened, finishing>>

StartWork ==
    /\ attendance[today] = "NONE"
    /\ attendance' = [attendance EXCEPT ![today] = "STARTED"]
    /\ UNCHANGED <<today, plan, items, visits, followUps, inFlight, finishing>>

NextDay ==
    /\ today < LastDay
    /\ today' = today + 1
    /\ UNCHANGED <<attendance, plan, items, visits, followUps, inFlight, finishing>>

-----------------------------------------------------------------------------
(* Visits                                                                   *)

\* At a stop (i), of whichever customer, or ad hoc (0).  A check-in whose
\* client_id is known comes back as it was, and changes nothing.
CheckIn(f, i) ==
    /\ Room(1)
    /\ attendance[today] = "STARTED"
    /\ i # 0 => i \in DOMAIN items /\ items[i].status # "DELETED"
    /\ visits' = Append(visits, [farmer |-> f, item |-> i, status |-> "CHECKED_IN"])
    /\ items' = IF i = 0 THEN items ELSE [items EXCEPT ![i].status = "IN_PROGRESS"]
    /\ UNCHANGED <<today, attendance, plan, followUps, inFlight, finishing>>

\* An ad hoc visit with a target gets an item without a plan.
CheckInWithTarget(f) ==
    /\ Room(2)
    /\ attendance[today] = "STARTED"
    /\ items' = Append(items, [farmer |-> f, day |-> 0, status |-> "IN_PROGRESS"])
    /\ visits' = Append(visits, [farmer |-> f, item |-> Len(items) + 1, status |-> "CHECKED_IN"])
    /\ UNCHANGED <<today, attendance, plan, followUps, inFlight, finishing>>

PendingOn(f, S) == {k \in DOMAIN followUps : /\ followUps[k].farmer = f
                                             /\ followUps[k].status = "PENDING"
                                             /\ followUps[k].day \in S}
Due(f, d, byVisit) == [farmer |-> f, day |-> d, byVisit |-> byVisit, status |-> "PENDING"]
Close(due, fus) == [k \in DOMAIN fus |->
    IF k \in due THEN [fus[k] EXCEPT !.status = "COMPLETED"] ELSE fus[k]]
Held == UNION {c.due : c \in completing}

\* The visit and the due follow-ups are flushed, so that their rows are locked
\* until the COMMIT, before the follow-up is looked for that this one would
\* repeat; d is 0 for a HOT lead.  No guard on the status: a visit is completed
\* again when the phone did not hear that it was.
CheckFollowUps(v, d) ==
    LET f == visits[v].farmer
        due == PendingOn(f, 1..today)
    IN  /\ CompletionComes /\ \A c \in completing : c.visit # v
        /\ due \cap Held = {}
        /\ completing' = completing \cup
              {[visit |-> v, day |-> d, due |-> due, found |-> PendingOn(f, {d}) \ due]}
        /\ UNCHANGED <<today, attendance, plan, items, visits, followUps, inFlight, contested>>

\* What the follow-ups become: the due ones are closed, and a new one is added
\* unless there is one already.
Adds(c) == c.day # 0 /\ c.found = {}
New(c) == Due(visits[c.visit].farmer, c.day, TRUE)
CloseAfterAdding(c) == LET fus == IF Adds(c) THEN Append(followUps, New(c)) ELSE followUps
                       IN  Close({k \in DOMAIN fus : fus[k].day <= today}, fus)
AddUnchecked(c) == IF c.day = 0 THEN Close(c.due, followUps)
                   ELSE Append(Close(c.due, followUps), New(c))
FollowUpsAfter(c) == IF Adds(c) THEN Append(Close(c.due, followUps), New(c))
                     ELSE Close(c.due, followUps)

\* Another completion is after the same follow-up: for another visit to the
\* customer, as a visit is completed by one request at a time.
After(f, d) == {c \in completing : visits[c.visit].farmer = f /\ c.day = d}

CompleteVisit(c) ==
    LET f == visits[c.visit].farmer
        i == visits[c.visit].item
    IN  /\ Room(1)
        /\ completing' = completing \ {c}
        /\ contested' = contested \cup
              {p \in {f} \X Days : p[2] = c.day /\ After(f, c.day) # {c}}
        /\ visits' = [visits EXCEPT ![c.visit].status = "COMPLETED"]
        /\ followUps' = FollowUpsAfter(c)
        /\ items' = IF i = 0 THEN items ELSE [items EXCEPT ![i].status = "COMPLETED"]
        /\ reopened' = reopened \ {i}
        /\ UNCHANGED <<today, attendance, plan, planning, leaving, overtaken>>

-----------------------------------------------------------------------------
(* Leads and follow-ups                                                     *)

\* A WARM or COLD lead set without a visit may schedule a follow-up: none is
\* closed, and none looked for.
UpdateLead(f, d) ==
    /\ Room(1)
    /\ followUps' = Append(followUps, Due(f, d, FALSE))
    /\ UNCHANGED <<today, attendance, plan, items, visits, inFlight, finishing>>

FollowUpBecomes(k, status) ==
    /\ k \notin Held
    /\ followUps' = [followUps EXCEPT ![k].status = status]
    /\ UNCHANGED <<today, attendance, plan, items, visits, inFlight, finishing>>

Acknowledge(k) == followUps[k].status = "PENDING" /\ FollowUpBecomes(k, "ACKNOWLEDGED")
Complete(k) == FollowUpBecomes(k, "COMPLETED")

\* Two hours after its time, which the day is too coarse to show.
Escalate(k) ==
    /\ followUps[k].status = "PENDING" /\ followUps[k].day = today
    /\ FollowUpBecomes(k, "ESCALATED")

-----------------------------------------------------------------------------
Plan ==
    \E d \in Days :
       \/ CheckLeave(d)
       \/ \E s \in Stops : UpsertPlan(s, d)
       \/ \E i \in DOMAIN items : UpdateItem(i, d) \/ CarryOverItem(i, d)
EditStop ==
    \E i \in DOMAIN items :
       \/ SkipMissedItem(i)
       \/ \E status \in {"PLANNED", "COMPLETED", "SKIPPED"} : UpdateItemStatus(i, status)
Attend == StartWork \/ NextDay \/ \E d \in Days : CheckPlan(d) \/ MarkLeave(d) \/ RevokeLeave(d)
DoVisit ==
    \/ \E f \in Farmers : CheckInWithTarget(f) \/ \E i \in 0..Len(items) : CheckIn(f, i)
    \/ \E v \in DOMAIN visits : \E d \in {0} \cup today..LastDay : CheckFollowUps(v, d)
    \/ \E c \in completing : CompleteVisit(c)
FollowUpWork ==
    \/ \E f \in Farmers : \E d \in today..LastDay : UpdateLead(f, d)
    \/ \E k \in DOMAIN followUps : Acknowledge(k) \/ Complete(k) \/ Escalate(k)

Next == Plan \/ EditStop \/ Attend \/ DoVisit \/ FollowUpWork
Spec == Init /\ [][Next]_vars

-----------------------------------------------------------------------------
(* Properties                                                               *)

\* No day is leave and has planned stops, unless a request that planned and
\* one that marked leave overtook each other after both had checked, or a stop
\* of the day was set back to PLANNED, which checks nothing
\* (_assert_not_on_leave, mark_leave, update_item_status).
LeaveStrandsNothing ==
    \A d \in Days \ overtaken : attendance[d] = "ON_LEAVE" => PlannedOn(d) = {}

\* A stop whose visit was completed is not planned any more, whatever else
\* was done with it and in whatever order, unless its status was set back by
\* hand: it is neither offered as missed nor in the way of leave
\* (complete_visit, update_item, update_item_status).
VisitedIsNotPlanned ==
    \A v \in DOMAIN visits :
       (visits[v].status = "COMPLETED" /\ visits[v].item \notin {0} \cup reopened)
          => items[visits[v].item].status # "PLANNED"

\* Completing a visit with a WARM lead leaves a pending follow-up for its
\* day, or there was one when it looked, which others have dealt with since:
\* the visit that closes the due follow-ups does not close its own, also when
\* it is due today (complete_visit).
WarmVisitIsFollowedUp ==
    [][\A c \in completing \ completing' :
          c.day # 0 =>
             \E k \in DOMAIN followUps' :
                /\ followUps'[k].farmer = visits[c.visit].farmer
                /\ followUps'[k].day = c.day
                /\ followUps'[k].status = "PENDING" \/ k \in c.found]_vars

\* Visits never schedule the same follow-up twice, unless two visits to one
\* customer are completed at once: one that is completed again finds the
\* follow-up of its first completion (complete_visit's "no duplicate"), also
\* when the first was still in flight.
NoDuplicateFollowUp ==
    \A k, l \in DOMAIN followUps :
       /\ {followUps[k].status, followUps[l].status} = {"PENDING"}
       /\ followUps[k].byVisit /\ followUps[l].byVisit
       /\ followUps[k].farmer = followUps[l].farmer /\ followUps[k].day = followUps[l].day
       /\ <<followUps[k].farmer, followUps[k].day>> \notin contested
       => k = l

===============================================================================
