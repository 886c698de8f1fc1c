--------------------------------- MODULE Reports ---------------------------------
(***************************************************************************)
(* Reports: who may ask for which, the jobs that build them after the      *)
(* answer, their status in Redis and their file in object storage, and the *)
(* weekly and monthly reports (app/services/report_service.py,             *)
(* repositories/report_repository.py, api/v1/reports.py, the auto-report   *)
(* jobs of core/scheduler.py).                                             *)
(*                                                                         *)
(* A report is of a range of days; the model has one, which every row and  *)
(* event falls into, and everybody has an attendance row in it.  A status  *)
(* is kept for an hour or more, and no job takes as long; what a report    *)
(* holds is forgotten here when its job has ended.                         *)
(***************************************************************************)
EXTENDS Zones

CONSTANTS Jobs

VARIABLES
    job      \* reports: the request, its job, its Redis hash and its file

reports == <<job>>

-----------------------------------------------------------------------------
Ranges == {"ATTENDANCE", "DISTANCE", "ZONES"}
Kinds == {"TEAM", "COMPLIANCE", "PERSON", "CUSTOMER", "LEADS"} \cup Ranges
Ask == [kind : Kinds \cup {"NONE"}, team : SomeTeam, who : Somebody, customer : Customers \cup {None}]
NoAsk == [kind |-> "NONE", team |-> None, who |-> None, customer |-> None]
Of(kind, t, u, f) == [kind |-> kind, team |-> t, who |-> u, customer |-> f]

NoJob == [stage |-> "NONE", owner |-> None, ask |-> NoAsk, auto |-> FALSE, still |-> TRUE,
          members |-> {}, rows |-> {}, key |-> "NONE", file |-> "NONE"]

ReportsInit == job = [j \in Jobs |-> NoJob]

InWork(j) == job[j].stage \in {"QUEUED", "READ", "BUILT"}

-----------------------------------------------------------------------------
(* What may be asked for, as it is normalised (authorize)                   *)

\* TEAM, COMPLIANCE: a team he manages.
TeamAsks(u) == {Of(k, t, None, None) : k \in {"TEAM", "COMPLIANCE"}, t \in Managed(u)}

PersonAsks(u) == {Of("PERSON", None, v, None) : v \in In(Managed(u))}

CustomerAsks(u) ==
    {Of("CUSTOMER", None, None, f) : f \in CreatedBy(u) \cup
        CustomersOf(IF Manager(u) THEN Managed(u) ELSE Own(u))}

\* The only team of a manager is taken for granted, of several one is picked;
\* a person must be of that team.
LeadAsks(u) ==
    UNION {{Of("LEADS", t, v, None) : v \in {None} \cup In({t})} : t \in Managed(u)}

RangeAsks(u) == {Of(k, None, v, None) : k \in Ranges, v \in In(Managed(u))}
                \cup {Of(k, t, None, None) : k \in Ranges, t \in Managed(u)}

MayAsk(u) ==
    CustomerAsks(u) \cup
    IF Manager(u) THEN TeamAsks(u) \cup PersonAsks(u) \cup LeadAsks(u) \cup RangeAsks(u)
    ELSE {Of(k, None, u, None) : k \in Ranges}

-----------------------------------------------------------------------------
(* What a report shows.  A row is of a person or a customer, maybe of a     *)
(* zone and what happened there.                                            *)

Row(x, z, visits, minutes) == [of |-> x, zone |-> z, visits |-> visits, minutes |-> minutes]
Plain(xs) == {Row(x, None, 0, 0) : x \in xs}

\* team_members
ActiveIn(t) == {v \in In({t}) : user[v].active}

\* The active members, and whoever else of the team has an attendance row.
TeamRows(a, members) == Plain(members \cup In({a.team}))

ComplianceRows(a, members) ==
    {LET day == ZoneDay(events[v], z) IN Row(v, z, day.visits, day.minutes) :
        v \in members, z \in ZonesFor({a.team})}

\* attendance_in_range: of whom an attendance row is read.
PeopleOf(a) == IF a.team # None THEN In({a.team}) ELSE {v \in {a.who} : Present(v)}

AttendanceRows(a) == Plain(PeopleOf(a))
DistanceRows(a) == Plain(PeopleOf(a))

\* With a line of each zone, its last stay closed by the END (_session_end_dt).
ZoneRows(people) ==
    Plain(people) \cup
    UNION {{Row(v, z, 0, ZoneDurations(events[v], ended[v])[z]) :
               z \in DOMAIN ZoneDurations(events[v], ended[v])} : v \in people}

PersonRows(a) == ZoneRows({v \in {a.who} : Present(v)})

CustomerRows(a) == Plain({f \in {a.customer} : customer[f].here})

\* Mutant: the person is not asked for.
LeadRowsOfAll(a) == Plain(WithLead(CustomersOf({a.team})))

LeadRows(a) ==
    Plain({f \in WithLead(CustomersOf({a.team})) : a.who \in {None, customer[f].lead}})

Build(a, members) ==
    CASE a.kind = "TEAM" -> TeamRows(a, members)
      [] a.kind = "COMPLIANCE" -> ComplianceRows(a, members)
      [] a.kind = "CUSTOMER" -> CustomerRows(a)
      [] a.kind = "LEADS" -> LeadRows(a)
      [] a.kind = "PERSON" -> PersonRows(a)
      [] a.kind = "ATTENDANCE" -> AttendanceRows(a)
      [] a.kind = "DISTANCE" -> DistanceRows(a)
      [] a.kind = "ZONES" -> ZoneRows(PeopleOf(a))

\* What the screens of that person show of it: his lists of people, leads and
\* customers, and the zone visits of each employee.
ZonesOnScreen(people) ==
    Plain(people) \cup UNION {{Row(v, z, 0, EmployeeVisits(events[v])[z].minutes) :
                                  z \in DOMAIN EmployeeVisits(events[v])} : v \in people}

Screen(u, a) ==
    LET mine == PendingOrders(u, a.team)
        asked == IF a.team # None THEN mine
                 ELSE {v \in {a.who} : Present(v) /\ (v = u \/ CanReview(u, v))}
    IN
    CASE a.kind = "TEAM" -> Plain(mine)
      [] a.kind = "COMPLIANCE" ->
            {LET seen == EmployeeVisits(events[v]) IN
             IF z \in DOMAIN seen THEN Row(v, z, seen[z].visits, seen[z].minutes)
                                  ELSE Row(v, z, 0, 0) :
                v \in {v \in mine : user[v].active}, z \in UNION {Relevant(v) : v \in mine}}
      [] a.kind = "CUSTOMER" -> Plain({f \in {a.customer} : customer[f].here /\ CanView(u, f)})
      [] a.kind = "LEADS" -> Plain(TeamLeads(u, a.team, a.who))
      [] a.kind \in {"ATTENDANCE", "DISTANCE"} -> Plain(asked)
      [] OTHER -> ZonesOnScreen(asked)

-----------------------------------------------------------------------------
(* The request, and its job                                                 *)

JobStep == UNCHANGED <<user, team, customer, request, raced, joins, zones>>

Start(j, u, a, auto) ==
    /\ changes' = changes + 1
    /\ job' = [job EXCEPT ![j] = [NoJob EXCEPT !.stage = "QUEUED", !.owner = u, !.ask = a,
                                !.auto = auto, !.key = "PROCESSING"]]
    /\ JobStep

Generate(j, u, a) == LoggedIn(u) /\ a \in MayAsk(u) /\ Start(j, u, a, FALSE)

\* Weekly and monthly, of every active team that has a manager to tell.
AutoReport(j, u, t) ==
    Active(t) /\ u \in ManagersOf(t) /\ Start(j, u, Of("TEAM", t, None, None), TRUE)

AskReport(j) ==
    /\ job[j] = NoJob /\ changes < MaxChanges
    /\ \E u \in People : \/ \E a \in MayAsk(u) : Generate(j, u, a)
                         \/ \E t \in Teams : AutoReport(j, u, t)

Advance(j, from, next) ==
    /\ job[j].stage = from
    /\ job' = [job EXCEPT ![j] = next]
    /\ JobStep /\ UNCHANGED changes

\* prune_expired_objects: files past the retention, but those under auto/.
Pruned(fs) ==
    [j \in Jobs |-> IF fs[j].file = "OLD" /\ ~fs[j].auto THEN [fs[j] EXCEPT !.file = "NONE"]
                                                       ELSE fs[j]]

\* An on-demand job prunes first.
Others(j) == IF job[j].auto THEN job ELSE Pruned(job)

OfMembers(j) == job[j].ask.kind \in {"TEAM", "COMPLIANCE"}

\* The members are read before the rows.
ReadMembers(j) ==
    /\ job[j].stage = "QUEUED" /\ OfMembers(j)
    /\ job' = [Others(j) EXCEPT ![j].stage = "READ", ![j].members = ActiveIn(job[j].ask.team)]
    /\ JobStep /\ UNCHANGED changes

\* The rows are read, rendered and uploaded.
ReadRows(j) ==
    /\ job[j].stage = IF OfMembers(j) THEN "READ" ELSE "QUEUED"
    /\ job' = [(IF OfMembers(j) THEN job ELSE Others(j)) EXCEPT
                  ![j].stage = "BUILT", ![j].file = "FRESH",
                  ![j].rows = Build(job[j].ask, job[j].members)]
    /\ JobStep /\ UNCHANGED changes

\* Nobody looks again for the file of a report that is not ready.
Ended(b, status) ==
    IF status # "READY" THEN [NoJob EXCEPT !.stage = "ENDED", !.key = status]
    ELSE [NoJob EXCEPT !.stage = "ENDED", !.key = status, !.owner = b.owner,
                       !.auto = b.auto, !.file = b.file]

MarkReady(j) == Advance(j, "BUILT", Ended(job[j], "READY"))

\* A failed scheduled report is only logged.
Fail(j) ==
    /\ InWork(j) /\ ~job[j].auto
    /\ Advance(j, job[j].stage, Ended(job[j], "FAILED"))

\* The worker dies, or a scheduled report fails: the status stays as it is.
Die(j) == InWork(j) /\ Advance(j, job[j].stage, Ended(job[j], job[j].key))

\* The retention of a file passes; that of a status, which is counted anew when
\* the file is there.
Age(j) == job[j].file = "FRESH" /\ Advance(j, "ENDED", [job[j] EXCEPT !.file = "OLD"])

Expire(j) ==
    /\ job[j].key # "NONE"
    /\ (job[j].key = "READY" /\ ~job[j].auto) => job[j].file # "FRESH"
    /\ Advance(j, "ENDED", Ended(job[j], "NONE"))

-----------------------------------------------------------------------------
(* Status and download                                                      *)

StatusShown(j) == IF job[j].key = "READY" /\ job[j].file = "NONE" THEN "EXPIRED" ELSE job[j].key
Downloads(u, j) == job[j].owner = u /\ job[j].key = "READY" /\ job[j].file # "NONE"

-----------------------------------------------------------------------------
\* While a report is in work, a screen it is of changes or is no longer its
\* owner's.  That of compliance is also of the members, whom it does not show as
\* long as no zone concerns them; that of zones of where the days of people ended.
Shifts(j) == \E u \in {job[j].owner}, a \in {job[j].ask} :
                \/ Screen(u, a) # Screen(u, a)' \/ a \notin MayAsk(u)'
                \/ a.kind = "COMPLIANCE" /\ ActiveIn(a.team) # ActiveIn(a.team)'
                \/ a.kind \in {"PERSON", "ZONES"} /\ \E v \in People : EndedIn(v) # EndedIn(v)'

ReportsNext ==
    \/ /\ ZonesNext
       /\ job' = [j \in Jobs |-> IF InWork(j) /\ job[j].still /\ Shifts(j) THEN [job[j] EXCEPT !.still = FALSE]
                                                          ELSE job[j]]
    \/ \E j \in Jobs :
          \/ AskReport(j) \/ ReadMembers(j) \/ ReadRows(j) \/ MarkReady(j)
          \/ Fail(j) \/ Die(j) \/ Age(j) \/ Expire(j)

backOffice == <<staff, zones, reports>>
Init == StaffInit /\ ZonesInit /\ ReportsInit
Spec == Init /\ [][ReportsNext]_backOffice

ReportsTypeOK ==
    \A j \in Jobs :
        /\ job[j].stage \in {"NONE", "QUEUED", "READ", "BUILT", "ENDED"}
        /\ job[j].key \in {"NONE", "PROCESSING", "READY", "FAILED"}
        /\ job[j].owner \in Somebody /\ job[j].ask \in Ask /\ job[j].members \subseteq People
        /\ job[j].file \in {"NONE", "FRESH", "OLD"} /\ {job[j].still, job[j].auto} \subseteq BOOLEAN
        /\ job[j].rows \subseteq [of : People \cup Customers, zone : Zone \cup {None}, visits : Nat, minutes : Nat]
        /\ InWork(j) => job[j].owner # None

-----------------------------------------------------------------------------
(* Properties                                                               *)

\* A line of a zone report about a zone in which the day ended.
OfLastStay(a, r) == a.kind # "COMPLIANCE" /\ r.of \in People /\ r.zone \in EndedIn(r.of)

\* A report that was built while the screens of the person who asked did not
\* change shows what they show, no more and no less ("the export always matches
\* what's on screen", _lead_pipeline_data) - but for zones that were left and
\* never entered, of which a zone report has a line, and for those in which the
\* day ended, where it counts the last stay up to the END (ReadingsAgree).
RowsMatchScreens ==
    \A j \in Jobs : (job[j].stage = "BUILT" /\ job[j].still) =>
        LET ask == job[j].ask
            screen == Screen(job[j].owner, ask)
        IN
        /\ {r \in screen : ~OfLastStay(ask, r)} \subseteq job[j].rows
        /\ {r \in job[j].rows : /\ r.zone = None \/ ask.kind = "COMPLIANCE" \/ r.minutes > 0
                                /\ ~OfLastStay(ask, r)} \subseteq screen

\* A status of READY stands for a file: while it is kept, that of a scheduled
\* report opens for the manager who was told of it, and that of another can only
\* have lost its file to the retention ("long-TTL scheduled reports").
ReadyHasAFile ==
    \A j \in Jobs : job[j].key = "READY" =>
        /\ job[j].auto => Downloads(job[j].owner, j)
        /\ StatusShown(j) = "READY" <=> Downloads(job[j].owner, j)

\* Reports and screens agree.
ReportsMatchScreens == ReadingsAgree /\ RowsMatchScreens /\ ReadyHasAFile
=============================================================================
