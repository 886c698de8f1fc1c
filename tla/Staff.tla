---------------------------------- MODULE Staff ----------------------------------
(***************************************************************************)
(* People, teams and customers, and who is shown what of them              *)
(* (app/services/employee_service.py, team_service.py, farmer_service.py,  *)
(* the scopes of lead_service.py, order_service.py, visit_plan_service.py, *)
(* api/v1/daily_reports.py and report_service.py).                         *)
(*                                                                         *)
(* A request loads and checks rows, and writes at its COMMIT: nothing is   *)
(* locked between the two, but for the rows that add_member updates before *)
(* its COMMIT.  Administrators and vets see everything and are not among   *)
(* the people here; the administrator's customers are by None.             *)
(***************************************************************************)
EXTENDS Naturals, FiniteSets

CONSTANTS
    People, Teams, Customers, None,
    Requests,           \* requests in flight
    Hired, Founded, Known, \* the people, teams and customers at first
    MaxChanges          \* bound on the requests of a behaviour

VARIABLES
    user,      \* users: role, team_id, is_active
    team,      \* teams: whether it exists and is active, manager_id
    customer,  \* farmers: team_id, created_by, and who recorded the current lead
    request,   \* what each request in flight has loaded
    raced,     \* <<person, team>> whose assignment overlapped the team's deletion
    flushed,   \* joins between their UPDATE and their COMMIT, with the customers it found
    joined,    \* people whose customers came along into their team
    strays,    \* customers who could not: they were created meanwhile, or moved out
    changes

joins == <<flushed, joined, strays>>
staff == <<user, team, customer, request, raced, joins, changes>>

-----------------------------------------------------------------------------
Unborn == [role |-> "UNBORN", team |-> None, active |-> FALSE]
Gone == [Unborn EXCEPT !.role = "GONE"]
NoTeam == [status |-> "NONE", manager |-> None]
NoCustomer == [here |-> FALSE, team |-> None, by |-> None, lead |-> None]
Idle == [kind |-> "IDLE", of |-> None, team |-> None, was |-> None, members |-> {}, role |-> "GONE", adds |-> None]

Somebody == People \cup {None}
SomeTeam == Teams \cup {None}

User == [role : {"EMPLOYEE", "MANAGER"}, team : SomeTeam, active : BOOLEAN]
Team == [status : {"NONE", "ACTIVE", "DELETED"}, manager : Somebody]
Customer == [here : BOOLEAN, team : SomeTeam, by : Somebody, lead : Somebody]
Request == [kind : {"IDLE", "HIRE", "ASSIGN", "JOIN", "LEAVE", "DELETE", "MANAGE", "CUSTOMER"},
            of : Somebody, team : SomeTeam, was : SomeTeam \cup Somebody, members : SUBSET People,
            role : {"GONE", "EMPLOYEE", "MANAGER"}, adds : Customers \cup {None}]

StaffTypeOK ==
    /\ user \in [People -> User \cup {Unborn, Gone}]
    /\ team \in [Teams -> Team]
    /\ customer \in [Customers -> Customer]
    /\ request \in [Requests -> Request]
    /\ raced \subseteq People \X Teams
    /\ flushed \subseteq [by : Requests, found : SUBSET Customers]
    /\ joined \subseteq People /\ strays \subseteq Customers
    /\ changes \in 0..MaxChanges

Present(u) == u \in People /\ user[u] \notin {Unborn, Gone}
LoggedIn(u) == Present(u) /\ user[u].active
CanManage(u) == Present(u) /\ user[u].role = "MANAGER"     \* _validate_manager
Active(t) == team[t].status = "ACTIVE"       \* active_team_exists
NoneOrActive(t) == t \in {None} \cup {s \in Teams : Active(s)}

\* What is in the database at first is consistent.
ASSUME StaffAssumption ==
    /\ None \notin People \cup Teams \cup Customers /\ MaxChanges \in Nat
    /\ Hired \in [People -> User \cup {Unborn, Gone}]
    /\ Founded \in [Teams -> Team]
    /\ Known \in [Customers -> Customer]
    /\ \A u \in People : Hired[u].team # None => Founded[Hired[u].team].status = "ACTIVE"

StaffInit ==
    /\ user = Hired /\ team = Founded /\ customer = Known
    /\ request = [r \in Requests |-> Idle]
    /\ raced = {} /\ changes = 0
    /\ flushed = {} /\ joined = {} /\ strays = {}

-----------------------------------------------------------------------------
(* Requests: what is checked                                                *)

Load(r, q) ==
    /\ request' = [request EXCEPT ![r] = q]
    /\ changes' = changes + 1
    /\ UNCHANGED <<user, team, customer, flushed, joined>>

Assigns(q) == q.kind \in {"HIRE", "ASSIGN", "JOIN"} /\ q.team # None
Asked(k, u, t) == [Idle EXCEPT !.kind = k, !.of = u, !.team = t]

\* A person is assigned while the team's deletion is in flight, or the reverse.
Overlap(u, t) ==
    raced' = IF \E r \in Requests : request[r].kind = "DELETE" /\ request[r].team = t
             THEN raced \cup {<<u, t>>} ELSE raced

\* The row of a person who is joining waits for the COMMIT, those of the
\* customers who come along too.
Locked(u) == \E j \in flushed : request[j.by].of = u
ComesAlong(f) == \E j \in flushed : f \in j.found

BeginHire(r, u, role, t) ==
    /\ user[u] = Unborn /\ NoneOrActive(t)
    /\ Load(r, [Asked("HIRE", u, t) EXCEPT !.role = role])
    /\ Overlap(u, t) /\ UNCHANGED strays

\* The employee form: team_id among the fields.
BeginAssign(r, u, t) ==
    /\ Present(u) /\ NoneOrActive(t)
    /\ Load(r, [Asked("ASSIGN", u, t) EXCEPT !.was = user[u].team])
    /\ Overlap(u, t) /\ UNCHANGED strays

BeginJoin(r, u, t) ==
    /\ Active(t) /\ Present(u) /\ user[u].team # t
    /\ Load(r, Asked("JOIN", u, t))
    /\ Overlap(u, t) /\ UNCHANGED strays

BeginLeave(r, u, t) ==
    /\ Active(t) /\ Present(u) /\ user[u].team = t
    /\ Load(r, Asked("LEAVE", u, t))
    /\ UNCHANGED <<raced, strays>>

\* Mutant: who is deactivated is no member.
ActiveMembers(t) == {u \in People : LoggedIn(u) /\ user[u].team = t}

\* get_members: whatever their role, and the deactivated too.
Members(t) == {u \in People : Present(u) /\ user[u].team = t}

BeginDelete(r, t) ==
    /\ Active(t)
    /\ Load(r, [Asked("DELETE", None, t) EXCEPT !.members = Members(t)])
    /\ raced' = raced \cup {<<request[q].of, t>> :
                      q \in {q \in Requests : Assigns(request[q]) /\ request[q].team = t}}
    /\ UNCHANGED strays

BeginManage(r, t, u) ==
    /\ Active(t)
    /\ u \in {None} \cup {m \in People : CanManage(m)}
    /\ Load(r, [Asked("MANAGE", u, t) EXCEPT !.was = team[t].manager])
    /\ UNCHANGED <<raced, strays>>

\* _resolve_team_id: employees are pinned to their own team, managers may name
\* another.
TeamFor(u, wanted) ==
    IF user[u].role = "EMPLOYEE" \/ wanted = None THEN user[u].team ELSE wanted

BeginCustomer(r, u, f, wanted) ==
    /\ ~customer[f].here /\ \A q \in Requests : request[q].adds # f
    /\ LoggedIn(u) /\ NoneOrActive(TeamFor(u, wanted))
    /\ Load(r, [Asked("CUSTOMER", u, TeamFor(u, wanted)) EXCEPT !.adds = f])
    /\ strays' = IF Locked(u) THEN strays \cup {f} ELSE strays
    /\ UNCHANGED raced

-----------------------------------------------------------------------------
(* Requests: what is written                                                *)

Answer(r) ==
    /\ request' = [request EXCEPT ![r] = Idle]
    /\ flushed' = {j \in flushed : j.by # r}
    /\ UNCHANGED <<raced, changes>>

CommitHire(r) ==
    /\ request[r].kind = "HIRE" /\ Answer(r)
    /\ user' = IF user[request[r].of] # Unborn THEN user
               ELSE [user EXCEPT ![request[r].of] =
                       [role |-> request[r].role, team |-> request[r].team, active |-> TRUE]]
    /\ UNCHANGED <<team, customer, joined, strays>>

\* A field that has the value it was loaded with is not written; a row that is
\* gone makes the request fail.
MovedTo(u, t, keep) == IF Present(u) /\ ~keep THEN [user EXCEPT ![u].team = t] ELSE user

CommitAssign(r) ==
    /\ request[r].kind \in {"ASSIGN", "LEAVE"} /\ Answer(r)
    /\ LET q == request[r]
           to == IF q.kind = "LEAVE" THEN None ELSE q.team
           keep == q.kind = "ASSIGN" /\ q.was = q.team
       IN  /\ keep \/ ~Locked(q.of)
           /\ user' = MovedTo(q.of, to, keep)
           /\ joined' = IF keep THEN joined ELSE joined \ {q.of}
    /\ UNCHANGED <<team, customer, strays>>

CreatedBy(u) == {f \in Customers : customer[f].here /\ customer[f].by = u}
BeingAdded(u) == {f \in Customers : \E q \in Requests : /\ request[q].kind = "CUSTOMER"
                                                      /\ request[q].of = u /\ request[q].adds = f}

\* add_member writes the person's row (a flush) and UPDATEs the customers that
\* he created without a team.  One who is being created is not among them.
AttachCustomers(r) ==
    /\ request[r].kind = "JOIN" /\ \A j \in flushed : j.by # r
    /\ LET u == request[r].of IN
       /\ Present(u) /\ ~Locked(u)
       /\ flushed' = flushed \cup
             {[by |-> r, found |-> {f \in CreatedBy(u) : customer[f].team = None}]}
       /\ strays' = strays \cup BeingAdded(u)
    /\ UNCHANGED <<user, team, customer, request, raced, joined, changes>>

\* Mutant: the customers stay where they are.
JoinAlone(r) ==
    /\ request[r].kind = "JOIN" /\ \E j \in flushed : j.by = r
    /\ Answer(r)
    /\ user' = MovedTo(request[r].of, request[r].team, FALSE)
    /\ joined' = joined \cup {request[r].of}
    /\ UNCHANGED <<team, customer, strays>>

CommitJoin(r) ==
    /\ request[r].kind = "JOIN"
    /\ \E j \in flushed :
          /\ j.by = r
          /\ customer' = [f \in Customers |-> IF f \in j.found
                             THEN [customer[f] EXCEPT !.team = request[r].team] ELSE customer[f]]
    /\ Answer(r)
    /\ user' = MovedTo(request[r].of, request[r].team, FALSE)
    /\ joined' = joined \cup {request[r].of}
    /\ UNCHANGED <<team, strays>>

\* The members that were loaded lose their team, wherever they have moved
\* since.
CommitDelete(r) ==
    /\ request[r].kind = "DELETE" /\ Answer(r)
    /\ \A u \in request[r].members : ~Locked(u)
    /\ user' = [u \in People |-> IF u \in request[r].members /\ Present(u)
                                 THEN [user[u] EXCEPT !.team = None] ELSE user[u]]
    /\ team' = [team EXCEPT ![request[r].team].status = "DELETED"]
    /\ joined' = joined \ request[r].members
    /\ UNCHANGED <<customer, strays>>

\* The manager's row must still be there (foreign key).
CommitManage(r) ==
    /\ request[r].kind = "MANAGE" /\ Answer(r)
    /\ LET q == request[r] IN
       team' = IF q.was # q.of /\ (q.of = None \/ Present(q.of))
               THEN [team EXCEPT ![q.team].manager = q.of] ELSE team
    /\ UNCHANGED <<user, customer, joined, strays>>

\* One customer, or the attendees of a meet, which are one here.
CommitCustomer(r) ==
    /\ request[r].kind = "CUSTOMER" /\ Answer(r)
    /\ LET q == request[r] IN
       customer' = IF Present(q.of)
                   THEN [customer EXCEPT ![q.adds] =
                           [here |-> TRUE, team |-> q.team, by |-> q.of, lead |-> None]]
                   ELSE customer
    /\ UNCHANGED <<user, team, joined, strays>>

\* A refused COMMIT, a worker that dies: nothing is written.
FailRequest(r) ==
    /\ request[r] # Idle /\ Answer(r)
    /\ UNCHANGED <<user, team, customer, joined, strays>>

-----------------------------------------------------------------------------
(* Requests of one statement                                                *)

Change == changes < MaxChanges /\ changes' = changes + 1 /\ UNCHANGED <<request, raced, flushed>>

Found(t, u) ==
    /\ Change /\ team[t].status = "NONE"
    /\ u \in {None} \cup {m \in People : CanManage(m)}
    /\ team' = [team EXCEPT ![t] = [status |-> "ACTIVE", manager |-> u]]
    /\ UNCHANGED <<user, customer, joined, strays>>

SetStatus(u, active) ==
    /\ Change /\ Present(u) /\ ~Locked(u) /\ user[u].active # active
    /\ user' = [user EXCEPT ![u].active = active]
    /\ UNCHANGED <<team, customer, joined, strays>>

SetRole(u, role) ==
    /\ Change /\ Present(u) /\ ~Locked(u) /\ user[u].role # role
    /\ user' = [user EXCEPT ![u].role = role]
    /\ UNCHANGED <<team, customer, joined, strays>>

\* farmers.created_by and leads.employee_id have no ON DELETE: whoever created
\* a customer or recorded a lead stays.  teams.manager_id is set to NULL.
DeleteEmployee(u) ==
    /\ Change /\ Present(u) /\ ~Locked(u)
    /\ \A f \in Customers : u \notin {customer[f].by, customer[f].lead}
    /\ user' = [user EXCEPT ![u] = Gone]
    /\ team' = [t \in Teams |-> IF team[t].manager = u THEN [team[t] EXCEPT !.manager = None]
                                                       ELSE team[t]]
    /\ joined' = joined \ {u}
    /\ UNCHANGED <<customer, strays>>

\* By a manager who can view it, or the administrator.
MoveCustomer(f, t) ==
    /\ Change /\ customer[f].here /\ ~ComesAlong(f) /\ NoneOrActive(t)
    /\ customer' = [customer EXCEPT ![f].team = t]
    /\ strays' = IF t = None THEN strays \cup {f} ELSE strays
    /\ UNCHANGED <<user, team, joined>>

ImportCustomer(f, t) ==
    /\ Change /\ ~customer[f].here /\ \A q \in Requests : request[q].adds # f
    /\ NoneOrActive(t)
    /\ customer' = [customer EXCEPT ![f] = [here |-> TRUE, team |-> t, by |-> None, lead |-> None]]
    /\ UNCHANGED <<user, team, joined, strays>>

-----------------------------------------------------------------------------
(* Scopes: what a screen lists, and what may be opened or changed           *)

Manager(u) == user[u].role = "MANAGER"
Managed(u) == {t \in Teams : team[t].manager = u}      \* deleted teams too
Own(u) == {user[u].team} \ {None}
In(ts) == {v \in People : Present(v) /\ user[v].team \in ts}
FieldStaff(ts) == {v \in In(ts) : user[v].role = "EMPLOYEE" /\ user[v].active}
CustomersOf(ts) == {f \in Customers : customer[f].here /\ customer[f].team \in ts}
WithLead(fs) == {f \in fs : customer[f].lead # None}

TeamsListed(u) == {t \in IF Manager(u) THEN Managed(u) ELSE Own(u) : Active(t)}
TeamOpens(u, t) == Active(t) /\ t \in IF Manager(u) THEN Managed(u) ELSE Own(u)

FarmersListed(u) ==
    IF Manager(u) THEN CustomersOf(Managed(u)) \cup CreatedBy(u)
    ELSE IF Own(u) # {} THEN CustomersOf(Own(u)) ELSE CreatedBy(u)

\* Mutant: who created it is not asked.
CanViewTeam(u, f) ==
    \/ Manager(u) /\ customer[f].team \in Managed(u)
    \/ customer[f].team \in Own(u)

CanView(u, f) ==
    \/ Manager(u) /\ customer[f].team \in Managed(u)
    \/ customer[f].team \in Own(u)
    \/ customer[f].by = u

CanWorkOn(u, f) == Manager(u) \/ customer[f].team \in Own(u) \/ customer[f].by = u

MyLeads(u) ==
    WithLead(IF Manager(u) THEN CustomersOf(Managed(u))
             ELSE IF Own(u) # {} THEN CustomersOf(Own(u)) ELSE CreatedBy(u))

\* A manager narrows to his own teams only.
TeamLeads(u, t, e) ==
    {f \in WithLead(CustomersOf(IF t = None THEN Managed(u) ELSE Managed(u) \cap {t})) :
        e \in {None, customer[f].lead}}

EmployeesListed(u) == In(Managed(u)) \ {u}
PendingOrders(u, t) == In(IF t = None THEN Managed(u) ELSE Managed(u) \cap {t})
CanReview(u, e) == user[e].team \in Managed(u)
TeamPlans(u) == FieldStaff(Managed(u))
TeamFollowUps(u) == In(Managed(u))

\* Daily reports: a manager's own team counts among his.
DsrTeams(u) == Managed(u) \cup Own(u)
TeamDsrs(u) == FieldStaff(DsrTeams(u))
DsrArchive(u) == In(DsrTeams(u))
OpensDsr(u, e) == user[e].team \in DsrTeams(u)

\* _manager_ids_for_team
ManagersOf(t) == {m \in People : LoggedIn(m) /\ Manager(m) /\ t \in Managed(m)}

\* A lead recorded without a visit.
RecordLead(u, f) ==
    /\ Change /\ LoggedIn(u) /\ customer[f].here /\ CanWorkOn(u, f)
    /\ customer' = [customer EXCEPT ![f].lead = u]
    /\ UNCHANGED <<user, team, joined, strays>>

-----------------------------------------------------------------------------
BeginRequest(r) ==
    /\ request[r] = Idle /\ changes < MaxChanges
    /\ \/ \E u \in People, t \in SomeTeam :
           \/ \E role \in {"EMPLOYEE", "MANAGER"} : BeginHire(r, u, role, t)
           \/ BeginAssign(r, u, t)
       \/ \E u \in People, t \in Teams : BeginJoin(r, u, t) \/ BeginLeave(r, u, t)
       \/ \E t \in Teams : BeginDelete(r, t)
       \/ \E t \in Teams, u \in Somebody : BeginManage(r, t, u)
       \/ \E u \in People, f \in Customers, t \in SomeTeam : BeginCustomer(r, u, f, t)

Commit(r) ==
    \/ CommitHire(r)   \/ CommitAssign(r) \/ CommitJoin(r)
    \/ CommitDelete(r) \/ CommitManage(r) \/ CommitCustomer(r)
    \/ FailRequest(r)

StaffNext ==
    \/ \E r \in Requests : BeginRequest(r) \/ AttachCustomers(r) \/ Commit(r)
    \/ \E t \in Teams, u \in Somebody : Found(t, u)
    \/ \E u \in People : \/ \E a \in BOOLEAN : SetStatus(u, a)
                        \/ \E role \in {"EMPLOYEE", "MANAGER"} : SetRole(u, role)
                        \/ DeleteEmployee(u)
                        \/ \E f \in Customers : RecordLead(u, f)
    \/ \E f \in Customers, t \in SomeTeam : MoveCustomer(f, t) \/ ImportCustomer(f, t)

-----------------------------------------------------------------------------
(* Properties                                                               *)

\* Nobody points at an inactive team ("Detach members so none point at an
\* inactive team", soft_delete), unless he was assigned to it by a request that
\* overlapped its deletion.
MembersHaveATeam ==
    \A u \in People :
        (user[u].team # None /\ <<u, user[u].team>> \notin raced) => Active(user[u].team)

\* What a screen lists can be opened, worked on, reviewed or reported on by the
\* person it is listed to; a manager who is told of a report can open it; and
\* nobody who joined a team through its page has left a customer of his own
\* behind, without a team, where his list no longer shows it - but one whose
\* creation overlapped the join, or whom somebody took out of the team since.
OfferedIsAllowed ==
    \A u \in People : LoggedIn(u) =>
        /\ \A f \in FarmersListed(u) : CanView(u, f) /\ CanWorkOn(u, f)
        /\ \A f \in MyLeads(u) : CanView(u, f) /\ CanWorkOn(u, f)
        /\ \A t \in TeamsListed(u) : TeamOpens(u, t)
        /\ Manager(u) =>
              /\ \A e \in EmployeesListed(u) \cup PendingOrders(u, None) \cup TeamPlans(u) :
                    CanReview(u, e) /\ OpensDsr(u, e)
              /\ \A e \in TeamDsrs(u) \cup DsrArchive(u) \cup TeamFollowUps(u) : OpensDsr(u, e)
              /\ \A e \in People : u \in ManagersOf(user[e].team) => OpensDsr(u, e)
        /\ u \in joined => \A f \in CreatedBy(u) \ strays : customer[f].team # None
=============================================================================
