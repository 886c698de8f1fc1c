------------------------------- MODULE StaffProofs -------------------------------
(***************************************************************************)
(* Proofs about Staff and Zones, as parts of Reports, and about Reports,   *)
(* for any people, teams, customers, zones, uploads and report jobs: who   *)
(* is left in a deleted team, what is listed, whom the events tell to be   *)
(* inside, what the events count, what a report shows, and the types.      *)
(*                                                                         *)
(* The arguments: a deletion in flight has loaded every member of its      *)
(* team, or the member's assignment overlapped it; and an assignment in    *)
(* flight is to an active team, or its team's deletion overlapped it.      *)
(* Whoever joined a team through its page has a team, and so have the      *)
(* customers he created and those that he is about to, but for those whose *)
(* creation his join could not see (strays).                               *)
(*                                                                         *)
(* What the events tell of a person is what the last position they were    *)
(* computed from says, zone by zone (PresenceIsKnown).  The minutes that a *)
(* reading sums, in one pass over the events or stay by stay, are those    *)
(* that are covered by a stay, as a set of times (Covered): a fold is      *)
(* compared with the set it counts, one element at a time.                 *)
(*                                                                         *)
(* A report whose owner's screens stood still has read the members that    *)
(* his scope has now, and once it is built it matches them (Faithful); it  *)
(* is ready once it is filed (Filed).                                      *)
(***************************************************************************)
EXTENDS Reports, FiniteSetTheorems, SequenceTheorems, WellFoundedInduction, TLAPS

Account == User \cup {Unborn, Gone}

\* What requests about one team, and those to hire, name.
Formed(q) ==
    /\ q.kind \in {"DELETE", "MANAGE", "JOIN"} => q.team \in Teams
    /\ q.kind = "HIRE" => q.of \in People /\ q.role \in {"EMPLOYEE", "MANAGER"}

\* The part of the type invariant that the argument rests on.
Typed ==
    /\ user \in [People -> Account]
    /\ team \in [Teams -> Team]
    /\ request \in [Requests -> Request]
    /\ \A r \in Requests : Formed(request[r])

AssignedOrRaced ==
    \A r \in Requests : Assigns(request[r]) =>
        Active(request[r].team) \/ <<request[r].of, request[r].team>> \in raced

OverlapIsRaced ==
    \A r, d \in Requests :
        (Assigns(request[r]) /\ request[d].kind = "DELETE" /\ request[d].team = request[r].team)
            => <<request[r].of, request[r].team>> \in raced

MembersAreLoaded ==
    \A d \in Requests, u \in People :
        (request[d].kind = "DELETE" /\ user[u].team = request[d].team)
            => u \in request[d].members \/ <<u, user[u].team>> \in raced

DetachInv ==
    /\ Typed /\ MembersHaveATeam
    /\ AssignedOrRaced /\ OverlapIsRaced /\ MembersAreLoaded

-----------------------------------------------------------------------------
(* Accounts and requests                                                    *)

LEMMA Accounts ==
    /\ Unborn.team = None /\ Gone.team = None
    /\ Unborn.role = "UNBORN" /\ Gone.role = "GONE"
  BY DEF Unborn, Gone

LEMMA AccountTeam == ASSUME NEW a \in Account PROVE a.team \in SomeTeam
  BY Accounts DEF Account, User, SomeTeam

LEMMA Absent == ASSUME NEW u \in People, ~Present(u) PROVE user[u].team = None
  BY Accounts DEF Present

LEMMA PresentUser ==
    ASSUME Typed, NEW u \in People, Present(u) PROVE user[u] \in User
  BY DEF Typed, Present, Account

LEMMA IdleType == Idle \in Request /\ Formed(Idle) /\ Idle.kind = "IDLE"
  BY DEF Idle, Request, SomeTeam, Somebody, Formed

\* The people keep their teams or lose them, teams stay active, and no request
\* begins: nothing is disturbed.
LEMMA Quiet ==
    ASSUME DetachInv, Typed',
           \A u \in People : user'[u].team \in {user[u].team, None},
           \A t \in Teams : Active(t) => Active(t)',
           \A r \in Requests : request'[r] \in {request[r], Idle},
           raced \subseteq raced'
    PROVE  DetachInv'
  <1> USE DEF DetachInv
  <1>1. \A u \in People : user[u].team \in SomeTeam
    BY AccountTeam DEF Typed
  <1>2. MembersHaveATeam'
    BY <1>1 DEF MembersHaveATeam, SomeTeam
  <1>3. \A r \in Requests : Assigns(request'[r]) => request'[r] = request[r]
    BY IdleType DEF Assigns
  <1>4. \A r \in Requests : Assigns(request[r]) => request[r].team \in Teams
    BY DEF Typed, Request, Assigns, SomeTeam
  <1>5. AssignedOrRaced'
    BY <1>3, <1>4 DEF AssignedOrRaced
  <1>6. \A r \in Requests : request'[r].kind = "DELETE" => request'[r] = request[r]
    BY IdleType
  <1>7. OverlapIsRaced'
    BY <1>3, <1>6 DEF OverlapIsRaced
  <1>8. MembersAreLoaded'
    <2> SUFFICES ASSUME NEW d \in Requests, NEW u \in People,
                        request'[d].kind = "DELETE", user'[u].team = request'[d].team
                 PROVE  u \in request'[d].members \/ <<u, user'[u].team>> \in raced'
      BY DEF MembersAreLoaded
    <2>1. request'[d] = request[d] /\ request[d].team \in Teams
      BY <1>6 DEF Typed, Formed
    <2>2. user'[u].team = user[u].team
      BY <2>1, StaffAssumption
    <2> QED BY <2>1, <2>2 DEF MembersAreLoaded
  <1> QED BY <1>2, <1>5, <1>7, <1>8
-----------------------------------------------------------------------------
(* Requests begin                                                           *)

\* Load changes one request.
LEMMA Loaded ==
    ASSUME Typed, NEW r \in Requests, NEW q \in Request, Load(r, q),
           Formed(q)
    PROVE  /\ Typed' /\ UNCHANGED <<user, team>>
           /\ request'[r] = q
           /\ \A p \in Requests : p # r => request'[p] = request[p]
  BY DEF Load, Typed

\* One that assigns somebody to an active team.
LEMMA BeginsToAssign ==
    ASSUME DetachInv, NEW r \in Requests, NEW q \in Request, Load(r, q),
           q.kind \in {"HIRE", "ASSIGN", "JOIN"}, NoneOrActive(q.team), Overlap(q.of, q.team),
           Formed(q)
    PROVE  DetachInv'
  <1> USE DEF DetachInv
  <1>1. /\ Typed' /\ UNCHANGED <<user, team>>
        /\ request'[r] = q /\ \A p \in Requests : p # r => request'[p] = request[p]
    BY Loaded
  <1>2. raced \subseteq raced'
    BY DEF Overlap
  <1>3. MembersHaveATeam'
    BY <1>1, <1>2 DEF MembersHaveATeam, Active
  <1>4. AssignedOrRaced'
    <2> SUFFICES ASSUME NEW p \in Requests, Assigns(request'[p])
                 PROVE  \/ team'[request'[p].team].status = "ACTIVE"
                        \/ <<request'[p].of, request'[p].team>> \in raced'
      BY DEF AssignedOrRaced, Active
    <2>1. CASE p = r
      BY <1>1, <2>1 DEF NoneOrActive, Assigns, Active
    <2>2. CASE p # r
      BY <1>1, <1>2, <2>2 DEF AssignedOrRaced, Active
    <2> QED BY <2>1, <2>2
  <1>5. OverlapIsRaced'
    <2> SUFFICES ASSUME NEW p \in Requests, NEW d \in Requests, Assigns(request'[p]),
                        request'[d].kind = "DELETE", request'[d].team = request'[p].team
                 PROVE  <<request'[p].of, request'[p].team>> \in raced'
      BY DEF OverlapIsRaced
    <2>1. d # r /\ request'[d] = request[d]
      BY <1>1
    <2>2. CASE p = r
      BY <1>1, <2>1, <2>2 DEF Overlap
    <2>3. CASE p # r
      BY <1>1, <1>2, <2>1, <2>3 DEF OverlapIsRaced
    <2> QED BY <2>2, <2>3
  <1>6. MembersAreLoaded'
    BY <1>1, <1>2 DEF MembersAreLoaded
  <1> QED BY <1>1, <1>3, <1>4, <1>5, <1>6

\* One that does something else, but delete a team.
LEMMA BeginsOther ==
    ASSUME DetachInv, NEW r \in Requests, NEW q \in Request, Load(r, q),
           q.kind \in {"LEAVE", "MANAGE", "CUSTOMER"}, Formed(q), UNCHANGED raced
    PROVE  DetachInv'
  <1> USE DEF DetachInv
  <1>1. /\ Typed' /\ UNCHANGED <<user, team>>
        /\ request'[r] = q /\ \A p \in Requests : p # r => request'[p] = request[p]
    BY Loaded DEF Formed
  <1>2. MembersHaveATeam'
    BY <1>1 DEF MembersHaveATeam, Active
  <1>3. AssignedOrRaced'
    BY <1>1 DEF AssignedOrRaced, Assigns, Active
  <1>4. OverlapIsRaced' /\ MembersAreLoaded'
    BY <1>1 DEF OverlapIsRaced, MembersAreLoaded, Assigns
  <1> QED BY <1>1, <1>2, <1>3, <1>4

\* The deletion of a team loads its members.
LEMMA BeginsToDelete ==
    ASSUME DetachInv, NEW r \in Requests, NEW t \in Teams, BeginDelete(r, t)
    PROVE  DetachInv'
  <1> USE DEF DetachInv
  <1> DEFINE q == [Asked("DELETE", None, t) EXCEPT !.members = Members(t)]
  <1>1. q \in Request /\ q.kind = "DELETE" /\ q.team = t /\ q.members = Members(t)
        /\ Formed(q)
    BY DEF Asked, Idle, Request, SomeTeam, Somebody, Members, Formed
  <1>2. /\ Typed' /\ UNCHANGED <<user, team>>
        /\ request'[r] = q /\ \A p \in Requests : p # r => request'[p] = request[p]
    <2> HIDE DEF q
    <2>1. Load(r, q)
      BY DEF BeginDelete, q
    <2> QED BY <1>1, <2>1, Loaded
  <1> HIDE DEF q
  <1>3. raced \subseteq raced'
    BY DEF BeginDelete
  <1>4. MembersHaveATeam'
    BY <1>2, <1>3 DEF MembersHaveATeam, Active
  <1>5. AssignedOrRaced'
    BY <1>1, <1>2, <1>3 DEF AssignedOrRaced, Assigns, Active
  <1>6. OverlapIsRaced'
    <2> SUFFICES ASSUME NEW p \in Requests, NEW d \in Requests, Assigns(request'[p]),
                        request'[d].kind = "DELETE", request'[d].team = request'[p].team
                 PROVE  <<request'[p].of, request'[p].team>> \in raced'
      BY DEF OverlapIsRaced
    <2>1. p # r /\ request'[p] = request[p]
      BY <1>1, <1>2 DEF Assigns
    <2>2. CASE d = r
      <3>1. request[p].team = t
        BY <1>1, <1>2, <2>1, <2>2
      <3> QED BY <2>1, <3>1 DEF BeginDelete
    <2>3. CASE d # r
      BY <1>2, <1>3, <2>1, <2>3 DEF OverlapIsRaced
    <2> QED BY <2>2, <2>3
  <1>7. MembersAreLoaded'
    <2> SUFFICES ASSUME NEW d \in Requests, NEW u \in People,
                        request'[d].kind = "DELETE", user'[u].team = request'[d].team
                 PROVE  u \in request'[d].members \/ <<u, user'[u].team>> \in raced'
      BY DEF MembersAreLoaded
    <2>1. CASE d = r
      <3>1. user[u].team = t
        BY <1>1, <1>2, <2>1
      <3>2. Present(u)
        BY <3>1, Absent, StaffAssumption
      <3> QED BY <1>1, <1>2, <2>1, <3>1, <3>2 DEF Members
    <2>2. CASE d # r
      BY <1>2, <1>3, <2>2 DEF MembersAreLoaded
    <2> QED BY <2>1, <2>2
  <1> QED BY <1>2, <1>4, <1>5, <1>6, <1>7

LEMMA Begins ==
    ASSUME DetachInv, NEW r \in Requests, BeginRequest(r) PROVE DetachInv'
  <1> USE DEF SomeTeam, Somebody
  <1>1. ASSUME NEW u \in People, NEW t \in SomeTeam, NEW role \in {"EMPLOYEE", "MANAGER"},
               BeginHire(r, u, role, t)
        PROVE  DetachInv'
    <2> DEFINE q == [Asked("HIRE", u, t) EXCEPT !.role = role]
    <2>1. q \in Request /\ q.kind = "HIRE" /\ q.of = u /\ q.team = t /\ Formed(q)
      BY DEF Asked, Idle, Request, Formed
    <2>2. Load(r, q) /\ NoneOrActive(t) /\ Overlap(u, t)
      BY <1>1 DEF BeginHire
    <2> HIDE DEF q
    <2> QED BY <2>1, <2>2, BeginsToAssign DEF Formed
  <1>2. ASSUME NEW u \in People, NEW t \in SomeTeam, BeginAssign(r, u, t)
        PROVE  DetachInv'
    <2> DEFINE q == [Asked("ASSIGN", u, t) EXCEPT !.was = user[u].team]
    <2>1. user[u].team \in SomeTeam
      BY AccountTeam DEF DetachInv, Typed
    <2>2. q \in Request /\ q.kind = "ASSIGN" /\ q.of = u /\ q.team = t
      BY <2>1 DEF Asked, Idle, Request
    <2>3. Load(r, q) /\ NoneOrActive(t) /\ Overlap(u, t)
      BY <1>2 DEF BeginAssign
    <2> HIDE DEF q
    <2> QED BY <2>2, <2>3, BeginsToAssign DEF Formed
  <1>3. ASSUME NEW u \in People, NEW t \in Teams, BeginJoin(r, u, t)
        PROVE  DetachInv'
    <2> DEFINE q == Asked("JOIN", u, t)
    <2>1. q \in Request /\ q.kind = "JOIN" /\ q.of = u /\ q.team = t /\ Formed(q)
      BY DEF Asked, Idle, Request, Formed
    <2>2. Load(r, q) /\ NoneOrActive(t) /\ Overlap(u, t)
      BY <1>3 DEF BeginJoin, NoneOrActive
    <2> HIDE DEF q
    <2> QED BY <2>1, <2>2, BeginsToAssign DEF Formed
  <1>4. ASSUME NEW u \in People, NEW t \in Teams, BeginLeave(r, u, t)
        PROVE  DetachInv'
    <2> DEFINE q == Asked("LEAVE", u, t)
    <2>1. q \in Request /\ q.kind = "LEAVE" /\ Formed(q)
      BY DEF Asked, Idle, Request, Formed
    <2>2. Load(r, q) /\ UNCHANGED raced
      BY <1>4 DEF BeginLeave
    <2> HIDE DEF q
    <2> QED BY <2>1, <2>2, BeginsOther
  <1>5. ASSUME NEW t \in Teams, NEW u \in Somebody, BeginManage(r, t, u)
        PROVE  DetachInv'
    <2> DEFINE q == [Asked("MANAGE", u, t) EXCEPT !.was = team[t].manager]
    <2>1. team[t].manager \in Somebody
      BY DEF DetachInv, Typed, Team
    <2>2. q \in Request /\ q.kind = "MANAGE" /\ Formed(q)
      BY <2>1 DEF Asked, Idle, Request, Formed
    <2>3. Load(r, q) /\ UNCHANGED raced
      BY <1>5 DEF BeginManage
    <2> HIDE DEF q
    <2> QED BY <2>2, <2>3, BeginsOther
  <1>6. ASSUME NEW u \in People, NEW f \in Customers, NEW t \in SomeTeam,
               BeginCustomer(r, u, f, t)
        PROVE  DetachInv'
    <2> DEFINE q == [Asked("CUSTOMER", u, TeamFor(u, t)) EXCEPT !.adds = f]
    <2>1. TeamFor(u, t) \in SomeTeam
      BY AccountTeam DEF DetachInv, Typed, TeamFor
    <2>2. q \in Request /\ q.kind = "CUSTOMER" /\ Formed(q)
      BY <2>1 DEF Asked, Idle, Request, Formed
    <2>3. Load(r, q) /\ UNCHANGED raced
      BY <1>6 DEF BeginCustomer
    <2> HIDE DEF q
    <2> QED BY <2>2, <2>3, BeginsOther
  <1> QED BY <1>1, <1>2, <1>3, <1>4, <1>5, <1>6, BeginsToDelete DEF BeginRequest
-----------------------------------------------------------------------------
(* Requests are carried out                                                 *)

\* Answer changes one request, and none begins.
LEMMA Answered ==
    ASSUME Typed, NEW r \in Requests, Answer(r)
    PROVE  /\ request' \in [Requests -> Request]
           /\ \A p \in Requests : Formed(request'[p])
           /\ \A p \in Requests : request'[p] \in {request[p], Idle}
           /\ request'[r] = Idle /\ UNCHANGED raced
  BY IdleType DEF Answer, Typed

\* A request in flight gives u its team, or leaves him as he is.
LEMMA Assigned ==
    ASSUME DetachInv, NEW r \in Requests, Assigns(request[r]), Answer(r), UNCHANGED team,
           NEW u \in People, u = request[r].of, NEW a \in User, a.team = request[r].team,
           user' \in {user, [user EXCEPT ![u] = a]}
    PROVE  DetachInv'
  <1> USE DEF DetachInv
  <1>1. CASE user' = user
    BY <1>1, Answered, Quiet DEF Typed, Active
  <1>2. CASE user' = [user EXCEPT ![u] = a]
    <2>1. Typed'
      BY <1>2, Answered DEF Typed, Account
    <2>2. user'[u] = a /\ \A v \in People : v # u => user'[v] = user[v]
      BY <1>2 DEF Typed
    <2>3. MembersHaveATeam'
      BY <2>2, Answered DEF MembersHaveATeam, AssignedOrRaced, Active
    <2>4. \A p \in Requests : Assigns(request'[p]) => request'[p] = request[p]
      BY Answered, IdleType DEF Assigns
    <2>5. \A p \in Requests : request'[p].kind = "DELETE" => request'[p] = request[p]
      BY Answered, IdleType
    <2>6. AssignedOrRaced'
      BY <2>4, Answered DEF AssignedOrRaced, Active
    <2>7. OverlapIsRaced'
      BY <2>4, <2>5, Answered DEF OverlapIsRaced
    <2>8. MembersAreLoaded'
      <3> SUFFICES ASSUME NEW d \in Requests, NEW v \in People,
                          request'[d].kind = "DELETE", user'[v].team = request'[d].team
                   PROVE  v \in request'[d].members \/ <<v, user'[v].team>> \in raced'
        BY DEF MembersAreLoaded
      <3>1. request'[d] = request[d]
        BY <2>5
      <3>2. CASE v = u
        BY <2>2, <3>1, <3>2, Answered DEF OverlapIsRaced
      <3>3. CASE v # u
        BY <2>2, <3>1, <3>3, Answered DEF MembersAreLoaded
      <3> QED BY <3>2, <3>3
    <2> QED BY <2>1, <2>3, <2>6, <2>7, <2>8
  <1> QED BY <1>1, <1>2

\* Somebody is moved, or nobody.
LEMMA Moves ==
    ASSUME Typed, NEW u, NEW t \in SomeTeam, NEW keep \in BOOLEAN
    PROVE  /\ MovedTo(u, t, keep) = user
           \/ /\ u \in People /\ [user[u] EXCEPT !.team = t] \in User
              /\ [user[u] EXCEPT !.team = t].team = t
              /\ MovedTo(u, t, keep) = [user EXCEPT ![u] = [user[u] EXCEPT !.team = t]]
  <1>1. CASE Present(u) /\ ~keep
    <2>1. user[u] \in User
      BY <1>1, PresentUser DEF Present
    <2>2. MovedTo(u, t, keep) = [user EXCEPT ![u].team = t]
      BY <1>1 DEF MovedTo
    <2> QED BY <1>1, <2>1, <2>2 DEF Present, User
  <1>2. CASE ~(Present(u) /\ ~keep)
    BY <1>2 DEF MovedTo
  <1> QED BY <1>1, <1>2

\* Nobody gets a team that he did not have: teams stay, and so do the accounts
\* but for the team that some lose.
LEMMA Detached ==
    ASSUME DetachInv, NEW r \in Requests, Answer(r), UNCHANGED team,
           user' \in [People -> Account],
           \A u \in People : user'[u].team \in {user[u].team, None}
    PROVE  DetachInv'
  <1>1. Typed'
    BY Answered DEF DetachInv, Typed
  <1> QED BY <1>1, Answered, Quiet DEF DetachInv, Active

LEMMA Hires ==
    ASSUME DetachInv, NEW r \in Requests, CommitHire(r) PROVE DetachInv'
  <1> DEFINE q == request[r]
             a == [role |-> q.role, team |-> q.team, active |-> TRUE]
  <1>1. q \in Request /\ Formed(q) /\ Typed
    BY DEF DetachInv, Typed
  <1>2. q.kind = "HIRE" /\ Answer(r) /\ UNCHANGED team
    BY DEF CommitHire
  <1>3. user' \in {user, [user EXCEPT ![q.of] = a]}
    BY DEF CommitHire
  <1>4. q.of \in People /\ a \in User /\ a.team = q.team
    BY <1>1, <1>2 DEF Formed, Request, User
  <1>5. CASE q.team # None
    <2>1. Assigns(q)
      BY <1>2, <1>5 DEF Assigns
    <2> HIDE DEF a
    <2> QED BY <1>2, <1>3, <1>4, <2>1, Assigned
  <1>6. CASE q.team = None
    <2>1. user' \in [People -> Account] /\ \A u \in People : user'[u].team \in {user[u].team, None}
      BY <1>1, <1>3, <1>4, <1>6 DEF Typed, Account
    <2> QED BY <1>2, <2>1, Detached
  <1> QED BY <1>5, <1>6

\* CommitAssign and CommitJoin move somebody to the team of the request, or,
\* when he leaves, to none.
LEMMA Commits ==
    ASSUME DetachInv, NEW r \in Requests, Answer(r), UNCHANGED team,
           NEW t \in SomeTeam, NEW keep \in BOOLEAN,
           t # None => Assigns(request[r]) /\ t = request[r].team,
           user' = MovedTo(request[r].of, t, keep)
    PROVE  DetachInv'
  <1> DEFINE u == request[r].of
             a == [user[u] EXCEPT !.team = t]
  <1>1. Typed
    BY DEF DetachInv
  <1>2. CASE user' = user
    <2>1. user' \in [People -> Account] /\ \A v \in People : user'[v].team \in {user[v].team, None}
      BY <1>1, <1>2 DEF Typed
    <2> QED BY <2>1, Detached
  <1>3. CASE u \in People /\ a \in User /\ a.team = t /\ user' = [user EXCEPT ![u] = a]
    <2> HIDE DEF a
    <2>1. CASE t # None
      BY <1>3, <2>1, Assigned
    <2>2. CASE t = None
      <3>1. /\ user' \in [People -> Account]
            /\ \A v \in People : user'[v].team \in {user[v].team, None}
        BY <1>1, <1>3, <2>2 DEF Typed, Account
      <3> QED BY <3>1, Detached
    <2> QED BY <2>1, <2>2
  <1> QED BY <1>1, <1>2, <1>3, Moves

\* Whoever of the team is not detached was assigned while it was deleted.
LEMMA Deletes ==
    ASSUME DetachInv, NEW r \in Requests, CommitDelete(r) PROVE DetachInv'
  <1> USE DEF DetachInv
  <1> DEFINE t == request[r].team
  <1>1. request[r].kind = "DELETE" /\ Answer(r) /\ t \in Teams
    BY DEF CommitDelete, Typed, Formed
  <1>2. \A u \in People :
          user'[u] = IF u \in request[r].members /\ Present(u)
                     THEN [user[u] EXCEPT !.team = None] ELSE user[u]
    BY DEF CommitDelete
  <1>3. user' \in [People -> Account]
    <2>1. \A u \in People : Present(u) => [user[u] EXCEPT !.team = None] \in User
      BY PresentUser DEF User, SomeTeam
    <2> QED BY <2>1 DEF CommitDelete, Typed, Account
  <1>4. /\ team' \in [Teams -> Team] /\ team'[t].status = "DELETED"
        /\ \A s \in Teams : s # t => team'[s] = team[s]
    BY <1>1 DEF CommitDelete, Typed, Team
  <1>5. Typed'
    BY <1>1, <1>3, <1>4, Answered DEF Typed
  <1>6. \A u \in People : user[u].team = t /\ <<u, t>> \notin raced => user'[u].team = None
    <2> SUFFICES ASSUME NEW u \in People, user[u].team = t, <<u, t>> \notin raced
                 PROVE  user'[u].team = None
      OBVIOUS
    <2>1. u \in request[r].members
      BY <1>1 DEF MembersAreLoaded
    <2>2. Present(u) /\ user[u] \in User
      BY <1>1, Absent, PresentUser, StaffAssumption
    <2> QED BY <1>2, <2>1, <2>2 DEF User
  <1>7. \A u \in People : user'[u].team \in {user[u].team, None}
    BY <1>2, PresentUser DEF User
  <1>8. MembersHaveATeam'
    <2> SUFFICES ASSUME NEW u \in People, user'[u].team # None, <<u, user'[u].team>> \notin raced'
                 PROVE  team'[user'[u].team].status = "ACTIVE"
      BY DEF MembersHaveATeam, Active
    <2>1. user'[u].team = user[u].team /\ user[u].team \in Teams /\ raced' = raced
      BY <1>1, <1>7, Answered, AccountTeam DEF Typed, SomeTeam
    <2>2. user[u].team # t
      BY <1>6, <2>1
    <2> QED BY <1>4, <2>1, <2>2 DEF MembersHaveATeam, Active
  <1>9. \A p \in Requests : request'[p].kind # "IDLE" => request'[p] = request[p]
    BY <1>1, Answered, IdleType
  <1>10. AssignedOrRaced'
    <2> SUFFICES ASSUME NEW p \in Requests, Assigns(request'[p])
                 PROVE  \/ team'[request'[p].team].status = "ACTIVE"
                        \/ <<request'[p].of, request'[p].team>> \in raced'
      BY DEF AssignedOrRaced, Active
    <2>1. /\ request'[p] = request[p] /\ request[p].team \in Teams /\ raced' = raced
      BY <1>1, <1>9, Answered DEF Assigns, Typed, Request, SomeTeam
    <2>2. CASE request[p].team = t
      BY <1>1, <2>1, <2>2 DEF OverlapIsRaced
    <2>3. CASE request[p].team # t
      BY <1>4, <2>1, <2>3 DEF AssignedOrRaced, Active
    <2> QED BY <2>2, <2>3
  <1>11. OverlapIsRaced'
    BY <1>1, <1>9, Answered DEF OverlapIsRaced, Assigns
  <1>12. MembersAreLoaded'
    <2> SUFFICES ASSUME NEW d \in Requests, NEW u \in People,
                        request'[d].kind = "DELETE", user'[u].team = request'[d].team
                 PROVE  u \in request'[d].members \/ <<u, user'[u].team>> \in raced'
      BY DEF MembersAreLoaded
    <2>1. request'[d] = request[d] /\ request[d].team \in Teams /\ raced' = raced
      BY <1>1, <1>9, Answered DEF Typed, Formed
    <2>2. user'[u].team = user[u].team
      BY <1>7, <2>1, StaffAssumption
    <2> QED BY <2>1, <2>2 DEF MembersAreLoaded
  <1> QED BY <1>5, <1>8, <1>10, <1>11, <1>12

LEMMA Carries ==
    ASSUME DetachInv, NEW r \in Requests, Commit(r) PROVE DetachInv'
  <1>1. request[r] \in Request /\ Typed
    BY DEF DetachInv, Typed
  <1>2. CASE CommitHire(r)
    BY <1>2, Hires
  <1>3. CASE CommitAssign(r)
    <2> DEFINE q == request[r]
               to == IF q.kind = "LEAVE" THEN None ELSE q.team
               keep == q.kind = "ASSIGN" /\ q.was = q.team
    <2>1. /\ to \in SomeTeam /\ keep \in BOOLEAN /\ Answer(r) /\ UNCHANGED team
          /\ to # None => Assigns(q) /\ to = q.team
          /\ user' = MovedTo(q.of, to, keep)
      BY <1>1, <1>3 DEF CommitAssign, Request, SomeTeam, Assigns
    <2> HIDE DEF to, keep
    <2> QED BY <2>1, Commits
  <1>4. CASE CommitJoin(r)
    <2>1. /\ request[r].team \in SomeTeam /\ Answer(r) /\ UNCHANGED team
          /\ request[r].team # None => Assigns(request[r])
          /\ user' = MovedTo(request[r].of, request[r].team, FALSE)
      BY <1>1, <1>4 DEF CommitJoin, Request, Assigns
    <2> QED BY <2>1, Commits
  <1>5. CASE CommitDelete(r)
    BY <1>5, Deletes
  <1>6. CASE CommitManage(r)
    <2>1. Answer(r) /\ UNCHANGED user
      BY <1>6 DEF CommitManage
    <2>2. request[r].team \in Teams /\ request[r].of \in Somebody
      BY <1>1, <1>6 DEF CommitManage, Typed, Formed, Request
    <2>3. team' \in [Teams -> Team] /\ \A t \in Teams : team'[t].status = team[t].status
      BY <1>1, <1>6, <2>2 DEF CommitManage, Typed, Team
    <2>4. \A u \in People : user'[u].team = user[u].team
      BY <2>1
    <2>5. Typed'
      BY <1>1, <2>1, <2>3, Answered DEF Typed
    <2>6. \A t \in Teams : Active(t) => Active(t)'
      BY <2>3 DEF Active
    <2> QED BY <1>1, <2>1, <2>4, <2>5, <2>6, Answered, Quiet
  <1>7. CASE CommitCustomer(r) \/ FailRequest(r)
    <2>1. Answer(r) /\ UNCHANGED <<user, team>>
      BY <1>7 DEF CommitCustomer, FailRequest
    <2> QED BY <1>1, <2>1, Detached DEF Typed
  <1> QED BY <1>2, <1>3, <1>4, <1>5, <1>6, <1>7 DEF Commit
-----------------------------------------------------------------------------
(* Requests of one statement, and everything else                           *)

LEMMA Statements ==
    ASSUME DetachInv, Change,
           \/ \E t \in Teams, u \in Somebody : Found(t, u)
           \/ \E u \in People, active \in BOOLEAN : SetStatus(u, active)
           \/ \E u \in People, role \in {"EMPLOYEE", "MANAGER"} : SetRole(u, role)
           \/ \E u \in People : DeleteEmployee(u)
    PROVE  DetachInv'
  <1>1. Typed /\ UNCHANGED <<request, raced>>
    BY DEF DetachInv, Change
  <1>2. SUFFICES /\ user' \in [People -> Account] /\ team' \in [Teams -> Team]
                 /\ \A u \in People : user'[u].team \in {user[u].team, None}
                 /\ \A t \in Teams : Active(t) => Active(t)'
    <2>1. Typed'
      BY <1>1, <1>2 DEF Typed
    <2> QED BY <1>1, <1>2, <2>1, Quiet
  <1>3. ASSUME NEW t \in Teams, NEW u \in Somebody, Found(t, u)
        PROVE  /\ user' = user /\ team' \in [Teams -> Team]
               /\ \A s \in Teams : Active(s) => Active(s)'
    BY <1>1, <1>3 DEF Found, Typed, Team, Active
  <1>4. ASSUME NEW u \in People, NEW active \in BOOLEAN, SetStatus(u, active)
        PROVE  /\ user' \in [People -> Account] /\ team' = team
               /\ \A v \in People : user'[v].team \in {user[v].team, None}
    <2>1. user[u] \in User
      BY <1>1, <1>4, PresentUser DEF SetStatus
    <2> QED BY <1>1, <1>4, <2>1 DEF SetStatus, Typed, Account, User
  <1>5. ASSUME NEW u \in People, NEW role \in {"EMPLOYEE", "MANAGER"}, SetRole(u, role)
        PROVE  /\ user' \in [People -> Account] /\ team' = team
               /\ \A v \in People : user'[v].team \in {user[v].team, None}
    <2>1. user[u] \in User
      BY <1>1, <1>5, PresentUser DEF SetRole
    <2> QED BY <1>1, <1>5, <2>1 DEF SetRole, Typed, Account, User
  <1>6. ASSUME NEW u \in People, DeleteEmployee(u)
        PROVE  /\ user' \in [People -> Account] /\ team' \in [Teams -> Team]
               /\ \A v \in People : user'[v].team \in {user[v].team, None}
               /\ \A t \in Teams : Active(t) => Active(t)'
    <2>1. user' \in [People -> Account] /\ \A v \in People : user'[v].team \in {user[v].team, None}
      BY <1>1, <1>6, Accounts DEF DeleteEmployee, Typed, Account
    <2>2. \A t \in Teams : [team[t] EXCEPT !.manager = None] \in Team
      BY <1>1 DEF Typed, Team, Somebody
    <2>3. team' \in [Teams -> Team] /\ \A t \in Teams : team'[t].status = team[t].status
      BY <1>1, <1>6, <2>2 DEF DeleteEmployee, Typed, Team
    <2> QED BY <2>1, <2>3 DEF Active
  <1> QED BY <1>1, <1>3, <1>4, <1>5, <1>6 DEF Typed, Active

\* Nothing that the argument is about changes.
LEMMA Elsewhere ==
    ASSUME DetachInv, UNCHANGED <<user, team, request, raced>> PROVE DetachInv'
  <1>1. Typed' /\ \A t \in Teams : Active(t) => Active(t)'
    BY DEF DetachInv, Typed, Active
  <1> QED BY <1>1, Quiet

LEMMA StaffSteps == ASSUME DetachInv, StaffNext PROVE DetachInv'
  <1>1. ASSUME NEW r \in Requests, BeginRequest(r) \/ AttachCustomers(r) \/ Commit(r)
        PROVE  DetachInv'
    <2>1. CASE AttachCustomers(r)
      BY <2>1, Elsewhere DEF AttachCustomers
    <2> QED BY <1>1, <2>1, Begins, Carries
  <1>2. ASSUME NEW t \in Teams, NEW u \in Somebody, Found(t, u) PROVE DetachInv'
    BY <1>2, Statements DEF Found
  <1>3. ASSUME NEW u \in People, NEW active \in BOOLEAN, SetStatus(u, active) PROVE DetachInv'
    BY <1>3, Statements DEF SetStatus
  <1>4. ASSUME NEW u \in People, NEW role \in {"EMPLOYEE", "MANAGER"}, SetRole(u, role)
        PROVE  DetachInv'
    BY <1>4, Statements DEF SetRole
  <1>5. ASSUME NEW u \in People, DeleteEmployee(u) PROVE DetachInv'
    BY <1>5, Statements DEF DeleteEmployee
  <1>6. ASSUME NEW u \in People, NEW f \in Customers, RecordLead(u, f) PROVE DetachInv'
    BY <1>6, Elsewhere DEF RecordLead, Change
  <1>7. ASSUME NEW f \in Customers, NEW t \in SomeTeam, MoveCustomer(f, t) \/ ImportCustomer(f, t)
        PROVE  DetachInv'
    BY <1>7, Elsewhere DEF MoveCustomer, ImportCustomer, Change
  <1> QED BY <1>1, <1>2, <1>3, <1>4, <1>5, <1>6, <1>7 DEF StaffNext

Untouched == UNCHANGED <<user, team, customer, request, raced, joins>>

\* What zones, uploads and reports do leaves people, teams and customers alone.
LEMMA StaffMoves ==
    ASSUME [ReportsNext]_backOffice
    PROVE  StaffNext \/ Untouched
  <1>1. CASE UNCHANGED backOffice
    BY <1>1 DEF Untouched, backOffice, staff
  <1>2. CASE WithStaff
    BY <1>2 DEF WithStaff
  <1>3. ASSUME NEW z \in Zone, NEW t \in SomeTeam, CreateZone(z, t) \/ RescopeZone(z, t)
        PROVE  Untouched
    BY <1>3 DEF Untouched, CreateZone, RescopeZone, ZoneChange
  <1>4. ASSUME NEW z \in Zone, NEW over \in SUBSET People, RedrawZone(z, over)
        PROVE  Untouched
    BY <1>4 DEF Untouched, RedrawZone, ZoneChange
  <1>5. ASSUME NEW z \in Zone, DeleteZone(z) PROVE Untouched
    BY <1>5 DEF Untouched, DeleteZone, ZoneChange
  <1>6. ASSUME NEW s \in Uploads, NEW u \in Phones, NEW time \in 1..MaxFixes, NEW at \in Places,
               ReceiveBatch(s, u, time, at)
        PROVE  Untouched
    BY <1>6 DEF Untouched, ReceiveBatch, Engine
  <1>7. ASSUME NEW s \in Uploads, NEW released \in BOOLEAN,
               StoreBatch(s) \/ CheckZones(s) \/ LoseBatch(s, released)
        PROVE  Untouched
    BY <1>7 DEF Untouched, StoreBatch, CheckZones, LoseBatch, Engine
  <1>8. ASSUME NEW j \in Jobs,
               \/ AskReport(j) \/ ReadMembers(j) \/ ReadRows(j) \/ MarkReady(j)
               \/ Fail(j) \/ Die(j) \/ Age(j) \/ Expire(j)
        PROVE  Untouched
    <2>1. JobStep
      BY <1>8 DEF AskReport, Generate, AutoReport, Start, ReadMembers, ReadRows, MarkReady, Fail,
             Die, Age, Expire, Advance
    <2> QED BY <2>1 DEF Untouched, JobStep
  <1>9. ASSUME NEW u \in Phones, EndDay(u) PROVE Untouched
    BY <1>9 DEF Untouched, EndDay
  <1>10. CASE ZonesNext
    BY <1>2, <1>3, <1>4, <1>5, <1>6, <1>7, <1>9, <1>10 DEF ZonesNext
  <1> QED BY <1>1, <1>8, <1>10 DEF ReportsNext

LEMMA Step == ASSUME DetachInv, [ReportsNext]_backOffice PROVE DetachInv'
  BY StaffMoves, StaffSteps, Elsewhere DEF Untouched

LEMMA Starts == ASSUME StaffInit PROVE DetachInv
  <1>1. Typed /\ \A r \in Requests : request[r].kind = "IDLE"
    BY StaffAssumption, IdleType DEF StaffInit, Typed, Account
  <1>2. MembersHaveATeam
    BY StaffAssumption DEF StaffInit, MembersHaveATeam, Active
  <1> QED BY <1>1, <1>2 DEF DetachInv, AssignedOrRaced, OverlapIsRaced, MembersAreLoaded, Assigns

\* However requests, zones, uploads and reports interleave, nobody is left
\* pointing at a deleted team unless the request that assigned him to it
\* overlapped the one that deleted it (TeamService.soft_delete).
THEOREM NobodyIsLeftBehind == Spec => []MembersHaveATeam
  <1>1. Init => DetachInv
    BY Starts DEF Init
  <1>2. DetachInv /\ [ReportsNext]_backOffice => DetachInv'
    BY Step
  <1>3. DetachInv => MembersHaveATeam
    BY DEF DetachInv
  <1> QED BY <1>1, <1>2, <1>3, PTL DEF Spec
-----------------------------------------------------------------------------
(* Lists and what they offer                                                *)

\* The lists of one state follow the scopes of that state.
LEMMA ListsFollowScopes ==
    ASSUME NEW u \in People
    PROVE  /\ \A f \in FarmersListed(u) \cup MyLeads(u) : CanView(u, f) /\ CanWorkOn(u, f)
           /\ \A t \in TeamsListed(u) : TeamOpens(u, t)
           /\ \A e \in EmployeesListed(u) \cup PendingOrders(u, None) \cup TeamPlans(u) :
                 CanReview(u, e) /\ OpensDsr(u, e)
           /\ \A e \in TeamDsrs(u) \cup DsrArchive(u) \cup TeamFollowUps(u) : OpensDsr(u, e)
           /\ \A e \in People : u \in ManagersOf(user[e].team) => OpensDsr(u, e)
  <1>1. \A f \in FarmersListed(u) \cup MyLeads(u) : CanView(u, f) /\ CanWorkOn(u, f)
    BY DEF FarmersListed, MyLeads, WithLead, CustomersOf, CreatedBy, CanView, CanWorkOn
  <1>2. \A t \in TeamsListed(u) : TeamOpens(u, t)
    BY DEF TeamsListed, TeamOpens
  <1>3. \A e \in EmployeesListed(u) \cup PendingOrders(u, None) \cup TeamPlans(u) :
           CanReview(u, e) /\ OpensDsr(u, e)
    BY DEF EmployeesListed, PendingOrders, TeamPlans, FieldStaff, In, CanReview, OpensDsr, DsrTeams
  <1>4. \A e \in TeamDsrs(u) \cup DsrArchive(u) \cup TeamFollowUps(u) : OpensDsr(u, e)
    BY DEF TeamDsrs, DsrArchive, TeamFollowUps, FieldStaff, In, OpensDsr, DsrTeams
  <1>5. \A e \in People : u \in ManagersOf(user[e].team) => OpensDsr(u, e)
    BY DEF ManagersOf, OpensDsr, DsrTeams
  <1> QED BY <1>1, <1>2, <1>3, <1>4, <1>5

\* The customers of u, and those that are being created for him, have a team, but
\* for those that his join has found and those it could not find.
Placed(u, found) ==
    /\ \A f \in CreatedBy(u) : customer[f].team # None \/ f \in found \cup strays
    /\ \A r \in Requests :
          (request[r].kind = "CUSTOMER" /\ request[r].of = u /\ request[r].adds \in Customers)
              => request[r].team # None \/ request[r].adds \in strays

\* Who joins, and whose row is written but not committed.
Joiner(j) == request[j.by].of

JoinInv ==
    /\ DetachInv
    /\ customer \in [Customers -> Customer]
    /\ flushed \subseteq [by : Requests, found : SUBSET Customers]
    /\ strays \subseteq Customers
    /\ joined \subseteq People
    /\ \A u \in joined : Present(u) /\ user[u].team # None /\ Placed(u, {})
    /\ \A j \in flushed : /\ request[j.by].kind = "JOIN" /\ Present(Joiner(j))
                          /\ Placed(Joiner(j), j.found)

\* A step creates no customer of u without a team, and takes none from it.
LeavesPlaced(u) ==
    /\ \A f \in Customers : (customer'[f].here /\ customer'[f].by = u) =>
          \/ f \in CreatedBy(u) /\ customer'[f].team = customer[f].team
          \/ customer'[f].team # None \/ f \in strays'
          \/ \E r \in Requests : /\ request[r].kind = "CUSTOMER" /\ request[r].of = u
                                 /\ request[r].adds = f /\ customer'[f].team = request[r].team
    /\ \A r \in Requests :
          (request'[r].kind = "CUSTOMER" /\ request'[r].of = u) =>
              \/ request'[r] = request[r]
              \/ request'[r].team # None \/ request'[r].adds \in strays'

LEMMA StaysPlaced ==
    ASSUME NEW u, NEW found, Placed(u, found), LeavesPlaced(u), strays \subseteq strays'
    PROVE  Placed(u, found)'
  <1>1. \A f \in CreatedBy(u)' : customer'[f].team # None \/ f \in found \cup strays'
    BY DEF Placed, LeavesPlaced, CreatedBy
  <1>2. \A r \in Requests :
          (request'[r].kind = "CUSTOMER" /\ request'[r].of = u /\ request'[r].adds \in Customers)
              => request'[r].team # None \/ request'[r].adds \in strays'
    BY DEF Placed, LeavesPlaced
  <1> QED BY <1>1, <1>2 DEF Placed

Joining == joined \cup {Joiner(j) : j \in flushed}

\* Who joined or is joining keeps his account.
LEMMA StaysPresent ==
    ASSUME NEW u, Present(u), Typed, user'[u].role = user[u].role PROVE Present(u)'
  <1>1. user[u] \in User /\ u \in People
    BY PresentUser DEF Present
  <1> QED BY <1>1, Accounts DEF Present, User

\* The accounts keep their teams, and nobody joins who has not.
LEMMA StillJoined ==
    ASSUME JoinInv, DetachInv', customer' \in [Customers -> Customer],
           joined' \subseteq joined, flushed' \subseteq flushed,
           strays \subseteq strays', strays' \subseteq Customers,
           \A u \in joined' : user'[u].team = user[u].team /\ user'[u].role = user[u].role,
           \A j \in flushed' : /\ request'[j.by] = request[j.by]
                               /\ user'[Joiner(j)].role = user[Joiner(j)].role,
           \A u \in Joining : LeavesPlaced(u)
    PROVE  JoinInv'
  <1>1. Typed
    BY DEF JoinInv, DetachInv
  <1>2. ASSUME NEW u \in joined' PROVE Present(u)' /\ user'[u].team # None /\ Placed(u, {})'
    <2>1. Present(u) /\ user[u].team # None /\ Placed(u, {}) /\ LeavesPlaced(u)
      BY DEF JoinInv, Joining
    <2> QED BY <1>1, <2>1, StaysPresent, StaysPlaced
  <1>3. ASSUME NEW j \in flushed'
        PROVE  request'[j.by].kind = "JOIN" /\ Present(Joiner(j))' /\ Placed(Joiner(j), j.found)'
    <2>1. PICK w : w = Joiner(j)
      OBVIOUS
    <2>2. /\ request[j.by].kind = "JOIN" /\ Present(w) /\ Placed(w, j.found) /\ LeavesPlaced(w)
          /\ request'[j.by] = request[j.by] /\ user'[w].role = user[w].role
      BY <2>1 DEF JoinInv, Joining
    <2>3. Present(w)' /\ Placed(w, j.found)'
      BY <1>1, <2>2, StaysPresent, StaysPlaced
    <2>4. request'[j.by].of = w
      BY <2>1, <2>2 DEF Joiner
    <2> QED BY <2>2, <2>3, <2>4 DEF Joiner, Present, Placed, CreatedBy
  <1> QED BY <1>2, <1>3 DEF JoinInv

\* A person of a team creates for a team, one who is joining adds a stray.
LEMMA JoinBegins ==
    ASSUME JoinInv, NEW r \in Requests, BeginRequest(r) PROVE JoinInv'
  <1>1. DetachInv'
    BY Begins DEF JoinInv
  <1>2. JoinInv /\ DetachInv /\ Typed
    BY DEF JoinInv, DetachInv
  <1>3. SUFFICES \E q : /\ Load(r, q)
                        /\ strays \subseteq strays' /\ strays' \subseteq Customers
                        /\ \A u \in Joining : (q.kind = "CUSTOMER" /\ q.of = u) =>
                                              q.team # None \/ q.adds \in strays'
    <2>1. PICK q : /\ Load(r, q)
                   /\ strays \subseteq strays' /\ strays' \subseteq Customers
                   /\ \A u \in Joining : (q.kind = "CUSTOMER" /\ q.of = u) =>
                                         q.team # None \/ q.adds \in strays'
      BY <1>3
    <2>2. /\ UNCHANGED <<user, customer, joined, flushed>> /\ request'[r] = q
          /\ \A p \in Requests : p # r => request'[p] = request[p]
      BY <1>2, <2>1 DEF Load, Typed
    <2>3. request[r] = Idle
      BY DEF BeginRequest
    <2>4. \A j \in flushed : request'[j.by] = request[j.by]
      BY <1>2, <2>2, <2>3, IdleType DEF JoinInv
    <2>5. \A u \in Joining : LeavesPlaced(u)
      BY <2>1, <2>2 DEF LeavesPlaced, CreatedBy
    <2> QED BY <1>1, <1>2, <2>1, <2>2, <2>4, <2>5, StillJoined DEF JoinInv
  <1>4. ASSUME NEW q, Load(r, q), q.kind # "CUSTOMER", UNCHANGED strays
        PROVE  \E p : /\ Load(r, p)
                      /\ strays \subseteq strays' /\ strays' \subseteq Customers
                      /\ \A u \in Joining : (p.kind = "CUSTOMER" /\ p.of = u) =>
                                            p.team # None \/ p.adds \in strays'
    BY <1>2, <1>4 DEF JoinInv
  <1>5. CASE \E u \in People, t \in SomeTeam : \E role \in {"EMPLOYEE", "MANAGER"} : BeginHire(r, u, role, t)
    <2>1. PICK u \in People, t \in SomeTeam, role \in {"EMPLOYEE", "MANAGER"} : BeginHire(r, u, role, t)
      BY <1>5
    <2> DEFINE q == [Asked("HIRE", u, t) EXCEPT !.role = role]
    <2>2. Load(r, q) /\ q.kind = "HIRE" /\ UNCHANGED strays
      BY <2>1 DEF BeginHire, Asked, Idle
    <2> HIDE DEF q
    <2> QED BY <1>4, <2>2
  <1>6. CASE \E u \in People, t \in SomeTeam : BeginAssign(r, u, t)
    <2>1. PICK u \in People, t \in SomeTeam : BeginAssign(r, u, t)
      BY <1>6
    <2> DEFINE q == [Asked("ASSIGN", u, t) EXCEPT !.was = user[u].team]
    <2>2. Load(r, q) /\ q.kind = "ASSIGN" /\ UNCHANGED strays
      BY <2>1 DEF BeginAssign, Asked, Idle
    <2> HIDE DEF q
    <2> QED BY <1>4, <2>2
  <1>7. CASE \E u \in People, t \in Teams : BeginJoin(r, u, t) \/ BeginLeave(r, u, t)
    <2>1. PICK u \in People, t \in Teams : BeginJoin(r, u, t) \/ BeginLeave(r, u, t)
      BY <1>7
    <2>2. /\ UNCHANGED strays
          /\ \/ Load(r, Asked("JOIN", u, t)) /\ Asked("JOIN", u, t).kind = "JOIN"
             \/ Load(r, Asked("LEAVE", u, t)) /\ Asked("LEAVE", u, t).kind = "LEAVE"
      BY <2>1 DEF BeginJoin, BeginLeave, Asked, Idle
    <2> QED BY <1>4, <2>2
  <1>8. CASE \E t \in Teams : BeginDelete(r, t)
    <2>1. PICK t \in Teams : BeginDelete(r, t)
      BY <1>8
    <2> DEFINE q == [Asked("DELETE", None, t) EXCEPT !.members = Members(t)]
    <2>2. Load(r, q) /\ q.kind = "DELETE" /\ UNCHANGED strays
      BY <2>1 DEF BeginDelete, Asked, Idle
    <2> HIDE DEF q
    <2> QED BY <1>4, <2>2
  <1>9. CASE \E t \in Teams, u \in Somebody : BeginManage(r, t, u)
    <2>1. PICK t \in Teams, u \in Somebody : BeginManage(r, t, u)
      BY <1>9
    <2> DEFINE q == [Asked("MANAGE", u, t) EXCEPT !.was = team[t].manager]
    <2>2. Load(r, q) /\ q.kind = "MANAGE" /\ UNCHANGED strays
      BY <2>1 DEF BeginManage, Asked, Idle
    <2> HIDE DEF q
    <2> QED BY <1>4, <2>2
  <1>10. CASE \E u \in People, f \in Customers, t \in SomeTeam : BeginCustomer(r, u, f, t)
    <2>1. PICK u \in People, f \in Customers, t \in SomeTeam : BeginCustomer(r, u, f, t)
      BY <1>10
    <2> DEFINE q == [Asked("CUSTOMER", u, TeamFor(u, t)) EXCEPT !.adds = f]
    <2>2. Load(r, q) /\ q.of = u /\ q.team = TeamFor(u, t) /\ q.adds = f
      BY <2>1 DEF BeginCustomer, Asked, Idle
    <2>3. strays' = IF Locked(u) THEN strays \cup {f} ELSE strays
      BY <2>1 DEF BeginCustomer
    <2>4. u \in joined => TeamFor(u, t) # None
      BY DEF JoinInv, TeamFor
    <2>5. u \in Joining => u \in joined \/ Locked(u)
      BY DEF Joining, Joiner, Locked
    <2>6. u \in Joining => q.team # None \/ q.adds \in strays'
      BY <2>2, <2>3, <2>4, <2>5
    <2>7. strays \subseteq strays' /\ strays' \subseteq Customers
      BY <2>3 DEF JoinInv
    <2> HIDE DEF q
    <2> QED BY <2>2, <2>6, <2>7
  <1> QED BY <1>5, <1>6, <1>7, <1>8, <1>9, <1>10 DEF BeginRequest

\* The UPDATE of a join finds the customers without a team, and the strays are
\* those that it could not find.
LEMMA JoinAttaches ==
    ASSUME JoinInv, NEW r \in Requests, AttachCustomers(r) PROVE JoinInv'
  <1>1. DetachInv' /\ Typed
    BY Elsewhere DEF JoinInv, DetachInv, AttachCustomers
  <1>2. PICK w : w = request[r].of
    OBVIOUS
  <1>3. PICK found : found = {f \in CreatedBy(w) : customer[f].team = None}
    OBVIOUS
  <1>4. /\ request[r].kind = "JOIN" /\ Present(w)
        /\ flushed' = flushed \cup {[by |-> r, found |-> found]}
        /\ strays' = strays \cup BeingAdded(w)
        /\ UNCHANGED <<user, customer, request, joined>>
    BY <1>2, <1>3 DEF AttachCustomers
  <1>5. flushed' \subseteq [by : Requests, found : SUBSET Customers] /\ strays' \subseteq Customers
    BY <1>3, <1>4 DEF JoinInv, CreatedBy, BeingAdded
  <1>6. \A u : LeavesPlaced(u)
    BY <1>4 DEF LeavesPlaced, CreatedBy
  <1>7. \A u \in joined' : Present(u)' /\ user'[u].team # None /\ Placed(u, {})'
    BY <1>4, <1>6, StaysPlaced DEF JoinInv, Present
  <1>8. Placed(w, found)'
    BY <1>3, <1>4 DEF Placed, CreatedBy, BeingAdded
  <1>9. ASSUME NEW j \in flushed'
        PROVE  request'[j.by].kind = "JOIN" /\ Present(Joiner(j))' /\ Placed(Joiner(j), j.found)'
    <2>1. CASE j \in flushed
      <3>1. PICK v : v = Joiner(j)
        OBVIOUS
      <3>2. request[j.by].kind = "JOIN" /\ Present(v) /\ Placed(v, j.found)'
        BY <1>4, <1>6, <2>1, <3>1, StaysPlaced DEF JoinInv
      <3> QED BY <1>4, <3>1, <3>2 DEF Joiner, Present, Placed, CreatedBy
    <2>2. CASE j = [by |-> r, found |-> found]
      BY <1>2, <1>4, <1>8, <2>2 DEF Joiner, Present, Placed, CreatedBy
    <2> QED BY <1>4, <2>1, <2>2
  <1> QED BY <1>1, <1>4, <1>5, <1>7, <1>9 DEF JoinInv

LEMMA Joins ==
    ASSUME JoinInv, DetachInv', NEW r \in Requests, CommitJoin(r),
           NEW w, NEW t, w = request[r].of, t = request[r].team
    PROVE  JoinInv'
  <1>1. /\ JoinInv /\ DetachInv /\ Typed /\ joined \subseteq People
        /\ t \in Teams /\ t # None /\ Answer(r)
    BY StaffAssumption DEF JoinInv, DetachInv, Typed, CommitJoin, Formed
  <1>2. PICK j \in flushed :
          /\ j.by = r
          /\ customer' = [f \in Customers |-> IF f \in j.found
                             THEN [customer[f] EXCEPT !.team = t] ELSE customer[f]]
    BY DEF CommitJoin
  <1>3. /\ user' = MovedTo(w, t, FALSE) /\ joined' = joined \cup {w} /\ strays' = strays
        /\ flushed' = {k \in flushed : k.by # r}
    BY DEF CommitJoin, Answer
  <1>4. Present(w) /\ Placed(w, j.found)
    BY <1>2 DEF JoinInv, Joiner
  <1>5. user' = [user EXCEPT ![w] = [user[w] EXCEPT !.team = t]] /\ user[w] \in User /\ w \in People
    BY <1>1, <1>3, <1>4, PresentUser DEF MovedTo, Present
  <1>6. user'[w].team = t /\ user'[w].role = user[w].role
    BY <1>1, <1>5 DEF Typed, User
  <1>7. \A u \in People : u # w => user'[u] = user[u]
    BY <1>1, <1>5 DEF Typed
  <1>8. customer' \in [Customers -> Customer]
    <2>1. \A f \in Customers : [customer[f] EXCEPT !.team = t] \in Customer
      BY <1>1 DEF JoinInv, Customer, SomeTeam
    <2> QED BY <1>2, <2>1 DEF JoinInv
  <1>9. \A f \in Customers :
          /\ customer'[f].here = customer[f].here /\ customer'[f].by = customer[f].by
          /\ f \in j.found => customer'[f].team = t
          /\ f \notin j.found => customer'[f].team = customer[f].team
    BY <1>2 DEF JoinInv, Customer
  <1>10. \A p \in Requests : request'[p] \in {request[p], Idle} /\ (p # r => request'[p] = request[p])
    BY <1>1, Answered DEF Answer, Typed
  <1>11. \A u : LeavesPlaced(u)
    BY <1>1, <1>9, <1>10, IdleType DEF LeavesPlaced, CreatedBy
  <1>12. ASSUME NEW u \in joined PROVE Present(u)' /\ user'[u].team # None /\ Placed(u, {})'
    <2>1. Present(u) /\ user[u].team # None /\ Placed(u, {})
      BY <1>1 DEF JoinInv
    <2>2. user'[u].role = user[u].role /\ user'[u].team # None
      BY <1>1, <1>6, <1>7, <2>1
    <2> QED BY <1>1, <1>3, <1>11, <2>1, <2>2, StaysPresent, StaysPlaced
  <1>13. Present(w)' /\ user'[w].team # None /\ Placed(w, {})'
    <2>1. Placed(w, j.found)'
      BY <1>3, <1>4, <1>11, StaysPlaced
    <2>2. \A f \in CreatedBy(w)' : customer'[f].team # None \/ f \in {} \cup strays'
      BY <1>1, <1>9, <2>1 DEF Placed, CreatedBy
    <2>3. Placed(w, {})'
      BY <2>1, <2>2 DEF Placed
    <2> QED BY <1>1, <1>4, <1>6, <2>3, StaysPresent
  <1>14. ASSUME NEW k \in flushed'
         PROVE  request'[k.by].kind = "JOIN" /\ Present(Joiner(k))' /\ Placed(Joiner(k), k.found)'
    <2>1. PICK v : v = Joiner(k)
      OBVIOUS
    <2>2. k \in flushed /\ k.by # r /\ k.by \in Requests /\ request'[k.by] = request[k.by]
      BY <1>3, <1>10 DEF JoinInv
    <2>3. request[k.by].kind = "JOIN" /\ Present(v) /\ Placed(v, k.found) /\ v \in People
      BY <2>1, <2>2 DEF JoinInv, Present
    <2>4. user'[v].role = user[v].role
      BY <1>6, <1>7, <2>3
    <2>5. Present(v)' /\ Placed(v, k.found)'
      BY <1>1, <1>3, <1>11, <2>3, <2>4, StaysPresent, StaysPlaced
    <2>6. request'[k.by].of = v
      BY <2>1, <2>2 DEF Joiner
    <2> QED BY <2>2, <2>3, <2>5, <2>6 DEF Joiner, Present, Placed, CreatedBy
  <1>15. joined' \subseteq People /\ flushed' \subseteq [by : Requests, found : SUBSET Customers]
    BY <1>1, <1>3, <1>5 DEF JoinInv
  <1> QED BY <1>3, <1>8, <1>12, <1>13, <1>14, <1>15 DEF JoinInv

LEMMA JoinCarries ==
    ASSUME JoinInv, NEW r \in Requests, Commit(r) PROVE JoinInv'
  <1>1. DetachInv'
    BY Carries DEF JoinInv
  <1>2. JoinInv /\ DetachInv /\ Typed /\ request[r] \in Request /\ joined \subseteq People
    BY DEF JoinInv, DetachInv, Typed
  <1>3. Answer(r)
    BY DEF Commit, CommitHire, CommitAssign, CommitJoin, CommitDelete, CommitManage,
           CommitCustomer, FailRequest
  <1>4. \A p \in Requests : request'[p] \in {request[p], Idle} /\ (p # r => request'[p] = request[p])
    BY <1>2, <1>3, Answered DEF Answer, Typed
  <1>5. flushed' \subseteq flushed /\ \A j \in flushed' : request'[j.by] = request[j.by]
    BY <1>3, <1>4 DEF Answer, JoinInv
  <1>6. ASSUME UNCHANGED customer PROVE \A u \in Joining : LeavesPlaced(u)
    BY <1>4, <1>6, IdleType DEF LeavesPlaced, CreatedBy
  <1>7. \A u \in joined : u \in People /\ Present(u)
    BY <1>2 DEF JoinInv
  <1>8. \A j \in flushed : Joiner(j) \in People /\ Present(Joiner(j))
    BY DEF JoinInv, Present
  \* Nobody's row changes but for his team, and for that he is not joined.
  <1>9. ASSUME UNCHANGED <<customer, strays>>, joined' \subseteq joined,
               \A u \in People : Present(u) =>
                   user'[u].role = user[u].role /\ (u \in joined' => user'[u] = user[u])
        PROVE  JoinInv'
    BY <1>1, <1>2, <1>5, <1>6, <1>7, <1>8, <1>9, StillJoined DEF JoinInv
  <1>10. CASE CommitHire(r)
    <2>1. UNCHANGED <<customer, strays, joined>>
      BY <1>10 DEF CommitHire
    <2>2. \A u \in People : Present(u) => user'[u] = user[u]
      BY <1>2, <1>10 DEF CommitHire, Typed, Present
    <2> QED BY <1>9, <2>1, <2>2
  <1>11. CASE CommitAssign(r)
    <2>1. UNCHANGED <<customer, strays>> /\ joined' \subseteq joined
      BY <1>11 DEF CommitAssign
    <2> DEFINE q == request[r]
               to == IF q.kind = "LEAVE" THEN None ELSE q.team
               keep == q.kind = "ASSIGN" /\ q.was = q.team
    <2>2. user' = MovedTo(q.of, to, keep) /\ to \in SomeTeam
          /\ joined' = IF keep THEN joined ELSE joined \ {q.of}
      BY <1>2, <1>11 DEF CommitAssign, Request, SomeTeam
    <2>3. \A u \in People : Present(u) => user'[u].role = user[u].role
      BY <1>2, <2>2, PresentUser DEF MovedTo, Typed, User
    <2>4. \A u \in People : u \in joined' => user'[u] = user[u]
      BY <1>2, <2>2 DEF MovedTo, Typed
    <2> QED BY <1>9, <2>1, <2>3, <2>4
  <1>12. CASE CommitJoin(r)
    BY <1>1, <1>12, Joins
  <1>13. CASE CommitDelete(r)
    <2>1. UNCHANGED <<customer, strays>> /\ joined' \subseteq joined
      BY <1>13 DEF CommitDelete
    <2>2. \A u \in People : u \in joined' => user'[u] = user[u]
      BY <1>2, <1>13 DEF CommitDelete
    <2>3. \A u \in People : Present(u) => user'[u].role = user[u].role
      BY <1>2, <1>13, PresentUser DEF CommitDelete, User
    <2> QED BY <1>9, <2>1, <2>2, <2>3
  <1>14. CASE CommitManage(r) \/ FailRequest(r)
    <2>1. UNCHANGED <<user, customer, strays, joined>>
      BY <1>14 DEF CommitManage, FailRequest
    <2> QED BY <1>9, <2>1
  <1>15. CASE CommitCustomer(r)
    <2> DEFINE q == request[r]
               c == [here |-> TRUE, team |-> q.team, by |-> q.of, lead |-> None]
    <2>1. UNCHANGED <<user, joined, strays>> /\ q.kind = "CUSTOMER"
      BY <1>15 DEF CommitCustomer
    <2>2. customer' \in {customer, [customer EXCEPT ![q.adds] = c]}
      BY <1>15 DEF CommitCustomer
    <2>3. c \in Customer
      BY <1>2 DEF Request, Customer, Somebody
    <2>4. customer' \in [Customers -> Customer]
      BY <2>2, <2>3 DEF JoinInv
    <2>5. /\ c.by = q.of /\ c.team = q.team
          /\ \A f \in Customers : customer'[f] = customer[f] \/ (f = q.adds /\ customer'[f] = c)
      BY <2>2 DEF JoinInv
    <2> HIDE DEF c
    <2>6. \A u \in Joining : LeavesPlaced(u)
      BY <1>4, <2>1, <2>5, IdleType DEF LeavesPlaced, CreatedBy
    <2> QED BY <1>1, <1>2, <1>5, <2>1, <2>4, <2>6, StillJoined DEF JoinInv
  <1> QED BY <1>10, <1>11, <1>12, <1>13, <1>14, <1>15 DEF Commit

LEMMA JoinElsewhere ==
    ASSUME JoinInv, DetachInv', UNCHANGED <<user, customer, request, joins>> PROVE JoinInv'
  <1>1. UNCHANGED <<flushed, joined, strays>>
    BY DEF joins
  <1>2. \A u \in Joining : LeavesPlaced(u)
    BY DEF LeavesPlaced, CreatedBy
  <1> QED BY <1>1, <1>2, StillJoined DEF JoinInv

LEMMA JoinStatements ==
    ASSUME JoinInv, DetachInv', Change,
           \/ \E t \in Teams, u \in Somebody : Found(t, u)
           \/ \E u \in People, active \in BOOLEAN : SetStatus(u, active)
           \/ \E u \in People, role \in {"EMPLOYEE", "MANAGER"} : SetRole(u, role)
           \/ \E u \in People : DeleteEmployee(u)
           \/ \E u \in People, f \in Customers : RecordLead(u, f)
           \/ \E f \in Customers, t \in SomeTeam : MoveCustomer(f, t) \/ ImportCustomer(f, t)
    PROVE  JoinInv'
  <1>1. /\ JoinInv /\ DetachInv /\ Typed /\ joined \subseteq People
        /\ customer \in [Customers -> Customer] /\ UNCHANGED <<request, flushed>>
    BY DEF JoinInv, DetachInv, Change
  <1>2. \A j \in flushed : Joiner(j) \in People /\ Locked(Joiner(j)) /\ Present(Joiner(j))
    BY DEF JoinInv, Present, Locked, Joiner
  <1>3. \A u \in joined : u \in People /\ Present(u)
    BY <1>1 DEF JoinInv
  \* The row of somebody who is not joining is written.
  <1>4. ASSUME NEW u \in People, UNCHANGED <<customer, strays>>, joined' \subseteq joined, ~Locked(u),
               user'[u].team = user[u].team \/ u \notin joined', Present(u)' \/ u \notin joined',
               \A v \in People : v # u => user'[v] = user[v]
        PROVE  JoinInv'
    <2>1. \A v : LeavesPlaced(v)
      BY <1>1, <1>4 DEF LeavesPlaced, CreatedBy
    <2>2. \A v \in joined' : Present(v)' /\ user'[v].team # None /\ Placed(v, {})'
      BY <1>1, <1>3, <1>4, <2>1, StaysPlaced DEF JoinInv, Present
    <2>3. ASSUME NEW j \in flushed'
          PROVE  request'[j.by].kind = "JOIN" /\ Present(Joiner(j))' /\ Placed(Joiner(j), j.found)'
      <3>1. PICK w : w = Joiner(j)
        OBVIOUS
      <3>2. /\ request[j.by].kind = "JOIN" /\ Present(w) /\ Placed(w, j.found)
            /\ w \in People /\ Locked(w)
        BY <1>1, <1>2, <3>1 DEF JoinInv
      <3>3. Present(w)' /\ Placed(w, j.found)'
        BY <1>4, <2>1, <3>2, StaysPlaced DEF Present
      <3> QED BY <1>1, <3>1, <3>2, <3>3 DEF Joiner, Present, Placed, CreatedBy
    <2> QED BY <1>1, <1>4, <2>2, <2>3 DEF JoinInv
  <1>5. ASSUME NEW t \in Teams, NEW u \in Somebody, Found(t, u) PROVE JoinInv'
    BY <1>1, <1>5, JoinElsewhere DEF Found, joins
  <1>6. ASSUME NEW u \in People, NEW active \in BOOLEAN, SetStatus(u, active) PROVE JoinInv'
    <2>1. /\ UNCHANGED <<customer, strays, joined>> /\ ~Locked(u) /\ Present(u) /\ user[u] \in User
          /\ user' = [user EXCEPT ![u].active = active]
      BY <1>1, <1>6, PresentUser DEF SetStatus
    <2>2. /\ user'[u].team = user[u].team /\ user'[u].role = user[u].role
          /\ \A v \in People : v # u => user'[v] = user[v]
      BY <1>1, <2>1 DEF Typed, User
    <2> QED BY <1>1, <1>4, <2>1, <2>2, StaysPresent
  <1>7. ASSUME NEW u \in People, NEW role \in {"EMPLOYEE", "MANAGER"}, SetRole(u, role)
        PROVE  JoinInv'
    <2>1. /\ UNCHANGED <<customer, strays, joined>> /\ ~Locked(u) /\ Present(u) /\ user[u] \in User
          /\ user' = [user EXCEPT ![u].role = role]
      BY <1>1, <1>7, PresentUser DEF SetRole
    <2>2. /\ user'[u].team = user[u].team /\ user'[u].role = role
          /\ \A v \in People : v # u => user'[v] = user[v]
      BY <1>1, <2>1 DEF Typed, User
    <2>3. Present(u)'
      BY <2>2, Accounts DEF Present
    <2> QED BY <1>4, <2>1, <2>2, <2>3
  <1>8. ASSUME NEW u \in People, DeleteEmployee(u) PROVE JoinInv'
    <2>1. /\ UNCHANGED <<customer, strays>> /\ joined' = joined \ {u} /\ ~Locked(u)
          /\ user' = [user EXCEPT ![u] = Gone]
      BY <1>8 DEF DeleteEmployee
    <2>2. \A v \in People : v # u => user'[v] = user[v]
      BY <1>1, <2>1 DEF Typed
    <2> QED BY <1>4, <2>1, <2>2
  \* The row of a customer is written.
  <1>9. ASSUME NEW f \in Customers, NEW c \in Customer, customer' = [customer EXCEPT ![f] = c],
               UNCHANGED <<user, joined>>, strays \subseteq strays', strays' \subseteq Customers,
               \/ c.team # None \/ f \in strays'
               \/ customer[f].here /\ c.by = customer[f].by /\ c.team = customer[f].team
               \/ c.by = None
        PROVE  JoinInv'
    <2>1. None \notin Joining
      BY <1>2, <1>3, StaffAssumption DEF Joining
    <2>2. \A g \in Customers : customer'[g] = IF g = f THEN c ELSE customer[g]
      BY <1>1, <1>9
    <2>3. \A u \in Joining : LeavesPlaced(u)
      BY <1>1, <1>9, <2>1, <2>2 DEF LeavesPlaced, CreatedBy
    <2>4. customer' \in [Customers -> Customer]
      BY <1>1, <1>9
    <2> QED BY <1>1, <1>9, <2>3, <2>4, StillJoined
  <1>10. ASSUME NEW u \in People, NEW f \in Customers, RecordLead(u, f) PROVE JoinInv'
    <2> DEFINE c == [customer[f] EXCEPT !.lead = u]
    <2>1. /\ c \in Customer /\ c.by = customer[f].by /\ c.team = customer[f].team
          /\ customer' = [customer EXCEPT ![f] = c]
          /\ customer[f].here /\ UNCHANGED <<user, joined, strays>>
      BY <1>1, <1>10 DEF RecordLead, Customer, Somebody
    <2>2. strays' \subseteq Customers
      BY <2>1 DEF JoinInv
    <2> HIDE DEF c
    <2> QED BY <1>9, <2>1, <2>2
  <1>11. ASSUME NEW f \in Customers, NEW t \in SomeTeam, MoveCustomer(f, t) PROVE JoinInv'
    <2> DEFINE c == [customer[f] EXCEPT !.team = t]
    <2>1. /\ c \in Customer /\ c.team = t
          /\ customer' = [customer EXCEPT ![f] = c]
          /\ UNCHANGED <<user, joined>>
      BY <1>1, <1>11 DEF MoveCustomer, Customer
    <2>2. strays' = IF t = None THEN strays \cup {f} ELSE strays
      BY <1>11 DEF MoveCustomer
    <2>3. strays' \subseteq Customers /\ strays \subseteq strays' /\ (t = None => f \in strays')
      BY <2>2 DEF JoinInv
    <2> HIDE DEF c
    <2> QED BY <1>9, <2>1, <2>3
  <1>12. ASSUME NEW f \in Customers, NEW t \in SomeTeam, ImportCustomer(f, t) PROVE JoinInv'
    <2> DEFINE c == [here |-> TRUE, team |-> t, by |-> None, lead |-> None]
    <2>1. /\ c \in Customer /\ c.by = None /\ UNCHANGED <<user, joined, strays>>
          /\ customer' = [customer EXCEPT ![f] = c]
      BY <1>12 DEF ImportCustomer, Customer, Somebody
    <2>2. strays' \subseteq Customers
      BY <2>1 DEF JoinInv
    <2> HIDE DEF c
    <2> QED BY <1>9, <2>1, <2>2
  <1> QED BY <1>5, <1>6, <1>7, <1>8, <1>10, <1>11, <1>12

LEMMA JoinSteps == ASSUME JoinInv, StaffNext PROVE JoinInv'
  <1>1. DetachInv'
    BY StaffSteps DEF JoinInv
  <1>2. ASSUME NEW r \in Requests, BeginRequest(r) \/ AttachCustomers(r) \/ Commit(r)
        PROVE  JoinInv'
    BY <1>2, JoinBegins, JoinAttaches, JoinCarries
  <1>3. CASE \E r \in Requests : BeginRequest(r) \/ AttachCustomers(r) \/ Commit(r)
    BY <1>2, <1>3
  <1>4. CASE \E t \in Teams, u \in Somebody : Found(t, u)
    BY <1>1, <1>4, JoinStatements DEF Found
  <1>5. CASE \E u \in People, active \in BOOLEAN : SetStatus(u, active)
    BY <1>1, <1>5, JoinStatements DEF SetStatus
  <1>6. CASE \E u \in People, role \in {"EMPLOYEE", "MANAGER"} : SetRole(u, role)
    BY <1>1, <1>6, JoinStatements DEF SetRole
  <1>7. CASE \E u \in People : DeleteEmployee(u)
    BY <1>1, <1>7, JoinStatements DEF DeleteEmployee
  <1>8. CASE \E u \in People, f \in Customers : RecordLead(u, f)
    BY <1>1, <1>8, JoinStatements DEF RecordLead
  <1>9. CASE \E f \in Customers, t \in SomeTeam : MoveCustomer(f, t) \/ ImportCustomer(f, t)
    BY <1>1, <1>9, JoinStatements DEF MoveCustomer, ImportCustomer
  <1> QED BY <1>3, <1>4, <1>5, <1>6, <1>7, <1>8, <1>9 DEF StaffNext

LEMMA JoinStep == ASSUME JoinInv, [ReportsNext]_backOffice PROVE JoinInv'
  <1>1. DetachInv'
    BY Step DEF JoinInv
  <1>2. CASE StaffNext
    BY <1>2, JoinSteps
  <1>3. CASE Untouched
    BY <1>1, <1>3, JoinElsewhere DEF Untouched
  <1> QED BY <1>2, <1>3, StaffMoves

\* What is listed to somebody he may open and work on, and nobody who joined a
\* team through its page (TeamService.add_member) has left a customer behind but
\* one that was being added meanwhile, however requests interleave.
THEOREM ListedIsAllowed == Spec => []OfferedIsAllowed
  <1>1. Init => JoinInv
    BY Starts, StaffAssumption DEF Init, StaffInit, JoinInv
  <1>2. JoinInv /\ [ReportsNext]_backOffice => JoinInv'
    BY JoinStep
  <1>3. JoinInv => OfferedIsAllowed
    BY ListsFollowScopes DEF JoinInv, Placed, OfferedIsAllowed
  <1> QED BY <1>1, <1>2, <1>3, PTL DEF Spec

-----------------------------------------------------------------------------
(* What the events of a person tell                                         *)

Below == {ss \in Nat \X Nat : ss[1] < ss[2]}

LEMMA BelowIsWellFounded == IsWellFoundedOn(Below, Nat)
  BY NatLessThanWellFounded DEF OpToRel, Below

LEMMA Least == ASSUME NEW T, T \subseteq Nat, T # {} PROVE \E x \in T : \A y \in T : x <= y
  <1>1. PICK x \in T : \A y \in T : ~ (<<y, x>> \in Below)
    BY BelowIsWellFounded, WFMin
  <1>2. \A y \in T : ~ (y < x)
    BY <1>1 DEF Below
  <1> QED BY <1>2

LEMMA Greatest ==
    ASSUME NEW n \in Nat, NEW T, T \subseteq 1..n, T # {} PROVE \E x \in T : \A y \in T : y <= x
  <1> DEFINE U == {n - x : x \in T}
  <1>1. U \subseteq Nat /\ U # {}
    OBVIOUS
  <1> HIDE DEF U
  <1>2. PICK u \in U : \A v \in U : u <= v
    BY <1>1, Least
  <1>3. PICK x \in T : u = n - x
    BY DEF U
  <1>4. ASSUME NEW y \in T PROVE y <= x
    <2>1. n - y \in U
      BY DEF U
    <2>2. n - x <= n - y /\ x \in 1..n /\ y \in 1..n
      BY <2>1, <1>2, <1>3
    <2> QED BY <2>2
  <1> QED BY <1>4

Event == [zone : Zone, type : {"ENTER", "EXIT"}]

\* The last event of a zone tells whether it lists the person as inside.
LEMMA InsideIs ==
    ASSUME NEW es \in Seq(Event), NEW z \in Zone
    PROVE  CurrentlyInside(es, z) <=>
              \E i \in DOMAIN es : /\ es[i].zone = z /\ es[i].type = "ENTER"
                                   /\ \A j \in DOMAIN es : es[j].zone = z => j <= i
  <1> DEFINE of == At(es, z, "ENTER") \cup At(es, z, "EXIT")
  <1>1. DOMAIN es = 1..Len(es) /\ Len(es) \in Nat /\ \A i \in DOMAIN es : es[i] \in Event
    OBVIOUS
  <1>2. of = {i \in DOMAIN es : es[i].zone = z}
    BY <1>1 DEF At, Event
  <1> HIDE DEF of
  <1>3. CASE of = {}
    BY <1>2, <1>3 DEF CurrentlyInside, of
  <1>4. CASE of # {}
    <2>1. PICK i \in of : \A j \in of : j <= i
      BY <1>1, <1>2, <1>4, Greatest
    <2>2. LastOf(of) = i
      <3>1. \A k \in of : (\A j \in of : j <= k) => k = i
        BY <2>1, <1>1, <1>2
      <3> QED BY <2>1, <3>1 DEF LastOf
    <2>3. CurrentlyInside(es, z) <=> es[i].type = "ENTER"
      BY <1>4, <2>2 DEF CurrentlyInside, of
    <2>4. \A k \in DOMAIN es : es[k].zone = z /\ (\A j \in DOMAIN es : es[j].zone = z => j <= k) => k = i
      BY <2>1, <1>1, <1>2
    <2> QED BY <2>1, <2>3, <2>4, <1>2
  <1> QED BY <1>3, <1>4

\* What is written changes the zones it is about, and no other.
LEMMA AfterEvents ==
    ASSUME NEW es \in Seq(Event), NEW cs \in Seq(Event), NEW z \in Zone
    PROVE  /\ \A k \in DOMAIN cs :
                 cs[k].zone = z /\ (\A j \in DOMAIN cs : cs[j].zone = z => j = k) =>
                    (CurrentlyInside(es \o cs, z) <=> cs[k].type = "ENTER")
           /\ (\A k \in DOMAIN cs : cs[k].zone # z) =>
                 (CurrentlyInside(es \o cs, z) <=> CurrentlyInside(es, z))
  <1> DEFINE all == es \o cs
             m == Len(es)
             n == Len(cs)
  <1>1. /\ m \in Nat /\ n \in Nat /\ DOMAIN es = 1..m /\ DOMAIN cs = 1..n
        /\ all \in Seq(Event) /\ DOMAIN all = 1..(m + n)
        /\ \A i \in 1..m : all[i] = es[i]
        /\ \A i \in 1..n : all[m + i] = cs[i]
    OBVIOUS
  <1>2. \A i \in DOMAIN all : i \in 1..m \/ \E k \in 1..n : i = m + k
    <2>1. ASSUME NEW i \in 1..(m + n), i \notin 1..m PROVE i - m \in 1..n /\ i = m + (i - m)
      BY <2>1, <1>1
    <2> QED BY <2>1, <1>1
  <1>3. CurrentlyInside(all, z) <=>
           \E i \in DOMAIN all : /\ all[i].zone = z /\ all[i].type = "ENTER"
                                 /\ \A j \in DOMAIN all : all[j].zone = z => j <= i
    BY <1>1, InsideIs
  <1> HIDE DEF all, m, n
  <1>4. ASSUME NEW k \in 1..n, cs[k].zone = z, \A j \in 1..n : cs[j].zone = z => j = k
        PROVE  CurrentlyInside(all, z) <=> cs[k].type = "ENTER"
    <2>1. m + k \in DOMAIN all /\ all[m + k] = cs[k]
      BY <1>1
    <2>2. \A j \in DOMAIN all : all[j].zone = z => j <= m + k
      <3>1. ASSUME NEW j \in DOMAIN all, all[j].zone = z PROVE j <= m + k
        <4>1. CASE j \in 1..m
          BY <4>1, <1>1
        <4>2. ASSUME NEW i \in 1..n, j = m + i PROVE j <= m + k
          <5>1. cs[i].zone = z
            BY <3>1, <4>2, <1>1
          <5>2. i = k
            BY <5>1, <1>4
          <5> QED BY <4>2, <5>2, <1>1
        <4> QED BY <4>1, <4>2, <1>2
      <3> QED BY <3>1
    <2>3. \A i \in DOMAIN all : all[i].zone = z /\ (\A j \in DOMAIN all : all[j].zone = z => j <= i) => i = m + k
      <3>1. ASSUME NEW i \in DOMAIN all, all[i].zone = z,
                   \A j \in DOMAIN all : all[j].zone = z => j <= i
            PROVE  i = m + k
        <4>1. i <= m + k /\ m + k <= i
          BY <3>1, <2>1, <2>2, <1>4
        <4>2. i \in Nat /\ m + k \in Nat
          BY <1>1, <2>1
        <4> QED BY <4>1, <4>2
      <3> QED BY <3>1
    <2> QED BY <2>1, <2>2, <2>3, <1>3, <1>4
  <1>5. ASSUME \A k \in 1..n : cs[k].zone # z
        PROVE  CurrentlyInside(all, z) <=> CurrentlyInside(es, z)
    <2>1. \A i \in DOMAIN all : all[i].zone = z => i \in 1..m /\ all[i] = es[i]
      BY <1>1, <1>2, <1>5
    <2>2. 1..m \subseteq DOMAIN all
      BY <1>1
    <2>3. (\E i \in DOMAIN all : /\ all[i].zone = z /\ all[i].type = "ENTER"
                                 /\ \A j \in DOMAIN all : all[j].zone = z => j <= i)
          <=> \E i \in DOMAIN es : /\ es[i].zone = z /\ es[i].type = "ENTER"
                                   /\ \A j \in DOMAIN es : es[j].zone = z => j <= i
      BY <2>1, <2>2, <1>1
    <2> QED BY <2>3, <1>3, InsideIs
  <1> QED BY <1>4, <1>5, <1>1 DEF all

\* The set of zones becomes events, each zone once.
Written(zs, type) == [i \in 1..Cardinality(zs) |-> [zone |-> SetToSeq(zs)[i], type |-> type]]

LEMMA SequenceOfSet ==
    ASSUME NEW S, IsFiniteSet(S)
    PROVE  /\ SetToSeq(S) \in [1..Cardinality(S) -> S] /\ Cardinality(S) \in Nat
           /\ \A x \in S : \E i \in 1..Cardinality(S) : SetToSeq(S)[i] = x
           /\ \A i, j \in 1..Cardinality(S) : SetToSeq(S)[i] = SetToSeq(S)[j] => i = j
  <1> DEFINE n == Cardinality(S)
             f == SetToSeq(S)
  <1>1. n \in Nat /\ ExistsBijection(1..n, S)
    BY FS_CardinalityType
  <1>2. \E g \in [1..n -> S] : IsInjective(g)
    BY <1>1 DEF ExistsBijection, Bijection, Injection
  <1>3. f \in [1..n -> S] /\ IsInjective(f)
    BY <1>2 DEF SetToSeq
  <1> HIDE DEF f, n
  <1>4. f \in Injection(1..n, S)
    BY <1>3 DEF Injection
  <1>5. Cardinality(1..n) = n
    BY <1>1, FS_Interval
  <1>6. f \in Surjection(1..n, S)
    BY <1>4, <1>5, FS_Injection DEF n
  <1> QED BY <1>1, <1>3, <1>6 DEF Surjection, IsInjective, f, n

LEMMA WrittenEvents ==
    ASSUME NEW zs \in SUBSET Zone, NEW type \in {"ENTER", "EXIT"}
    PROVE  /\ Written(zs, type) \in Seq(Event)
           /\ \A i \in DOMAIN Written(zs, type) : Written(zs, type)[i].type = type
                                                  /\ Written(zs, type)[i].zone \in zs
           /\ \A z \in zs : \E i \in DOMAIN Written(zs, type) : Written(zs, type)[i].zone = z
           /\ \A i, j \in DOMAIN Written(zs, type) :
                 Written(zs, type)[i].zone = Written(zs, type)[j].zone => i = j
  <1> DEFINE f == SetToSeq(zs)
             n == Cardinality(zs)
  <1>1. IsFiniteSet(zs)
    BY ZonesAssumption, FS_Subset
  <1>2. /\ f \in [1..n -> zs] /\ n \in Nat
        /\ \A x \in zs : \E i \in 1..n : f[i] = x
        /\ \A i, j \in 1..n : f[i] = f[j] => i = j
    BY <1>1, SequenceOfSet
  <1>3. Written(zs, type) = [i \in 1..n |-> [zone |-> f[i], type |-> type]]
    BY DEF Written
  <1> HIDE DEF f, n
  <1>4. \A i \in 1..n : [zone |-> f[i], type |-> type] \in Event
    BY <1>2 DEF Event
  <1>5. [i \in 1..n |-> [zone |-> f[i], type |-> type]] \in Seq(Event)
    BY <1>2, <1>4
  <1> QED BY <1>2, <1>3, <1>5

LEMMA AfterWritten ==
    ASSUME NEW es \in Seq(Event), NEW zs \in SUBSET Zone, NEW type \in {"ENTER", "EXIT"}, NEW z \in Zone
    PROVE  CurrentlyInside(es \o Written(zs, type), z) <=>
              IF z \in zs THEN type = "ENTER" ELSE CurrentlyInside(es, z)
  <1>1. PICK cs \in Seq(Event) : cs = Written(zs, type)
    BY WrittenEvents
  <1>2. CASE z \in zs
    <2>1. PICK k \in DOMAIN cs : cs[k].zone = z
      BY <1>1, <1>2, WrittenEvents
    <2>2. cs[k].type = type /\ \A j \in DOMAIN cs : cs[j].zone = z => j = k
      BY <2>1, <1>1, WrittenEvents
    <2> QED BY <2>1, <2>2, <1>1, <1>2, AfterEvents
  <1>3. CASE z \notin zs
    <2>1. \A k \in DOMAIN cs : cs[k].zone # z
      BY <1>1, <1>3, WrittenEvents
    <2> QED BY <2>1, <1>1, <1>3, AfterEvents
  <1> QED BY <1>2, <1>3

LEMMA Appended ==
    ASSUME NEW a \in Seq(Event), NEW b \in Seq(Event), NEW c \in Seq(Event)
    PROVE  a \o (b \o c) = (a \o b) \o c /\ a \o b \in Seq(Event) /\ b \o c \in Seq(Event)
  <1>1. a \o b \in Seq(Event) /\ b \o c \in Seq(Event)
    OBVIOUS
  <1>2. (a \o b) \o c = a \o (b \o c)
    <2> DEFINE l == (a \o b) \o c
               r == a \o (b \o c)
    <2>1. l \in Seq(Event) /\ r \in Seq(Event) /\ Len(l) = Len(r)
      BY <1>1
    <2>2. \A i \in 1..Len(l) : l[i] = r[i]
      BY <1>1
    <2> HIDE DEF l, r
    <2>3. l = r
      BY <2>1, <2>2, SeqEqual
    <2> QED BY <2>3 DEF l, r
  <1> QED BY <1>1, <1>2

\* From one set of zones to another: what is written makes the events tell it.
Crossed(was, now) == Written(now \ was, "ENTER") \o Written(was \ now, "EXIT")

LEMMA CrossingsTell ==
    ASSUME NEW es \in Seq(Event), NEW was \in SUBSET Zone, NEW now \in SUBSET Zone
    PROVE  /\ es \o Crossed(was, now) \in Seq(Event) /\ (Crossed(was, now) = <<>> => now = was)
           /\ \A z \in Zone : CurrentlyInside(es \o Crossed(was, now), z) <=>
                 z \in now \ was \/ (z \notin was \ now /\ CurrentlyInside(es, z))
  <1>0. PICK cs : cs = Crossed(was, now)
    OBVIOUS
  <1>1. PICK enters \in Seq(Event) : enters = Written(now \ was, "ENTER")
    BY WrittenEvents
  <1>2. PICK exits \in Seq(Event) : exits = Written(was \ now, "EXIT")
    BY WrittenEvents
  <1>3. es \o cs = (es \o enters) \o exits /\ es \o enters \in Seq(Event) /\ cs \in Seq(Event)
    <2>1. es \o (enters \o exits) = (es \o enters) \o exits
      BY Appended
    <2>2. cs = enters \o exits
      BY <1>0, <1>1, <1>2 DEF Crossed
    <2>3. es \o enters \in Seq(Event) /\ enters \o exits \in Seq(Event)
      OBVIOUS
    <2> QED BY <2>1, <2>2, <2>3
  <1>4. \A z \in Zone : CurrentlyInside(es \o enters, z) <=> z \in now \ was \/ CurrentlyInside(es, z)
    BY <1>1, AfterWritten
  <1>5. \A z \in Zone : CurrentlyInside(es \o cs, z) <=> z \notin was \ now /\ CurrentlyInside(es \o enters, z)
    BY <1>2, <1>3, AfterWritten
  <1>6. ASSUME cs = <<>> PROVE now = was
    <2>1. enters = <<>> /\ exits = <<>>
      <3>1. enters \o exits = <<>>
        BY <1>0, <1>1, <1>2, <1>6 DEF Crossed
      <3>2. Len(enters) \in Nat /\ Len(exits) \in Nat /\ Len(enters \o exits) = Len(enters) + Len(exits)
        OBVIOUS
      <3>3. Len(enters) = 0 /\ Len(exits) = 0
        BY <3>1, <3>2
      <3> QED BY <3>3
    <2>2. DOMAIN enters = {} /\ DOMAIN exits = {}
      BY <2>1
    <2>3. \A z \in now \ was : \E i \in DOMAIN enters : enters[i].zone = z
      <3>1. now \ was \in SUBSET Zone
        OBVIOUS
      <3>2. \A z \in now \ was : \E i \in DOMAIN Written(now \ was, "ENTER") :
                                  Written(now \ was, "ENTER")[i].zone = z
        BY <3>1, WrittenEvents, Zenon
      <3> QED BY <1>1, <3>2
    <2>4. \A z \in was \ now : \E i \in DOMAIN exits : exits[i].zone = z
      <3>1. was \ now \in SUBSET Zone
        OBVIOUS
      <3>2. \A z \in was \ now : \E i \in DOMAIN Written(was \ now, "EXIT") :
                                  Written(was \ now, "EXIT")[i].zone = z
        BY <3>1, WrittenEvents, Zenon
      <3> QED BY <1>2, <3>2
    <2>5. now \ was = {} /\ was \ now = {}
      BY <2>2, <2>3, <2>4
    <2> QED BY <2>5
  <1>7. es \o cs \in Seq(Event)
    BY <1>3
  <1>8. ASSUME NEW z \in Zone
        PROVE  CurrentlyInside(es \o cs, z) <=> z \in now \ was \/ (z \notin was \ now /\ CurrentlyInside(es, z))
    <2>1. CurrentlyInside(es \o cs, z) <=> z \notin was \ now /\ CurrentlyInside(es \o enters, z)
      BY <1>5
    <2>2. CurrentlyInside(es \o enters, z) <=> z \in now \ was \/ CurrentlyInside(es, z)
      BY <1>4
    <2> QED BY <2>1, <2>2
  <1>9. cs = <<>> => now = was
    BY <1>6
  <1> QED BY <1>0, <1>7, <1>8, <1>9

-----------------------------------------------------------------------------
(* Where people are, and what is told of it                                 *)

ZonesTyped ==
    /\ ZonesTypeOK /\ events \in [People -> Seq(Event)]
    /\ \A s \in Uploads : upload[s].stage # "IDLE" => upload[s].of \in People

\* The zones that list a person as inside.
Inside(u) == {z \in Zone : CurrentlyInside(events[u], z)}

\* One upload of a person at a time: the events tell the position that it was
\* compared with, which is the newest until the upload is stored.
Told(u) ==
    /\ \A s, t \in InFlight(u) : s = t
    /\ InFlight(u) = {} => Inside(u) = latest[u].at \cap Relevant(u)
    /\ \A s \in InFlight(u) :
          /\ upload[s].stage = "READ" => upload[s].prev = latest[u]
          /\ upload[s].stage = "STORED" => upload[s].new = latest[u]
          /\ Inside(u) = upload[s].prev.at \cap Relevant(u)

Clear(u) == user[u] # Gone /\ u \notin blurred
PresenceIsKnown == \A u \in People : Clear(u) => Told(u)

PresenceInv == DetachInv /\ ZonesTyped /\ PresenceIsKnown

LEMMA ZonesStart == ASSUME Init PROVE ZonesTyped /\ PresenceIsKnown
  <1>1. Nowhere \in Position /\ NoUpload.stage = "IDLE" /\ NoUpload.of = None /\ Nowhere.at = {}
    BY ZonesAssumption DEF Nowhere, Position, NoUpload
  <1>2. NoUpload \in [stage : {"IDLE", "READ", "STORED"}, of : Somebody, new : Position, prev : Position]
    BY <1>1 DEF NoUpload, Somebody
  <1>3. events \in [People -> Seq(Event)] /\ \A u \in People : events[u] = <<>>
    BY DEF Init, ZonesInit
  <1>4. ZonesTyped
    <2>1. \A u \in People : \A i \in DOMAIN events[u] :
             events[u][i] \in [zone : Zone, type : {"ENTER", "EXIT"}]
      BY <1>3
    <2> QED BY <2>1, <1>1, <1>2, <1>3, ZonesAssumption DEF Init, ZonesInit, ZonesTyped, ZonesTypeOK
  <1>5. ASSUME NEW u \in People PROVE Told(u)
    <2>1. InFlight(u) = {}
      BY <1>1, StaffAssumption DEF InFlight, Init, ZonesInit
    <2>2. \A z \in Zone : ~CurrentlyInside(events[u], z)
      BY <1>3 DEF CurrentlyInside, At
    <2>3. Inside(u) = {} /\ latest[u].at = {}
      BY <1>1, <2>2 DEF Inside, Init, ZonesInit
    <2> QED BY <2>1, <2>3 DEF Told
  <1> QED BY <1>4, <1>5 DEF PresenceIsKnown

-----------------------------------------------------------------------------
(* Zones and positions keep their types                                     *)

Upload == [stage : {"IDLE", "READ", "STORED"}, of : Somebody, new : Position, prev : Position]

LEMMA NowhereTyped == Nowhere \in Position /\ NoUpload \in Upload /\ NoUpload.stage = "IDLE" /\ NoUpload.of = None
  BY ZonesAssumption DEF Nowhere, Position, NoUpload, Upload, Somebody

\* What each action writes has its type.
LEMMA TypedAgain ==
    ASSUME ZonesTyped,
           zone' \in [Zone -> [status : {"NONE", "ACTIVE", "DELETED"}, team : SomeTeam]],
           latest' \in [People -> Position], sent' \in [People -> SUBSET (1..MaxFixes)],
           upload' \in [Uploads -> Upload], events' \in [People -> Seq(Event)],
           ended' \in [People -> Nat], blurred' \subseteq People,
           \A s \in Uploads : upload'[s].stage # "IDLE" => upload'[s].of \in People
    PROVE  ZonesTyped'
  <1>1. ASSUME NEW u \in People, NEW i \in DOMAIN events'[u]
        PROVE  events'[u][i] \in [zone : Zone, type : {"ENTER", "EXIT"}]
    <2>1. events'[u] \in Seq(Event)
      OBVIOUS
    <2>2. events'[u][i] \in Event
      BY <1>1, <2>1
    <2> QED BY <2>2 DEF Event
  <1> QED BY <1>1 DEF ZonesTyped, ZonesTypeOK, Upload

LEMMA CrossingsAre ==
    ASSUME NEW u \in People, NEW prev, NEW at
    PROVE  Crossings(u, prev, at) =
              Crossed(prev \cap Relevant(u), at \cap Relevant(u))
  BY DEF Crossings, Crossed, Written

LEMMA RelevantZones == ASSUME NEW u PROVE Relevant(u) \in SUBSET Zone
  BY DEF Relevant, ZonesFor

\* What is written when somebody moves.
LEMMA CrossingsTyped ==
    ASSUME NEW es \in Seq(Event), NEW u \in People, NEW prev, NEW at
    PROVE  /\ es \o Crossings(u, prev, at) \in Seq(Event)
           /\ Crossings(u, prev, at) = <<>> => at \cap Relevant(u) = prev \cap Relevant(u)
           /\ {z \in Zone : CurrentlyInside(es, z)} = prev \cap Relevant(u)
                 => {z \in Zone : CurrentlyInside(es \o Crossings(u, prev, at), z)} = at \cap Relevant(u)
  <1>1. PICK was \in SUBSET Zone : was = prev \cap Relevant(u)
    BY RelevantZones
  <1>2. PICK now \in SUBSET Zone : now = at \cap Relevant(u)
    BY RelevantZones
  <1>3. PICK cs : cs = Crossings(u, prev, at)
    OBVIOUS
  <1>4. cs = Crossed(was, now)
    BY <1>1, <1>2, <1>3, CrossingsAre
  <1>5. /\ es \o cs \in Seq(Event) /\ (cs = <<>> => now = was)
        /\ \A z \in Zone : CurrentlyInside(es \o cs, z) <=>
              z \in now \ was \/ (z \notin was \ now /\ CurrentlyInside(es, z))
    BY <1>4, CrossingsTell
  <1>6. ASSUME {z \in Zone : CurrentlyInside(es, z)} = was
        PROVE  {z \in Zone : CurrentlyInside(es \o cs, z)} = now
    <2>1. \A z \in Zone : CurrentlyInside(es, z) <=> z \in was
      BY <1>6
    <2>2. \A z \in Zone : CurrentlyInside(es \o cs, z) <=> z \in now
      BY <2>1, <1>5
    <2> QED BY <2>2
  <1> QED BY <1>1, <1>2, <1>3, <1>5, <1>6

\* Whoever was deleted stays so.
LEMMA GoneForGood ==
    ASSUME DetachInv, StaffNext, NEW u \in People, user[u] = Gone
    PROVE  user'[u] = Gone
  <1>0. /\ Gone # Unborn /\ ~Present(u) /\ user \in [People -> Account]
        /\ \A v \in People : Present(v) => v # u
    BY Accounts DEF Present, DetachInv, Typed
  <1>1. CASE user' = user
    BY <1>1
  <1>3. ASSUME NEW r \in Requests, BeginRequest(r) \/ AttachCustomers(r) PROVE user' = user
    BY <1>3 DEF BeginRequest, BeginHire, BeginAssign, BeginJoin, BeginLeave, BeginDelete, BeginManage,
         BeginCustomer, AttachCustomers, Load
  <1>4. ASSUME NEW r \in Requests, CommitHire(r) PROVE user'[u] = Gone
    <2>1. user' = user \/ user[request[r].of] = Unborn
      BY <1>4 DEF CommitHire
    <2>2. CASE user[request[r].of] = Unborn
      BY <1>4, <1>0, <2>2 DEF CommitHire
    <2> QED BY <2>1, <2>2
  <1>5. ASSUME NEW v, NEW t, NEW keep \in BOOLEAN, user' = MovedTo(v, t, keep) PROVE user'[u] = Gone
    BY <1>5, <1>0 DEF MovedTo
  <1>6. ASSUME NEW r \in Requests, CommitDelete(r) PROVE user'[u] = Gone
    BY <1>6, <1>0 DEF CommitDelete
  <1>7. ASSUME NEW r \in Requests, CommitAssign(r) PROVE user'[u] = Gone
    <2>1. \E t : \E keep \in BOOLEAN : user' = MovedTo(request[r].of, t, keep)
      BY <1>7 DEF CommitAssign
    <2> QED BY <2>1, <1>5
  <1>8. ASSUME NEW r \in Requests, CommitJoin(r) PROVE user'[u] = Gone
    <2>1. user' = MovedTo(request[r].of, request[r].team, FALSE)
      BY <1>8 DEF CommitJoin
    <2> QED BY <2>1, <1>5
  <1>9. ASSUME NEW r \in Requests, CommitManage(r) \/ CommitCustomer(r) \/ FailRequest(r) PROVE user' = user
    BY <1>9 DEF CommitManage, CommitCustomer, FailRequest
  <1>10. ASSUME NEW r \in Requests, Commit(r) PROVE user'[u] = Gone
    BY <1>1, <1>4, <1>6, <1>7, <1>8, <1>9, <1>10 DEF Commit
  <1>11. ASSUME NEW v \in People, NEW active \in BOOLEAN, SetStatus(v, active) PROVE user'[u] = Gone
    BY <1>11, <1>0 DEF SetStatus
  <1>12. ASSUME NEW v \in People, NEW role \in {"EMPLOYEE", "MANAGER"}, SetRole(v, role) PROVE user'[u] = Gone
    BY <1>12, <1>0 DEF SetRole
  <1>13. ASSUME NEW v \in People, DeleteEmployee(v) PROVE user'[u] = Gone
    BY <1>13, <1>0 DEF DeleteEmployee
  <1>14. ASSUME NEW v \in People, NEW f \in Customers, RecordLead(v, f) PROVE user' = user
    BY <1>14 DEF RecordLead
  <1>15. ASSUME NEW f \in Customers, NEW t \in SomeTeam, MoveCustomer(f, t) \/ ImportCustomer(f, t)
         PROVE  user' = user
    BY <1>15 DEF MoveCustomer, ImportCustomer
  <1>16. ASSUME NEW t \in Teams, NEW v \in Somebody, Found(t, v) PROVE user' = user
    BY <1>16 DEF Found
  <1> QED BY <1>1, <1>3, <1>10, <1>11, <1>12, <1>13, <1>14, <1>15, <1>16 DEF StaffNext

\* The zones and the team are as they were.
LEMMA RelevantStays ==
    ASSUME NEW u \in People, zone' = zone, user'[u] = user[u]
    PROVE  Relevant(u)' = Relevant(u)
  BY DEF Relevant, ZonesFor, Own

\* Nothing of the person changes but perhaps which zones concern him, and none
\* of those that cover him.
LEMMA StillTold ==
    ASSUME ZonesTyped, NEW u \in People, Told(u), InFlight(u)' = InFlight(u),
           \A s \in InFlight(u) : upload'[s] = upload[s], latest'[u] = latest[u], events'[u] = events[u],
           Relevant(u)' = Relevant(u) \/ ~Blurs(u)
    PROVE  Told(u)'
  <1>1. Inside(u)' = Inside(u)
    BY DEF Inside
  <1>2. \A z \in SeenIn(u) : z \in Relevant(u) <=> z \in Relevant(u)'
    BY DEF Blurs
  <1>3. latest[u].at \cap Relevant(u) = latest[u].at \cap Relevant(u)'
    BY <1>2 DEF SeenIn
  <1>4. ASSUME NEW s \in InFlight(u)
        PROVE  upload[s].prev.at \cap Relevant(u) = upload[s].prev.at \cap Relevant(u)'
    BY <1>2, <1>4 DEF SeenIn
  <1> QED BY <1>1, <1>3, <1>4 DEF Told

\* Uploads of others.
LEMMA OthersUpload ==
    ASSUME ZonesTyped, NEW u \in People, Told(u), NEW s \in Uploads, s \notin InFlight(u),
           s \notin InFlight(u)', NEW b \in Upload, upload' = [upload EXCEPT ![s] = b],
           latest'[u] = latest[u], events'[u] = events[u], zone' = zone, user' = user
    PROVE  Told(u)'
  <1>1. upload \in [Uploads -> Upload]
    BY DEF ZonesTyped, ZonesTypeOK, Upload
  <1>2. \A t \in Uploads : t # s => upload'[t] = upload[t]
    BY <1>1
  <1>3. InFlight(u)' = InFlight(u) /\ \A t \in InFlight(u) : upload'[t] = upload[t]
    BY <1>2 DEF InFlight
  <1> QED BY <1>3, RelevantStays, StillTold

-----------------------------------------------------------------------------
(* Steps that write zones, positions or events                              *)

LEMMA PeopleChange ==
    ASSUME PresenceInv, WithStaff
    PROVE  ZonesTyped' /\ PresenceIsKnown'
  <1>1. \A u \in People : user[u] = Gone => user'[u] = Gone
    BY GoneForGood DEF PresenceInv, WithStaff
  <1>2. ASSUME NEW u \in People, Clear(u)' PROVE Told(u)'
    <2>1. user[u] # Gone /\ latest'[u] = latest[u] /\ events'[u] = events[u] /\ upload' = upload
      BY <1>1, <1>2 DEF Clear, WithStaff
    <2>2. Told(u) /\ ~Blurs(u)
      BY <2>1, <1>2 DEF PresenceInv, PresenceIsKnown, Clear, WithStaff
    <2>3. InFlight(u)' = InFlight(u)
      BY <2>1 DEF InFlight
    <2> QED BY <2>1, <2>2, <2>3, StillTold DEF PresenceInv
  <1>3. ZonesTyped'
    <2>1. latest' \in [People -> Position]
      <3>1. latest \in [People -> Position]
        BY DEF PresenceInv, ZonesTyped, ZonesTypeOK
      <3> QED BY <3>1, NowhereTyped DEF WithStaff
    <2>2. events' \in [People -> Seq(Event)]
      <3>1. <<>> \in Seq(Event) /\ events \in [People -> Seq(Event)]
        BY DEF PresenceInv, ZonesTyped
      <3> QED BY <3>1 DEF WithStaff
    <2>3. /\ zone' = zone /\ sent' = sent /\ upload' = upload
          /\ blurred' = blurred \cup {u \in People : Blurs(u)}
      BY DEF WithStaff
    <2>4. ended' \in [People -> Nat]
      <3>1. ended \in [People -> Nat]
        BY DEF PresenceInv, ZonesTyped, ZonesTypeOK
      <3> QED BY <3>1 DEF WithStaff
    <2> QED BY <2>1, <2>2, <2>3, <2>4, TypedAgain DEF PresenceInv, ZonesTyped, ZonesTypeOK, Upload
  <1> QED BY <1>2, <1>3 DEF PresenceIsKnown

\* A zone is made, deleted, or given to another team.
LEMMA ZoneGiven ==
    ASSUME PresenceInv, UNCHANGED <<user, sent, events, ended, latest, upload>>,
           blurred' = blurred \cup {u \in People : Blurs(u)},
           zone' \in [Zone -> [status : {"NONE", "ACTIVE", "DELETED"}, team : SomeTeam]]
    PROVE  ZonesTyped' /\ PresenceIsKnown'
  <1>1. ZonesTyped'
    BY TypedAgain DEF PresenceInv, ZonesTyped, ZonesTypeOK, Upload
  <1>2. ASSUME NEW u \in People, Clear(u)' PROVE Told(u)'
    <2>1. Told(u) /\ ~Blurs(u)
      BY <1>2 DEF PresenceInv, PresenceIsKnown, Clear
    <2>2. InFlight(u)' = InFlight(u)
      BY DEF InFlight
    <2> QED BY <2>1, <2>2, StillTold DEF PresenceInv
  <1> QED BY <1>1, <1>2 DEF PresenceIsKnown

LEMMA ZoneRedrawn ==
    ASSUME PresenceInv, NEW z \in Zone, NEW over \in SUBSET People, RedrawZone(z, over)
    PROVE  ZonesTyped' /\ PresenceIsKnown'
  <1>1. latest \in [People -> Position] /\ upload \in [Uploads -> Upload]
    BY DEF PresenceInv, ZonesTyped, ZonesTypeOK, Upload
  <1>2. /\ UNCHANGED <<user, sent, events, ended, zone>>
        /\ latest' = [u \in People |-> Redrawn(latest[u], z, u \in over)]
        /\ blurred' = blurred \cup {u \in People : SeenIn(u) # SeenIn(u)' \/ InFlight(u) # {}}
    BY DEF RedrawZone, ZoneChange
  <1>3. ASSUME NEW s \in Uploads
        PROVE  upload'[s] \in Upload /\ upload'[s].of = upload[s].of /\ upload'[s].stage = upload[s].stage
    <2>1. PICK b \in Upload : b = upload[s]
      BY <1>1
    <2>2. PICK n \in Position : n = Redrawn(b.new, z, b.of \in over)
      BY DEF Upload, Redrawn, Position
    <2>3. PICK p \in Position : p = Redrawn(b.prev, z, b.of \in over)
      BY DEF Upload, Redrawn, Position
    <2>4. upload'[s] = [b EXCEPT !.new = n, !.prev = p]
      BY <2>1, <2>2, <2>3 DEF RedrawZone
    <2> QED BY <2>1, <2>4 DEF Upload
  <1>4. upload' \in [Uploads -> Upload]
    <2>1. \E f : upload' = [s \in Uploads |-> f[s]]
      <3>1. upload' = [s \in Uploads |-> upload'[s]]
        BY DEF RedrawZone
      <3> QED BY <3>1
    <2> QED BY <2>1, <1>3
  <1>5. latest' \in [People -> Position]
    BY <1>1, <1>2 DEF Redrawn, Position
  <1>6. ZonesTyped'
    BY <1>2, <1>3, <1>4, <1>5, TypedAgain DEF PresenceInv, ZonesTyped, ZonesTypeOK
  <1>7. ASSUME NEW u \in People, Clear(u)' PROVE Told(u)'
    <2>1. Told(u) /\ InFlight(u) = {} /\ SeenIn(u)' = SeenIn(u)
      BY <1>2, <1>7 DEF PresenceInv, PresenceIsKnown, Clear
    <2>2. InFlight(u)' = {}
      BY <1>3, <2>1 DEF InFlight
    <2>3. latest'[u].at = latest[u].at
      BY <2>1, <2>2 DEF SeenIn
    <2>4. Inside(u)' = Inside(u) /\ Relevant(u)' = Relevant(u)
      BY <1>2, RelevantStays DEF Inside
    <2> QED BY <2>1, <2>2, <2>3, <2>4 DEF Told
  <1> QED BY <1>6, <1>7 DEF PresenceIsKnown

-----------------------------------------------------------------------------
(* The steps of an upload                                                   *)

\* An upload in flight is of one person.
LEMMA Mine ==
    ASSUME NEW u \in People, Told(u), NEW s \in InFlight(u)
    PROVE  InFlight(u) = {s}
  BY DEF Told

LEMMA BatchReceived ==
    ASSUME PresenceInv, NEW s \in Uploads, NEW v \in Phones, NEW time \in 1..MaxFixes, NEW at \in Places,
           ReceiveBatch(s, v, time, at)
    PROVE  ZonesTyped' /\ PresenceIsKnown'
  <1>1. /\ upload \in [Uploads -> Upload] /\ latest \in [People -> Position]
        /\ sent \in [People -> SUBSET (1..MaxFixes)] /\ v \in People /\ blurred \subseteq People
    BY ZonesAssumption DEF PresenceInv, ZonesTyped, ZonesTypeOK, Upload
  <1>2. [time |-> time, at |-> at] \in Position
    BY ZonesAssumption DEF Position
  <1>3. PICK b : b = [stage |-> "READ", of |-> v, new |-> [time |-> time, at |-> at], prev |-> latest[v]]
    OBVIOUS
  <1>4. b \in Upload /\ b.of = v /\ b.stage = "READ" /\ b.prev = latest[v]
    BY <1>1, <1>2, <1>3 DEF Upload, Somebody
  <1>5. /\ upload[s] = NoUpload /\ upload' = [upload EXCEPT ![s] = b]
        /\ sent' = [sent EXCEPT ![v] = @ \cup {time}]
        /\ blurred' = IF InFlight(v) # {} THEN blurred \cup {v} ELSE blurred
        /\ UNCHANGED <<user, zone, latest, events, ended>>
    BY <1>3 DEF ReceiveBatch, Engine
  <1>6. ZonesTyped'
    <2>1. sent' \in [People -> SUBSET (1..MaxFixes)]
      BY <1>1, <1>5
    <2>2. upload' \in [Uploads -> Upload] /\ blurred' \subseteq People
      BY <1>1, <1>4, <1>5
    <2>3. \A t \in Uploads : upload'[t].stage # "IDLE" => upload'[t].of \in People
      BY <1>1, <1>4, <1>5 DEF PresenceInv, ZonesTyped
    <2> QED BY <2>1, <2>2, <2>3, <1>5, TypedAgain DEF PresenceInv, ZonesTyped, ZonesTypeOK
  <1>7. ASSUME NEW u \in People, Clear(u)' PROVE Told(u)'
    <2>1. Clear(u) /\ Told(u)
      BY <1>5, <1>7 DEF PresenceInv, PresenceIsKnown, Clear
    <2>2. CASE u # v
      <3>1. s \notin InFlight(u) /\ s \notin InFlight(u)'
        BY <1>1, <1>4, <1>5, <2>2, NowhereTyped, StaffAssumption DEF InFlight
      <3> QED BY <3>1, <2>1, <1>4, <1>5, OthersUpload DEF PresenceInv
    <2>3. CASE u = v
      <3>1. InFlight(u) = {}
        BY <1>5, <1>7, <2>3 DEF Clear
      <3>2. InFlight(u)' = {s} /\ upload'[s] = b
        BY <1>1, <1>4, <1>5, <2>3, <3>1 DEF InFlight
      <3>3. Inside(u)' = Inside(u) /\ Relevant(u)' = Relevant(u) /\ latest'[u] = latest[u]
        BY <1>5, RelevantStays DEF Inside
      <3>4. Inside(u) = latest[u].at \cap Relevant(u)
        BY <2>1, <3>1 DEF Told
      <3> QED BY <2>3, <3>2, <3>3, <3>4, <1>4 DEF Told
    <2> QED BY <2>2, <2>3
  <1> QED BY <1>6, <1>7 DEF PresenceIsKnown

LEMMA BatchStored ==
    ASSUME PresenceInv, NEW s \in Uploads, StoreBatch(s)
    PROVE  ZonesTyped' /\ PresenceIsKnown'
  <1>1. /\ upload \in [Uploads -> Upload] /\ latest \in [People -> Position] /\ blurred \subseteq People
        /\ \A t \in Uploads : upload[t].stage # "IDLE" => upload[t].of \in People
    BY DEF PresenceInv, ZonesTyped, ZonesTypeOK, Upload
  <1>2. PICK b \in Upload : b = upload[s]
    BY <1>1
  <1>3. PICK v \in People : v = b.of
    BY <1>2 DEF StoreBatch, Present
  <1>4. PICK c \in Upload : c = [b EXCEPT !.stage = "STORED"]
    BY DEF Upload
  <1>5. /\ b.stage = "READ" /\ upload' = [upload EXCEPT ![s] = c]
        /\ UNCHANGED <<user, zone, sent, events, ended>>
        /\ \/ latest' = latest /\ blurred' = blurred \cup {v}
           \/ latest' = [latest EXCEPT ![v] = b.new] /\ blurred' = blurred
    <2>1. upload' = [upload EXCEPT ![s].stage = "STORED"]
      BY DEF StoreBatch
    <2>2. upload' = [upload EXCEPT ![s] = c]
      BY <1>1, <1>2, <1>4, <2>1
    <2> QED BY <1>2, <1>3, <2>2 DEF StoreBatch, Engine
  <1>6. c.of = v /\ c.stage = "STORED" /\ c.new = b.new /\ c.prev = b.prev /\ b.new \in Position
    BY <1>3, <1>4 DEF Upload
  <1>7. ZonesTyped'
    <2>1. latest' \in [People -> Position] /\ blurred' \subseteq People
      BY <1>1, <1>5, <1>6
    <2>2. upload' \in [Uploads -> Upload]
      BY <1>1, <1>5
    <2>3. \A t \in Uploads : upload'[t].stage # "IDLE" => upload'[t].of \in People
      BY <1>1, <1>5, <1>6
    <2> QED BY <2>1, <2>2, <2>3, <1>5, TypedAgain DEF PresenceInv, ZonesTyped, ZonesTypeOK
  <1>8. ASSUME NEW u \in People, Clear(u)' PROVE Told(u)'
    <2>1. Clear(u) /\ Told(u)
      BY <1>5, <1>8 DEF PresenceInv, PresenceIsKnown, Clear
    <2>2. CASE u # v
      <3>1. s \notin InFlight(u) /\ s \notin InFlight(u)' /\ latest'[u] = latest[u]
        BY <1>1, <1>2, <1>3, <1>5, <1>6, <2>2 DEF InFlight
      <3> QED BY <3>1, <2>1, <1>5, OthersUpload DEF PresenceInv
    <2>3. CASE u = v
      <3>1. InFlight(u) = {s}
        BY <1>2, <1>3, <2>1, <2>3, Mine DEF InFlight
      <3>2. InFlight(u)' = {s} /\ upload'[s] = c
        BY <1>1, <1>5, <1>6, <2>3, <3>1 DEF InFlight
      <3>3. Inside(u)' = Inside(u) /\ Relevant(u)' = Relevant(u)
        BY <1>5, RelevantStays DEF Inside
      <3>4. latest'[u] = b.new
        BY <1>1, <1>5, <1>8, <2>3 DEF Clear
      <3>5. Inside(u) = b.prev.at \cap Relevant(u)
        BY <1>2, <2>1, <3>1 DEF Told
      <3> QED BY <3>2, <3>3, <3>4, <3>5, <1>6 DEF Told
    <2> QED BY <2>2, <2>3
  <1> QED BY <1>7, <1>8 DEF PresenceIsKnown

LEMMA BatchLost ==
    ASSUME PresenceInv, NEW s \in Uploads, NEW released \in BOOLEAN, LoseBatch(s, released)
    PROVE  ZonesTyped' /\ PresenceIsKnown'
  <1>1. /\ upload \in [Uploads -> Upload] /\ sent \in [People -> SUBSET (1..MaxFixes)]
        /\ \A t \in Uploads : upload[t].stage # "IDLE" => upload[t].of \in People
    BY DEF PresenceInv, ZonesTyped, ZonesTypeOK, Upload
  <1>2. /\ upload[s].stage = "READ" /\ upload' = [upload EXCEPT ![s] = NoUpload]
        /\ UNCHANGED <<user, zone, latest, events, ended, blurred>>
    BY DEF LoseBatch, Engine
  <1>3. ZonesTyped'
    <2>1. sent' \in [People -> SUBSET (1..MaxFixes)]
      BY <1>1 DEF LoseBatch
    <2>2. upload' \in [Uploads -> Upload]
      BY <1>1, <1>2, NowhereTyped
    <2>3. \A t \in Uploads : upload'[t].stage # "IDLE" => upload'[t].of \in People
      BY <1>1, <1>2, NowhereTyped
    <2> QED BY <2>1, <2>2, <2>3, <1>2, TypedAgain DEF PresenceInv, ZonesTyped, ZonesTypeOK
  <1>4. ASSUME NEW u \in People, Clear(u)' PROVE Told(u)'
    <2>1. Clear(u) /\ Told(u)
      BY <1>2, <1>4 DEF PresenceInv, PresenceIsKnown, Clear
    <2>2. s \notin InFlight(u)'
      BY <1>1, <1>2, NowhereTyped, StaffAssumption DEF InFlight
    <2>3. CASE s \notin InFlight(u)
      BY <2>1, <2>2, <2>3, <1>2, NowhereTyped, OthersUpload DEF PresenceInv
    <2>4. CASE s \in InFlight(u)
      <3>1. InFlight(u) = {s}
        BY <2>1, <2>4, Mine
      <3>2. InFlight(u)' = {}
        BY <1>1, <1>2, <2>2, <3>1 DEF InFlight
      <3>3. Inside(u)' = Inside(u) /\ Relevant(u)' = Relevant(u)
        BY <1>2, RelevantStays DEF Inside
      <3>4. Inside(u) = latest[u].at \cap Relevant(u)
        BY <1>2, <2>1, <2>4 DEF Told
      <3> QED BY <1>2, <3>2, <3>3, <3>4 DEF Told
    <2> QED BY <2>3, <2>4
  <1> QED BY <1>3, <1>4 DEF PresenceIsKnown

LEMMA BatchChecked ==
    ASSUME PresenceInv, NEW s \in Uploads, CheckZones(s)
    PROVE  ZonesTyped' /\ PresenceIsKnown'
  <1>1. /\ upload \in [Uploads -> Upload] /\ blurred \subseteq People /\ events \in [People -> Seq(Event)]
        /\ \A t \in Uploads : upload[t].stage # "IDLE" => upload[t].of \in People
    BY DEF PresenceInv, ZonesTyped, ZonesTypeOK, Upload
  <1>2. /\ upload[s].stage = "STORED" /\ upload' = [upload EXCEPT ![s] = NoUpload]
        /\ UNCHANGED <<user, zone, sent, latest, ended>>
    BY DEF CheckZones, Engine
  <1>3. PICK v \in People : v = upload[s].of
    BY <1>1, <1>2
  <1>4. PICK prev : prev = upload[s].prev.at
    OBVIOUS
  <1>5. PICK at : at = upload[s].new.at
    OBVIOUS
  <1>6. \/ /\ events' = [events EXCEPT ![v] = @ \o Crossings(v, prev, at)] /\ blurred' = blurred
        \/ /\ events' = events
           /\ blurred' = IF Crossings(v, prev, at) = <<>> THEN blurred ELSE blurred \cup {v}
    BY <1>3, <1>4, <1>5 DEF CheckZones
  <1>7. PICK es \in Seq(Event) : es = events[v]
    BY <1>1
  <1>8. /\ es \o Crossings(v, prev, at) \in Seq(Event)
        /\ Crossings(v, prev, at) = <<>> => at \cap Relevant(v) = prev \cap Relevant(v)
        /\ {z \in Zone : CurrentlyInside(es, z)} = prev \cap Relevant(v)
              => {z \in Zone : CurrentlyInside(es \o Crossings(v, prev, at), z)} = at \cap Relevant(v)
    BY CrossingsTyped
  <1>9. ZonesTyped'
    <2>1. events' \in [People -> Seq(Event)]
      BY <1>1, <1>6, <1>7, <1>8
    <2>2. upload' \in [Uploads -> Upload] /\ blurred' \subseteq People
      BY <1>1, <1>2, <1>6, NowhereTyped
    <2>3. \A t \in Uploads : upload'[t].stage # "IDLE" => upload'[t].of \in People
      BY <1>1, <1>2, NowhereTyped
    <2> QED BY <2>1, <2>2, <2>3, <1>2, TypedAgain DEF PresenceInv, ZonesTyped, ZonesTypeOK
  <1>10. ASSUME NEW u \in People, Clear(u)' PROVE Told(u)'
    <2>1. Clear(u) /\ Told(u)
      BY <1>2, <1>6, <1>10 DEF PresenceInv, PresenceIsKnown, Clear
    <2>2. s \notin InFlight(u)'
      BY <1>1, <1>2, NowhereTyped, StaffAssumption DEF InFlight
    <2>3. CASE u # v
      <3>1. s \notin InFlight(u) /\ events'[u] = events[u]
        BY <1>1, <1>3, <1>6, <2>3 DEF InFlight
      <3> QED BY <2>1, <2>2, <3>1, <1>2, NowhereTyped, OthersUpload DEF PresenceInv
    <2>4. CASE u = v
      <3>1. InFlight(u) = {s}
        BY <1>3, <2>1, <2>4, Mine DEF InFlight
      <3>2. InFlight(u)' = {}
        BY <1>1, <1>2, <2>2, <3>1 DEF InFlight
      <3>3. Relevant(u)' = Relevant(u) /\ latest'[u] = latest[u]
        BY <1>2, RelevantStays
      <3>4. Inside(u) = prev \cap Relevant(u) /\ latest[u].at = at
        BY <1>2, <1>4, <1>5, <2>1, <3>1 DEF Told
      <3>5. {z \in Zone : CurrentlyInside(es, z)} = prev \cap Relevant(v)
        BY <3>4, <1>7, <2>4 DEF Inside
      <3>6. Inside(u)' = at \cap Relevant(u)
        <4>1. CASE events' = [events EXCEPT ![v] = @ \o Crossings(v, prev, at)]
          <5>1. events'[u] = es \o Crossings(v, prev, at)
            BY <1>1, <1>7, <2>4, <4>1
          <5> QED BY <5>1, <3>5, <1>8, <2>4 DEF Inside
        <4>2. CASE events' = events /\ Crossings(v, prev, at) = <<>>
          BY <4>2, <1>8, <3>4, <2>4 DEF Inside
        <4> QED BY <4>1, <4>2, <1>6, <1>10, <2>4 DEF Clear
      <3> QED BY <3>2, <3>3, <3>4, <3>6 DEF Told
    <2> QED BY <2>3, <2>4
  <1> QED BY <1>9, <1>10 DEF PresenceIsKnown

-----------------------------------------------------------------------------
(* Every step                                                               *)

\* A day may end.
LEMMA ZonesRest ==
    ASSUME PresenceInv, UNCHANGED user, UNCHANGED <<zone, latest, sent, upload, events, blurred>>,
           ended' \in [People -> Nat]
    PROVE  ZonesTyped' /\ PresenceIsKnown'
  <1>1. ZonesTyped'
    BY TypedAgain DEF PresenceInv, ZonesTyped, ZonesTypeOK, Upload
  <1>2. ASSUME NEW u \in People, Clear(u)' PROVE Told(u)'
    <2>1. Told(u) /\ Relevant(u)' = Relevant(u) /\ InFlight(u)' = InFlight(u)
      BY <1>2, RelevantStays DEF PresenceInv, PresenceIsKnown, Clear, InFlight
    <2> QED BY <2>1, StillTold DEF PresenceInv
  <1> QED BY <1>1, <1>2 DEF PresenceIsKnown

LEMMA PresenceStep == ASSUME PresenceInv, [ReportsNext]_backOffice PROVE PresenceInv'
  <1> DEFINE Holds == ZonesTyped' /\ PresenceIsKnown'
  <1> SUFFICES Holds
    BY Step DEF PresenceInv
  <1> HIDE DEF Holds
  <1>0. zone \in [Zone -> [status : {"NONE", "ACTIVE", "DELETED"}, team : SomeTeam]]
    BY DEF PresenceInv, ZonesTyped, ZonesTypeOK
  <1>11. ended \in [People -> Nat] /\ events \in [People -> Seq(Event)]
    BY DEF PresenceInv, ZonesTyped, ZonesTypeOK
  <1>1. CASE UNCHANGED backOffice
    BY <1>11, <1>1, ZonesRest DEF Holds, backOffice, staff, zones
  <1>2. CASE WithStaff
    BY <1>2, PeopleChange DEF Holds
  <1>3. ASSUME NEW z \in Zone, NEW t \in SomeTeam, CreateZone(z, t) \/ RescopeZone(z, t) PROVE Holds
    <2>1. zone' \in [Zone -> [status : {"NONE", "ACTIVE", "DELETED"}, team : SomeTeam]]
      BY <1>0, <1>3 DEF CreateZone, RescopeZone
    <2> QED BY <2>1, <1>3, ZoneGiven DEF Holds, CreateZone, RescopeZone, ZoneChange
  <1>4. ASSUME NEW z \in Zone, NEW over \in SUBSET People, RedrawZone(z, over) PROVE Holds
    BY <1>4, ZoneRedrawn DEF Holds
  <1>5. ASSUME NEW z \in Zone, DeleteZone(z) PROVE Holds
    <2>1. zone' \in [Zone -> [status : {"NONE", "ACTIVE", "DELETED"}, team : SomeTeam]]
      BY <1>0, <1>5 DEF DeleteZone
    <2> QED BY <2>1, <1>5, ZoneGiven DEF Holds, DeleteZone, ZoneChange
  <1>6. ASSUME NEW s \in Uploads, NEW u \in Phones, NEW time \in 1..MaxFixes, NEW at \in Places,
               ReceiveBatch(s, u, time, at)
        PROVE  Holds
    BY <1>6, BatchReceived DEF Holds
  <1>7. ASSUME NEW s \in Uploads, NEW released \in BOOLEAN,
               StoreBatch(s) \/ CheckZones(s) \/ LoseBatch(s, released)
        PROVE  Holds
    BY <1>7, BatchStored, BatchChecked, BatchLost DEF Holds
  <1>8. ASSUME NEW j \in Jobs,
               \/ AskReport(j) \/ ReadMembers(j) \/ ReadRows(j) \/ MarkReady(j)
               \/ Fail(j) \/ Die(j) \/ Age(j) \/ Expire(j)
        PROVE  Holds
    <2>1. JobStep
      BY <1>8 DEF AskReport, Generate, AutoReport, Start, ReadMembers, ReadRows, MarkReady, Fail,
             Die, Age, Expire, Advance
    <2> QED BY <1>11, <2>1, ZonesRest DEF Holds, JobStep, zones
  <1>9. ASSUME NEW u \in Phones, EndDay(u) PROVE Holds
    <2>1. Len(events[u]) + 1 \in Nat
      <3>1. PICK es \in Seq(Event) : es = events[u]
        BY <1>11, ZonesAssumption
      <3> QED BY <3>1
    <2>2. ended' \in [People -> Nat]
      BY <1>11, <1>9, <2>1 DEF EndDay
    <2> QED BY <1>9, <2>2, ZonesRest DEF Holds, EndDay
  <1>10. CASE ZonesNext
    BY <1>2, <1>3, <1>4, <1>5, <1>6, <1>7, <1>9, <1>10 DEF ZonesNext
  <1> QED BY <1>1, <1>8, <1>10 DEF ReportsNext

\* Zones, uploads, positions and events keep their types, whatever administrators
\* and phones do (GeofenceService, LocationService.process_batch).
THEOREM ZonesTypeCorrect == Spec => []ZonesTypeOK
  <1>1. Init => PresenceInv
    BY Starts, ZonesStart DEF Init, PresenceInv
  <1>2. PresenceInv /\ [ReportsNext]_backOffice => PresenceInv'
    BY PresenceStep
  <1>3. PresenceInv => ZonesTypeOK
    BY DEF PresenceInv, ZonesTyped
  <1> QED BY <1>1, <1>2, <1>3, PTL DEF Spec

\* However uploads, zones and teams change, once everything a person uploaded is
\* checked his events list him in exactly the zones that concern him and cover
\* his newest position, unless uploads overlapped or came late, a check failed,
\* or a zone around him changed (check_geofence_events, currently_inside).
THEOREM WhoIsInsideIsTold == Spec => []PresenceIsTrue
  <1>1. Init => PresenceInv
    BY Starts, ZonesStart DEF Init, PresenceInv
  <1>2. PresenceInv /\ [ReportsNext]_backOffice => PresenceInv'
    BY PresenceStep
  <1>3. PresenceInv => PresenceIsTrue
    <2>1. ASSUME PresenceInv, NEW u \in People, Present(u), u \notin blurred, InFlight(u) = {},
                 NEW z \in Zone
          PROVE  CurrentlyInside(events[u], z) <=> z \in latest[u].at \cap Relevant(u)
      <3>1. Inside(u) = latest[u].at \cap Relevant(u)
        BY <2>1 DEF PresenceInv, PresenceIsKnown, Clear, Told, Present
      <3> QED BY <2>1, <3>1 DEF Inside
    <2> QED BY <2>1 DEF PresenceIsTrue
  <1> QED BY <1>1, <1>2, <1>3, PTL DEF Spec

-----------------------------------------------------------------------------
(* What the events of a zone count, in whatever order they are read         *)

\* The events of zone z among those numbered in s, and the stays they make: an
\* ENTER and the EXIT after it, with no event of the zone between.
InZone(es, z, s) == {i \in s : es[i].zone = z}
IsStay(es, of, i, j) ==
    /\ i \in of /\ j \in of /\ i < j
    /\ es[i].type = "ENTER" /\ es[j].type = "EXIT"
    /\ \A k \in of : ~ (i < k /\ k < j)

\* The minutes of those stays, and the ENTER that is open after them.
Covered(es, z, s) ==
    {t \in Nat : \E i, j \in InZone(es, z, s) : IsStay(es, InZone(es, z, s), i, j) /\ i <= t /\ t < j}
OpenAt(es, z, s) ==
    LET of == InZone(es, z, s) IN
    IF of # {} /\ es[LastOf(of)].type = "ENTER" THEN LastOf(of) ELSE 0
Tally(es, z, s) == [open |-> OpenAt(es, z, s), minutes |-> Cardinality(Covered(es, z, s))]

LEMMA LastIs ==
    ASSUME NEW n \in Nat, NEW of, of \subseteq 1..n, NEW m \in of, \A k \in of : k <= m
    PROVE  LastOf(of) = m
  <1>1. \A x \in of : (\A k \in of : k <= x) => x = m
    <2> SUFFICES ASSUME NEW x \in of, \A k \in of : k <= x PROVE x = m
      OBVIOUS
    <2>1. x <= m /\ m <= x /\ x \in Nat /\ m \in Nat
      OBVIOUS
    <2> QED BY <2>1
  <1> QED BY <1>1 DEF LastOf

LEMMA OpenIs ==
    ASSUME NEW n \in Nat, NEW es, NEW z, NEW s, s \subseteq 1..n
    PROVE  /\ InZone(es, z, s) = {} => OpenAt(es, z, s) = 0
           /\ \A m \in InZone(es, z, s) : (\A k \in InZone(es, z, s) : k <= m) =>
                 OpenAt(es, z, s) = IF es[m].type = "ENTER" THEN m ELSE 0
  <1> DEFINE of == InZone(es, z, s)
  <1>1. of \subseteq 1..n
    BY DEF InZone
  <1>2. OpenAt(es, z, s) = IF of # {} /\ es[LastOf(of)].type = "ENTER" THEN LastOf(of) ELSE 0
    BY DEF OpenAt
  <1>3. ASSUME NEW m \in of, \A k \in of : k <= m PROVE LastOf(of) = m
    BY <1>1, <1>3, LastIs
  <1> HIDE DEF of
  <1>4. of = {} => OpenAt(es, z, s) = 0
    BY <1>2
  <1>5. ASSUME NEW m \in of, \A k \in of : k <= m
        PROVE  OpenAt(es, z, s) = IF es[m].type = "ENTER" THEN m ELSE 0
    BY <1>2, <1>3, <1>5
  <1> QED BY <1>4, <1>5 DEF of

LEMMA CoveredIsFinite ==
    ASSUME NEW n \in Nat, NEW es, NEW z, NEW s, s \subseteq 1..n
    PROVE  IsFiniteSet(Covered(es, z, s)) /\ Covered(es, z, s) \subseteq 0..n
  <1>1. Covered(es, z, s) \subseteq 0..n
    <2> SUFFICES ASSUME NEW t \in Covered(es, z, s) PROVE t \in 0..n
      OBVIOUS
    <2>1. PICK j \in s : t \in Nat /\ t < j
      BY DEF Covered, InZone
    <2> QED BY <2>1
  <1>2. IsFiniteSet(0..n)
    BY FS_Interval
  <1> QED BY <1>1, <1>2, FS_Subset

\* Event m comes after those in r.
LEMMA TallyStep ==
    ASSUME NEW n \in Nat, NEW es \in Seq(Event), NEW z, NEW s, s \subseteq 1..n, NEW m \in s,
           n <= Len(es), \A k \in s : k <= m, NEW r, r = s \ {m}
    PROVE  Tally(es, z, s) =
              IF es[m].zone = z THEN Pair(Tally(es, z, r), [type |-> es[m].type, at |-> m])
              ELSE Tally(es, z, r)
  <1> DEFINE of == InZone(es, z, s)
             was == InZone(es, z, r)
  <1>1. /\ of \subseteq 1..n /\ was \subseteq 1..n /\ was = of \ {m} /\ m \in 1..n
        /\ (\A k \in of : k <= m) /\ \A k \in was : k < m
    <2>1. /\ of \subseteq 1..n /\ was \subseteq 1..n /\ was = of \ {m} /\ m \in 1..n
          /\ \A k \in of : k <= m
      BY DEF InZone
    <2>2. ASSUME NEW k \in was PROVE k < m
      <3>1. k \in 1..n /\ k # m /\ k <= m
        BY <2>1
      <3> QED BY <2>1, <3>1
    <2> QED BY <2>1, <2>2
  <1>2. CASE es[m].zone # z
    <2>1. InZone(es, z, s) = InZone(es, z, r)
      BY <1>2 DEF InZone
    <2>2. Covered(es, z, s) = Covered(es, z, r) /\ OpenAt(es, z, s) = OpenAt(es, z, r)
      BY <2>1 DEF Covered, OpenAt
    <2> QED BY <1>2, <2>2 DEF Tally
  <1>3. CASE es[m].zone = z /\ es[m].type = "ENTER"
    <2>1. of = was \cup {m} /\ m \in of
      BY <1>1, <1>3 DEF InZone
    <2> HIDE DEF of, was
    <2>2. \A i, j \in of : IsStay(es, of, i, j) => i \in was /\ j \in was /\ IsStay(es, was, i, j)
      <3> SUFFICES ASSUME NEW i \in of, NEW j \in of, IsStay(es, of, i, j)
          PROVE i \in was /\ j \in was /\ IsStay(es, was, i, j)
        OBVIOUS
      <3>1. j # m /\ i # m
        BY <1>1, <1>3, <2>1 DEF IsStay
      <3> QED BY <1>1, <3>1 DEF IsStay
    <2>3. \A i, j \in was : IsStay(es, was, i, j) => IsStay(es, of, i, j)
      <3> SUFFICES ASSUME NEW i \in was, NEW j \in was, IsStay(es, was, i, j)
          PROVE IsStay(es, of, i, j)
        OBVIOUS
      <3>1. ~ (i < m /\ m < j)
        BY <1>1
      <3> QED BY <2>1, <3>1 DEF IsStay
    <2>4. Covered(es, z, s) = Covered(es, z, r)
      BY <2>1, <2>2, <2>3 DEF Covered, of, was
    <2>5. OpenAt(es, z, s) = m
      BY <1>1, <1>3, <2>1, OpenIs DEF of
    <2> QED BY <1>3, <2>4, <2>5 DEF Tally, Pair
  <1>4. CASE es[m].zone = z /\ es[m].type = "EXIT"
    <2>1. of = was \cup {m} /\ m \in of
      BY <1>1, <1>4 DEF InZone
    <2>2. OpenAt(es, z, s) = 0
      BY <1>1, <1>4, <2>1, OpenIs
    <2>3. \A i, j \in was : IsStay(es, was, i, j) <=> IsStay(es, of, i, j)
      <3> SUFFICES ASSUME NEW i \in was, NEW j \in was
          PROVE IsStay(es, was, i, j) <=> IsStay(es, of, i, j)
        OBVIOUS
      <3> HIDE DEF of, was
      <3>1. ~ (i < m /\ m < j)
        BY <1>1
      <3> QED BY <1>1, <2>1, <3>1 DEF IsStay
    <2>4. \A j : ~ IsStay(es, of, m, j)
      BY <1>4 DEF IsStay
    <2>5. CASE OpenAt(es, z, r) = 0
      <3>1. ASSUME NEW i \in was PROVE ~ IsStay(es, of, i, m)
        <4>1. PICK l \in was : \A k \in was : k <= l
          BY <1>1, <3>1, Greatest
        <4>2. es[l].type # "ENTER"
          <5>1. OpenAt(es, z, r) = IF es[l].type = "ENTER" THEN l ELSE 0
            BY <4>1, OpenIs
          <5>2. l \in 1..n
            BY <1>1, <4>1
          <5> QED BY <2>5, <5>1, <5>2
        <4>3. ASSUME i # l PROVE i < l /\ l < m
          <5>1. l \in 1..n /\ i \in 1..n /\ i <= l /\ l < m
            BY <1>1, <3>1, <4>1
          <5> QED BY <4>3, <5>1
        <4> HIDE DEF was, of
        <4> QED BY <2>1, <4>1, <4>2, <4>3 DEF IsStay
      <3> HIDE DEF of, was
      <3>2. ASSUME NEW i, NEW j PROVE IsStay(es, was, i, j) <=> IsStay(es, of, i, j)
        <4>1. IsStay(es, of, i, j) => i \in was /\ j \in was
          BY <2>1, <2>4, <3>1 DEF IsStay
        <4>2. IsStay(es, was, i, j) => i \in was /\ j \in was
          BY DEF IsStay
        <4> QED BY <2>3, <4>1, <4>2
      <3>3. \A i, j : IsStay(es, of, i, j) => i \in was /\ j \in was
        BY <2>1, <2>4, <3>1 DEF IsStay
      <3>4. Covered(es, z, s) = Covered(es, z, r)
        BY <2>1, <3>2, <3>3 DEF Covered, of, was
      <3> QED BY <1>4, <2>2, <2>5, <3>4 DEF Tally, Pair
    <2>6. CASE OpenAt(es, z, r) # 0
      <3> DEFINE o == OpenAt(es, z, r)
      <3>0. was # {}
        BY <2>6, OpenIs
      <3>1. PICK l \in was : \A k \in was : k <= l
        BY <1>1, <3>0, Greatest
      <3>2. o = l /\ es[l].type = "ENTER"
        BY <1>1, <2>6, <3>1, OpenIs
      <3>3. o \in was /\ o < m /\ o \in Nat /\ m \in Nat
        <4>1. l \in 1..n /\ l < m
          BY <1>1, <3>1
        <4>2. l \in Nat /\ m \in Nat /\ l \in was
          BY <1>1, <3>1, <4>1
        <4> QED BY <3>2, <4>1, <4>2
      <3> HIDE DEF o, of, was
      <3>4. \A i \in was : IsStay(es, of, i, m) <=> i = o
        <4>1. IsStay(es, of, o, m)
          <5>1. \A k \in of : ~ (o < k /\ k < m)
            BY <1>1, <2>1, <3>1, <3>2
          <5> QED BY <1>4, <2>1, <3>2, <3>3, <5>1 DEF IsStay
        <4>2. ASSUME NEW i \in was, i # o PROVE ~ IsStay(es, of, i, m)
          <5>1. i < o
            BY <1>1, <3>1, <3>2, <4>2
          <5> QED BY <2>1, <3>3, <5>1 DEF IsStay
        <4> QED BY <4>1, <4>2
      <3>5. Covered(es, z, s) = Covered(es, z, r) \cup (o..(m - 1))
        <4>1. ASSUME NEW t \in Covered(es, z, s)
              PROVE  t \in Covered(es, z, r) \cup (o..(m - 1))
          <5>1. PICK i \in of, j \in of : IsStay(es, of, i, j) /\ i <= t /\ t < j /\ t \in Nat
            BY DEF Covered, of
          <5>2. CASE j = m
            <6>1. i = o
              BY <2>1, <2>4, <3>4, <5>1, <5>2
            <6> QED BY <1>1, <3>3, <5>1, <5>2, <6>1
          <5>3. CASE j # m
            <6>1. i \in was /\ j \in was
              BY <2>1, <2>4, <5>1, <5>3
            <6> QED BY <2>3, <5>1, <6>1 DEF Covered, was
          <5> QED BY <5>2, <5>3
        <4>2. ASSUME NEW t \in Covered(es, z, r) PROVE t \in Covered(es, z, s)
          <5>1. PICK i \in was, j \in was : IsStay(es, was, i, j) /\ i <= t /\ t < j /\ t \in Nat
            BY DEF Covered, was
          <5>2. IsStay(es, of, i, j) /\ i \in of /\ j \in of
            BY <2>1, <2>3, <5>1
          <5> QED BY <5>1, <5>2 DEF Covered, of
        <4>3. ASSUME NEW t \in o..(m - 1) PROVE t \in Covered(es, z, s)
          <5>1. t \in Nat /\ o <= t /\ t < m
            BY <1>1, <3>3
          <5>2. IsStay(es, of, o, m) /\ o \in of /\ m \in of
            BY <2>1, <3>3, <3>4
          <5> QED BY <5>1, <5>2 DEF Covered, of
        <4> QED BY <4>1, <4>2, <4>3
      <3>6. Covered(es, z, r) \cap (o..(m - 1)) = {}
        <4>1. ASSUME NEW t \in Covered(es, z, r) PROVE t \notin o..(m - 1)
          <5>1. PICK j \in was : t < j /\ t \in Nat
            BY DEF Covered, was
          <5>2. j <= o /\ j \in Nat
            BY <1>1, <3>1, <3>2
          <5> QED BY <3>3, <5>1, <5>2
        <4> QED BY <4>1
      <3>7. /\ IsFiniteSet(o..(m - 1)) /\ Cardinality(o..(m - 1)) = m - o
            /\ IsFiniteSet(Covered(es, z, r))
        <4>1. /\ IsFiniteSet(o..(m - 1))
              /\ Cardinality(o..(m - 1)) = IF o > m - 1 THEN 0 ELSE (m - 1) - o + 1
          <5>1. o \in Int /\ m - 1 \in Int
            BY <3>3
          <5> QED BY <5>1, FS_Interval
        <4>2. (IF o > m - 1 THEN 0 ELSE (m - 1) - o + 1) = m - o
          BY <3>3
        <4>3. r \subseteq 1..n
          OBVIOUS
        <4>4. IsFiniteSet(Covered(es, z, r))
          BY <4>3, CoveredIsFinite
        <4> QED BY <4>1, <4>2, <4>4
      <3>8. Cardinality(Covered(es, z, s)) = Cardinality(Covered(es, z, r)) + (m - o)
        <4> DEFINE a == Covered(es, z, r)
                   b == o..(m - 1)
        <4>1. /\ IsFiniteSet(a) /\ IsFiniteSet(b) /\ a \cap b = {}
              /\ Covered(es, z, s) = a \cup b /\ Cardinality(b) = m - o
          BY <3>5, <3>6, <3>7
        <4> HIDE DEF a, b
        <4>2. Cardinality(a \cup b) = Cardinality(a) + Cardinality(b) - Cardinality(a \cap b)
          BY <4>1, FS_Union
        <4>3. Cardinality(a) \in Nat /\ Cardinality(a \cap b) = 0
          BY <4>1, FS_EmptySet, FS_CardinalityType
        <4> QED BY <3>3, <4>1, <4>2, <4>3 DEF a
      <3> QED BY <1>4, <2>2, <2>6, <3>8 DEF Tally, Pair, o
    <2> QED BY <2>5, <2>6
  <1>5. es[m].type \in {"ENTER", "EXIT"}
    <2>1. m \in 1..Len(es)
      BY <1>1
    <2>2. es[m] \in Event
      BY <2>1
    <2> QED BY <2>2 DEF Event
  <1> QED BY <1>2, <1>3, <1>4, <1>5

\* Two functions of the sets within D agree when a step makes each of a set what
\* it makes of the set without one of its members.
Alike(f, w, one, D) ==
    /\ f[{}] = w[{}]
    /\ \A s \in SUBSET D : s # {} =>
          one[s] \in s /\ (f[s \ {one[s]}] = w[s \ {one[s]}] => f[s] = w[s])

LEMMA StepByStep ==
    ASSUME NEW D, IsFiniteSet(D), NEW f, NEW w, NEW one, Alike(f, w, one, D)
    PROVE  f[D] = w[D]
  <1> SUFFICES ASSUME f[D] # w[D] PROVE FALSE
    OBVIOUS
  <1> DEFINE Differ == {x \in SUBSET D : f[x] # w[x]}
             sizes == {Cardinality(x) : x \in Differ}
  <1>1. \A x \in SUBSET D : IsFiniteSet(x) /\ Cardinality(x) \in Nat
    BY FS_Subset, FS_CardinalityType
  <1>2. sizes \subseteq Nat /\ sizes # {}
    BY <1>1
  <1>3. PICK n \in sizes : \A m \in sizes : n <= m
    <2> HIDE DEF sizes
    <2> QED BY <1>2, Least
  <1>4. PICK x \in Differ : n = Cardinality(x)
    BY <1>3
  <1>5. x \in SUBSET D /\ f[x] # w[x] /\ x # {}
    BY <1>4 DEF Alike
  <1> DEFINE y == x \ {one[x]}
  <1>6. y \in SUBSET D /\ f[y] # w[y] /\ one[x] \in x
    BY <1>5 DEF Alike
  <1>7. Cardinality(y) = Cardinality(x) - 1
    BY <1>1, <1>5, <1>6, FS_RemoveElement
  <1>8. Cardinality(y) \in sizes
    BY <1>6
  <1>9. Cardinality(x) <= Cardinality(x) - 1 /\ Cardinality(x) \in Nat
    BY <1>1, <1>3, <1>4, <1>5, <1>7, <1>8
  <1> QED BY <1>9

\* The pass over the events of a zone counts the stays and finds the open ENTER.
LEMMA PairedIs ==
    ASSUME NEW es \in Seq(Event), NEW z
    PROVE  Paired(es, z) = Tally(es, z, DOMAIN es)
  <1> DEFINE ix == [i \in DOMAIN es |-> i]
             D == DOMAIN ix
             n == Len(es)
             E(f) == f = [s \in SUBSET D |->
                           IF s = {} THEN [open |-> 0, minutes |-> 0]
                           ELSE IF es[ix[Max(s)]].zone = z
                                THEN Pair(f[s \ {Max(s)}], [type |-> es[ix[Max(s)]].type, at |-> ix[Max(s)]])
                                ELSE f[s \ {Max(s)}]]
             one == [s \in SUBSET D |-> Max(s)]
             w == [s \in SUBSET D |-> Tally(es, z, s)]
  <1>1. Paired(es, z) = (CHOOSE f : E(f))[D]
    BY DEF Paired, FoldLeft, MapThenFoldSet
  <1>2. D = DOMAIN es /\ D = 1..n /\ n \in Nat /\ IsFiniteSet(D)
    <2>1. D = DOMAIN es /\ D = 1..n /\ n \in Nat
      OBVIOUS
    <2>2. IsFiniteSet(1..n)
      BY FS_Interval
    <2> QED BY <2>1, <2>2
  <1>3. ASSUME NEW s \in SUBSET D, s # {}
        PROVE  Max(s) \in s /\ \A k \in s : k <= Max(s)
    <2>1. PICK m \in s : \A k \in s : k <= m
      BY <1>2, <1>3, Greatest
    <2>2. \E i \in s : \A k \in s : i >= k
      <3>1. \A k \in s : k \in Nat /\ m \in Nat
        BY <1>2, <2>1
      <3> QED BY <2>1, <3>1
    <2>3. Max(s) \in s /\ \A k \in s : Max(s) >= k
      BY <2>2 DEF Max
    <2>4. \A k \in s : k \in Nat
      BY <1>2
    <2> QED BY <2>3, <2>4
  <1>4. Tally(es, z, {}) = [open |-> 0, minutes |-> 0]
    <2>1. InZone(es, z, {}) = {}
      BY DEF InZone
    <2>2. Covered(es, z, {}) = {}
      BY <2>1 DEF Covered
    <2> QED BY <2>1, <2>2, FS_EmptySet DEF Tally, OpenAt
  <1>5. ASSUME NEW s \in SUBSET D, s # {}
        PROVE  Tally(es, z, s) =
                  IF es[ix[Max(s)]].zone = z
                  THEN Pair(Tally(es, z, s \ {Max(s)}), [type |-> es[ix[Max(s)]].type, at |-> ix[Max(s)]])
                  ELSE Tally(es, z, s \ {Max(s)})
    <2>1. Max(s) \in s /\ (\A k \in s : k <= Max(s)) /\ s \subseteq 1..n /\ n <= Len(es) /\ n \in Nat
      BY <1>2, <1>3, <1>5
    <2>2. ix[Max(s)] = Max(s)
      BY <1>2, <2>1
    <2> HIDE DEF n
    <2> QED BY <2>1, <2>2, TallyStep
  <1> HIDE DEF D, n
  <1>6. E(w)
    <2>1. ASSUME NEW s \in SUBSET D
          PROVE  w[s] = IF s = {} THEN [open |-> 0, minutes |-> 0]
                        ELSE IF es[ix[Max(s)]].zone = z
                             THEN Pair(w[s \ {Max(s)}], [type |-> es[ix[Max(s)]].type, at |-> ix[Max(s)]])
                             ELSE w[s \ {Max(s)}]
      <3>1. w[s] = Tally(es, z, s) /\ w[s \ {Max(s)}] = Tally(es, z, s \ {Max(s)})
        OBVIOUS
      <3> HIDE DEF w
      <3> QED BY <1>4, <1>5, <3>1
    <2> QED BY <2>1
  <1>7. ASSUME NEW f, E(f) PROVE f[D] = w[D]
    <2>1. \A s \in SUBSET D : s # {} => one[s] \in s
      BY <1>3
    <2>2. f[{}] = w[{}]
      BY <1>4, <1>7
    <2>3. ASSUME NEW s \in SUBSET D, s # {}, f[s \ {one[s]}] = w[s \ {one[s]}] PROVE f[s] = w[s]
      <3>1. one[s] = Max(s) /\ s \ {Max(s)} \in SUBSET D
        OBVIOUS
      <3>2. f[s] = IF es[ix[Max(s)]].zone = z
                   THEN Pair(f[s \ {Max(s)}], [type |-> es[ix[Max(s)]].type, at |-> ix[Max(s)]])
                   ELSE f[s \ {Max(s)}]
        BY <1>7, <2>3
      <3>3. w[s] = Tally(es, z, s) /\ w[s \ {Max(s)}] = Tally(es, z, s \ {Max(s)})
        BY <3>1
      <3>4. f[s \ {Max(s)}] = Tally(es, z, s \ {Max(s)})
        BY <2>3, <3>1, <3>3
      <3> HIDE DEF w, one, E
      <3> QED BY <1>5, <2>3, <3>2, <3>3, <3>4
    <2> HIDE DEF w, one, E
    <2>4. Alike(f, w, one, D)
      BY <2>1, <2>2, <2>3 DEF Alike
    <2> QED BY <1>2, <2>4, StepByStep
  <1>8. E(CHOOSE f : E(f))
    <2> HIDE DEF E
    <2> QED BY <1>6
  <1>9. (CHOOSE f : E(f))[D] = w[D]
    <2> HIDE DEF E, w
    <2> QED BY <1>7, <1>8
  <1> QED BY <1>1, <1>2, <1>9

\* The minutes of some stays that follow one another.
Between(stays) == {t \in Nat : \E x \in stays : x.in <= t /\ t < x.out}
Follow(stays) ==
    /\ \A x \in stays : x.in \in Nat /\ x.out \in Nat /\ x.in < x.out
    /\ \A x, y \in stays : x = y \/ x.out <= y.in \/ y.out <= x.in

LEMMA OneMoreStay ==
    ASSUME NEW n \in Nat, NEW s, Follow(s), \A x \in s : x.out <= n, NEW x \in s, NEW r, r = s \ {x}
    PROVE  Cardinality(Between(s)) = Cardinality(Between(r)) + (x.out - x.in)
  <1> DEFINE a == Between(r)
             b == x.in..(x.out - 1)
  <1>1. x.in \in Nat /\ x.out \in Nat /\ x.in < x.out
    BY DEF Follow
  <1>2. Between(s) = a \cup b
    <2>1. \A t \in b : t \in Nat /\ x.in <= t /\ t < x.out
      BY <1>1
    <2>2. \A t \in Nat : x.in <= t /\ t < x.out => t \in b
      BY <1>1
    <2> HIDE DEF b
    <2> QED BY <2>1, <2>2 DEF Between
  <1>3. a \cap b = {}
    <2> SUFFICES ASSUME NEW t \in a, t \in b PROVE FALSE
      OBVIOUS
    <2>1. t \in Nat /\ x.in <= t /\ t < x.out
      BY <1>1
    <2>2. PICK y \in r : y.in <= t /\ t < y.out
      BY DEF Between
    <2>3. y.in \in Nat /\ y.out \in Nat /\ (x.out <= y.in \/ y.out <= x.in)
      BY <2>2 DEF Follow
    <2> HIDE DEF a, b
    <2> QED BY <1>1, <2>1, <2>2, <2>3
  <1>4. IsFiniteSet(a)
    <2>1. a \subseteq 0..n
      <3> SUFFICES ASSUME NEW t \in a PROVE t \in 0..n
        OBVIOUS
      <3>1. PICK y \in s : t < y.out /\ t \in Nat
        BY DEF Between
      <3>2. y.out \in Nat /\ y.out <= n
        BY DEF Follow
      <3> QED BY <3>1, <3>2
    <2>2. IsFiniteSet(0..n)
      BY FS_Interval
    <2> QED BY <2>1, <2>2, FS_Subset
  <1>5. IsFiniteSet(b) /\ Cardinality(b) = x.out - x.in
    <2>1. PICK i \in Nat, j \in Nat : i = x.in /\ j = x.out /\ i < j
      BY <1>1
    <2>2. b = i..(j - 1) /\ i \in Int /\ j - 1 \in Int
      BY <2>1
    <2>3. IsFiniteSet(b) /\ Cardinality(b) = IF i > j - 1 THEN 0 ELSE (j - 1) - i + 1
      BY <2>2, FS_Interval
    <2>4. (IF i > j - 1 THEN 0 ELSE (j - 1) - i + 1) = j - i
      BY <2>1
    <2> QED BY <2>1, <2>3, <2>4
  <1> HIDE DEF a, b
  <1>6. Cardinality(a \cup b) = Cardinality(a) + Cardinality(b) - Cardinality(a \cap b)
    BY <1>4, <1>5, FS_Union
  <1>7. Cardinality(a) \in Nat /\ Cardinality(a \cap b) = 0
    BY <1>3, <1>4, FS_EmptySet, FS_CardinalityType
  <1> QED BY <1>1, <1>2, <1>5, <1>6, <1>7 DEF a

LEMMA MinutesOf ==
    ASSUME NEW n \in Nat, NEW stays, NEW D, D = {s \in stays : s.out # 0},
           IsFiniteSet(D), Follow(D), \A s \in D : s.out <= n
    PROVE  Minutes(stays) = Cardinality(Between(D))
  <1> DEFINE E(f) == f = [s \in SUBSET D |->
                           IF s = {} THEN 0
                           ELSE f[s \ {CHOOSE x \in s : TRUE}] +
                                ((CHOOSE x \in s : TRUE).out - (CHOOSE x \in s : TRUE).in)]
             one == [s \in SUBSET D |-> CHOOSE x \in s : TRUE]
             w == [s \in SUBSET D |-> Cardinality(Between(s))]
  <1>1. Minutes(stays) = (CHOOSE f : E(f))[D]
    BY DEF Minutes, FoldSet, MapThenFoldSet
  <1>2. Cardinality(Between({})) = 0
    <2>1. Between({}) = {}
      BY DEF Between
    <2> QED BY <2>1, FS_EmptySet
  <1>3. ASSUME NEW s \in SUBSET D, s # {}
        PROVE  /\ one[s] \in s
               /\ Cardinality(Between(s)) =
                     Cardinality(Between(s \ {one[s]})) + (one[s].out - one[s].in)
    <2>1. one[s] \in s
      BY <1>3
    <2>2. Follow(s) /\ \A x \in s : x.out <= n
      BY DEF Follow
    <2> HIDE DEF one
    <2> QED BY <2>1, <2>2, OneMoreStay
  <1>4. E(w)
    <2>1. ASSUME NEW s \in SUBSET D
          PROVE  w[s] = IF s = {} THEN 0
                        ELSE w[s \ {CHOOSE x \in s : TRUE}] +
                             ((CHOOSE x \in s : TRUE).out - (CHOOSE x \in s : TRUE).in)
      <3>1. w[s] = Cardinality(Between(s)) /\ one[s] = CHOOSE x \in s : TRUE
        OBVIOUS
      <3>2. w[s \ {one[s]}] = Cardinality(Between(s \ {one[s]}))
        OBVIOUS
      <3> HIDE DEF w, one
      <3> QED BY <1>2, <1>3, <3>1, <3>2
    <2> QED BY <2>1
  <1>5. ASSUME NEW f, E(f) PROVE f[D] = w[D]
    <2>1. f[{}] = w[{}]
      BY <1>2, <1>5
    <2>2. ASSUME NEW s \in SUBSET D, s # {}
          PROVE  one[s] \in s /\ (f[s \ {one[s]}] = w[s \ {one[s]}] => f[s] = w[s])
      <3>1. one[s] = CHOOSE x \in s : TRUE
        OBVIOUS
      <3>2. w[s] = Cardinality(Between(s)) /\ w[s \ {one[s]}] = Cardinality(Between(s \ {one[s]}))
        OBVIOUS
      <3>3. f[s] = f[s \ {one[s]}] + (one[s].out - one[s].in)
        BY <1>5, <2>2, <3>1
      <3> HIDE DEF w, one, E
      <3> QED BY <1>3, <2>2, <3>2, <3>3
    <2> HIDE DEF w, one, E
    <2>3. Alike(f, w, one, D)
      BY <2>1, <2>2 DEF Alike
    <2> QED BY <2>3, StepByStep
  <1>6. E(CHOOSE f : E(f))
    <2> HIDE DEF E
    <2> QED BY <1>4
  <1>7. (CHOOSE f : E(f))[D] = w[D]
    <2> HIDE DEF E, w
    <2> QED BY <1>5, <1>6
  <1> QED BY <1>1, <1>7

LEMMA NextIs ==
    ASSUME NEW es \in Seq(Event), NEW i \in DOMAIN es
    PROVE  \/ /\ NextIn(es, i) = 0
              /\ \A j \in DOMAIN es : j > i => es[j].zone # es[i].zone
           \/ /\ NextIn(es, i) \in DOMAIN es /\ NextIn(es, i) > i /\ es[NextIn(es, i)].zone = es[i].zone
              /\ \A j \in DOMAIN es : j > i /\ es[j].zone = es[i].zone => NextIn(es, i) <= j
  <1> DEFINE later == {j \in DOMAIN es : j > i /\ es[j].zone = es[i].zone}
  <1>1. later \subseteq Nat
    OBVIOUS
  <1>2. NextIn(es, i) = IF later = {} THEN 0 ELSE CHOOSE j \in later : \A k \in later : j <= k
    BY DEF NextIn
  <1>3. CASE later = {}
    BY <1>2, <1>3
  <1>4. CASE later # {}
    <2>1. \E j \in later : \A k \in later : j <= k
      <3> HIDE DEF later
      <3> QED BY <1>1, <1>4, Least
    <2>2. NextIn(es, i) \in later /\ \A k \in later : NextIn(es, i) <= k
      <3> HIDE DEF later
      <3> QED BY <1>2, <1>4, <2>1
    <2> QED BY <2>2
  <1> QED BY <1>3, <1>4

Closed(es, z) == {s \in Presence(es, z) : s.out # 0}

\* The presences that ended are the stays.
LEMMA ClosedAre ==
    ASSUME NEW es \in Seq(Event), NEW z, NEW of, of = InZone(es, z, DOMAIN es)
    PROVE  /\ \A s \in Closed(es, z) : IsStay(es, of, s.in, s.out) /\ s = [in |-> s.in, out |-> s.out]
           /\ \A i, j \in of : IsStay(es, of, i, j) => [in |-> i, out |-> j] \in Closed(es, z)
  <1>1. DOMAIN es = 1..Len(es) /\ Len(es) \in Nat /\ \A i \in DOMAIN es : i \in Nat /\ i # 0
    OBVIOUS
  <1>2. of = {i \in DOMAIN es : es[i].zone = z}
    BY DEF InZone
  <1>3. ASSUME NEW s \in Closed(es, z)
        PROVE  IsStay(es, of, s.in, s.out) /\ s = [in |-> s.in, out |-> s.out]
    <2>1. PICK i \in Visits(es, z) :
             s = [in |-> i, out |-> IF NextIn(es, i) \in At(es, z, "EXIT") THEN NextIn(es, i) ELSE 0]
      BY DEF Closed, Presence
    <2>2. s.out # 0
      BY DEF Closed
    <2>3. NextIn(es, i) \in At(es, z, "EXIT") /\ s.in = i /\ s.out = NextIn(es, i)
      BY <2>1, <2>2
    <2>4. i \in of /\ es[i].type = "ENTER" /\ s.out \in of /\ es[s.out].type = "EXIT" /\ i \in DOMAIN es
      BY <1>2, <2>3 DEF Visits, At
    <2>5. i < s.out /\ \A k \in DOMAIN es : k > i /\ es[k].zone = z => s.out <= k
      BY <1>1, <1>2, <2>2, <2>3, <2>4, NextIs
    <2>6. \A k \in of : ~ (i < k /\ k < s.out)
      BY <1>1, <1>2, <2>4, <2>5
    <2> QED BY <2>1, <2>3, <2>4, <2>5, <2>6 DEF IsStay
  <1>4. ASSUME NEW i \in of, NEW j \in of, IsStay(es, of, i, j)
        PROVE  [in |-> i, out |-> j] \in Closed(es, z)
    <2>1. i \in DOMAIN es /\ j \in DOMAIN es /\ i < j /\ es[i].zone = z /\ es[j].zone = z
          /\ es[i].type = "ENTER" /\ es[j].type = "EXIT" /\ \A k \in of : ~ (i < k /\ k < j)
      BY <1>2, <1>4 DEF IsStay
    <2>2. NextIn(es, i) = j
      <3>1. NextIn(es, i) \in of /\ NextIn(es, i) > i /\ NextIn(es, i) <= j
        BY <1>1, <1>2, <2>1, NextIs
      <3>2. NextIn(es, i) \in Nat
        BY <1>1, <1>2, <3>1
      <3> QED BY <1>1, <2>1, <3>1, <3>2
    <2>3. i \in Visits(es, z) /\ j \in At(es, z, "EXIT")
      BY <2>1 DEF Visits, At
    <2>4. [in |-> i, out |-> j] \in Presence(es, z)
      BY <2>2, <2>3 DEF Presence
    <2> QED BY <1>1, <2>1, <2>4 DEF Closed
  <1> QED BY <1>3, <1>4

LEMMA ClosedFollow ==
    ASSUME NEW es \in Seq(Event), NEW z
    PROVE  Follow(Closed(es, z)) /\ IsFiniteSet(Closed(es, z)) /\ \A s \in Closed(es, z) : s.out <= Len(es)
  <1> DEFINE of == InZone(es, z, DOMAIN es)
             C == Closed(es, z)
             n == Len(es)
  <1>1. of \subseteq 1..n /\ n \in Nat
    BY DEF InZone
  <1>2. \A s \in C : IsStay(es, of, s.in, s.out) /\ s = [in |-> s.in, out |-> s.out]
    BY ClosedAre
  <1> HIDE DEF of, C, n
  <1>3. ASSUME NEW s \in C
        PROVE  s.in \in of /\ s.out \in of /\ s.in \in 1..n /\ s.out \in 1..n /\ s.in < s.out
    BY <1>1, <1>2 DEF IsStay
  <1>4. ASSUME NEW x \in C, NEW y \in C, x # y PROVE x.out <= y.in \/ y.out <= x.in
    <2>1. ~ (x.in < y.in /\ y.in < x.out) /\ ~ (y.in < x.in /\ x.in < y.out)
          /\ ~ (x.in < y.out /\ y.out < x.out) /\ ~ (y.in < x.out /\ x.out < y.out)
      BY <1>2, <1>3 DEF IsStay
    <2>2. x.in # y.in \/ x.out # y.out
      BY <1>2, <1>4
    <2>3. PICK a \in 1..n, b \in 1..n, c \in 1..n, d \in 1..n : a = x.in /\ b = x.out /\ c = y.in /\ d = y.out
      BY <1>3
    <2>4. a < b /\ c < d
      BY <1>3, <2>3
    <2> QED BY <1>1, <2>1, <2>2, <2>3, <2>4
  <1>5. Follow(C)
    <2>1. \A x \in C : x.in \in Nat /\ x.out \in Nat /\ x.in < x.out
      BY <1>1, <1>3
    <2> QED BY <1>4, <2>1 DEF Follow
  <1>6. IsFiniteSet(C)
    <2> DEFINE f == [s \in C |-> s.in]
    <2>1. f \in [C -> 1..n]
      BY <1>3
    <2>2. ASSUME NEW x \in C, NEW y \in C, f[x] = f[y] PROVE x = y
      <3>1. x.in = y.in
        BY <2>2
      <3>2. \A a, b, c \in 1..n : a < b /\ a < c => ~ (b <= a \/ c <= a)
        BY <1>1
      <3>3. x.in \in 1..n /\ x.out \in 1..n /\ y.out \in 1..n /\ x.in < x.out /\ x.in < y.out
        BY <1>3, <3>1
      <3> QED BY <1>4, <3>1, <3>2, <3>3
    <2> HIDE DEF f
    <2>3. f \in Injection(C, 1..n)
      BY <2>1, <2>2 DEF Injection, IsInjective
    <2>4. IsFiniteSet(1..n)
      BY <1>1, FS_Interval
    <2> QED BY <2>3, <2>4, FS_Injection
  <1>7. \A s \in C : s.out <= n
    BY <1>1, <1>3
  <1> QED BY <1>5, <1>6, <1>7 DEF C, n

\* The presences that ended have the minutes of the stays.
LEMMA MinutesAre ==
    ASSUME NEW es \in Seq(Event), NEW z
    PROVE  Minutes(Presence(es, z)) = Cardinality(Covered(es, z, DOMAIN es))
  <1> DEFINE of == InZone(es, z, DOMAIN es)
             C == Closed(es, z)
  <1>1. Minutes(Presence(es, z)) = Cardinality(Between(C))
    <2>1. C = {s \in Presence(es, z) : s.out # 0}
      BY DEF Closed
    <2>2. Follow(C) /\ IsFiniteSet(C) /\ (\A s \in C : s.out <= Len(es)) /\ Len(es) \in Nat
      BY ClosedFollow
    <2> HIDE DEF C
    <2> QED BY <2>1, <2>2, MinutesOf
  <1>2. /\ \A s \in C : IsStay(es, of, s.in, s.out) /\ s = [in |-> s.in, out |-> s.out]
        /\ \A i, j \in of : IsStay(es, of, i, j) => [in |-> i, out |-> j] \in C
    BY ClosedAre
  <1> HIDE DEF C
  <1>3. \A s \in C : s.in \in of /\ s.out \in of
    BY <1>2 DEF IsStay
  <1>4. Between(C) = Covered(es, z, DOMAIN es)
    <2>1. ASSUME NEW t \in Between(C) PROVE t \in Covered(es, z, DOMAIN es)
      BY <1>2, <1>3 DEF Between, Covered
    <2>2. ASSUME NEW t \in Covered(es, z, DOMAIN es) PROVE t \in Between(C)
      <3>1. PICK i \in of, j \in of : IsStay(es, of, i, j) /\ i <= t /\ t < j /\ t \in Nat
        BY DEF Covered
      <3>2. [in |-> i, out |-> j] \in C
        BY <1>2, <3>1
      <3>3. [in |-> i, out |-> j].in <= t /\ t < [in |-> i, out |-> j].out
        BY <3>1
      <3> QED BY <3>1, <3>2, <3>3 DEF Between
    <2> QED BY <2>1, <2>2
  <1> QED BY <1>1, <1>4

LEMMA DwellIs ==
    ASSUME NEW es \in Seq(Event), NEW z, NEW s \in Presence(es, z), s.out # 0
    PROVE  Dwell(es, s.out) = s.out - s.in
  <1> DEFINE of == InZone(es, z, DOMAIN es)
             enters == {j \in Visits(es, es[s.out].zone) : j < s.out}
             n == Len(es)
  <1>1. IsStay(es, of, s.in, s.out) /\ n \in Nat /\ DOMAIN es = 1..n
    BY ClosedAre DEF Closed
  <1>2. /\ s.in \in 1..n /\ s.out \in 1..n /\ s.in < s.out /\ es[s.in].type = "ENTER"
        /\ es[s.in].zone = z /\ es[s.out].zone = z
        /\ \A k \in 1..n : es[k].zone = z => ~ (s.in < k /\ k < s.out)
    BY <1>1 DEF IsStay, InZone
  <1>3. s.in \in enters /\ enters \subseteq 1..n
    BY <1>1, <1>2 DEF Visits, At
  <1>4. \A k \in enters : k <= s.in
    <2> SUFFICES ASSUME NEW k \in enters PROVE k <= s.in
      OBVIOUS
    <2>1. k \in 1..n /\ es[k].zone = z /\ k < s.out
      BY <1>1, <1>2 DEF Visits, At
    <2> QED BY <1>1, <1>2, <2>1
  <1>5. Dwell(es, s.out) = IF enters = {} THEN 0 ELSE s.out - LastOf(enters)
    BY DEF Dwell
  <1>6. LastOf(enters) = s.in
    <2> HIDE DEF enters, n
    <2> QED BY <1>1, <1>3, <1>4, LastIs
  <1> HIDE DEF enters
  <1> QED BY <1>3, <1>5, <1>6

\* What each reading says of a zone.
LEMMA ReadingsAre ==
    ASSUME NEW es \in Seq(Event), NEW z
    PROVE  /\ Paired(es, z).minutes \in Nat /\ Paired(es, z).minutes = Minutes(Presence(es, z))
           /\ Visits(es, z) = {} => Paired(es, z).minutes = 0
           /\ z \in DOMAIN EmployeeVisits(es) <=> z \in Zone /\ Visits(es, z) # {}
           /\ z \in DOMAIN EmployeeVisits(es) =>
                 EmployeeVisits(es)[z] = [visits |-> Cardinality(Visits(es, z)), minutes |-> Paired(es, z).minutes]
  <1> DEFINE D == DOMAIN es
             covered == Covered(es, z, D)
  <1>1. Paired(es, z).minutes = Cardinality(covered)
    BY PairedIs DEF Tally
  <1>2. Cardinality(covered) \in Nat
    <2>1. IsFiniteSet(covered)
      BY CoveredIsFinite
    <2> QED BY <2>1, FS_CardinalityType
  <1>3. Paired(es, z).minutes = Minutes(Presence(es, z))
    BY <1>1, MinutesAre
  <1>5. ASSUME Visits(es, z) = {} PROVE Paired(es, z).minutes = 0
    <2>1. covered = {}
      BY <1>5 DEF Covered, IsStay, InZone, Visits, At
    <2> QED BY <1>1, <2>1, FS_EmptySet
  <1>6. z \in DOMAIN EmployeeVisits(es) <=> z \in Zone /\ Visits(es, z) # {}
    BY DEF EmployeeVisits
  <1>7. ASSUME z \in DOMAIN EmployeeVisits(es)
        PROVE  EmployeeVisits(es)[z] = [visits |-> Cardinality(Visits(es, z)), minutes |-> Paired(es, z).minutes]
    BY <1>3, <1>7 DEF EmployeeVisits
  <1> QED BY <1>1, <1>2, <1>3, <1>5, <1>6, <1>7

\* The ENTER that is open is the last one, if the last event is an ENTER.
LEMMA OpenTells ==
    ASSUME NEW es \in Seq(Event), NEW z
    PROVE  /\ CurrentlyInside(es, z) =>
                 Paired(es, z).open = LastOf(Visits(es, z)) /\ LastOf(Visits(es, z)) \in Nat \ {0}
           /\ ~CurrentlyInside(es, z) => Paired(es, z).open = 0
  <1> DEFINE of == InZone(es, z, DOMAIN es)
             n == Len(es)
             enters == Visits(es, z)
  <1>1. of \subseteq 1..n /\ n \in Nat /\ DOMAIN es \subseteq 1..n
    BY DEF InZone
  <1>2. \A i \in DOMAIN es : es[i].type \in {"ENTER", "EXIT"}
    <2>1. \A i \in DOMAIN es : es[i] \in Event
      OBVIOUS
    <2> QED BY <2>1 DEF Event
  <1>3. At(es, z, "ENTER") \cup At(es, z, "EXIT") = of
    BY <1>2 DEF At, InZone
  <1>4. enters = {i \in of : es[i].type = "ENTER"}
    BY DEF Visits, At, InZone
  <1>5. CurrentlyInside(es, z) <=> of # {} /\ es[LastOf(of)].type = "ENTER"
    BY <1>3 DEF CurrentlyInside
  <1>6. Paired(es, z).open = OpenAt(es, z, DOMAIN es)
    BY PairedIs DEF Tally
  <1>7. of = {} => OpenAt(es, z, DOMAIN es) = 0
    BY <1>1, OpenIs
  <1>8. ASSUME NEW m \in of, \A k \in of : k <= m
        PROVE  OpenAt(es, z, DOMAIN es) = IF es[m].type = "ENTER" THEN m ELSE 0
    BY <1>1, <1>8, OpenIs
  <1> HIDE DEF of, n, enters
  <1>9. CASE of # {}
    <2>1. PICK m \in of : \A k \in of : k <= m
      BY <1>1, <1>9, Greatest
    <2>2. LastOf(of) = m /\ m \in Nat \ {0}
      <3>1. LastOf(of) = m
        BY <1>1, <2>1, LastIs
      <3> QED BY <1>1, <2>1, <3>1
    <2>3. OpenAt(es, z, DOMAIN es) = IF es[m].type = "ENTER" THEN m ELSE 0
      BY <1>8, <2>1
    <2>4. ASSUME es[m].type = "ENTER" PROVE LastOf(enters) = m
      <3>1. enters \subseteq 1..n /\ m \in enters /\ \A k \in enters : k <= m
        BY <1>1, <1>4, <2>1, <2>4
      <3> QED BY <1>1, <3>1, LastIs
    <2> QED BY <1>5, <1>6, <1>9, <2>2, <2>3, <2>4 DEF enters
  <1> QED BY <1>5, <1>6, <1>7, <1>9

\* What the END adds to the minutes of a zone that was not left.
LastStay(es, z, end) ==
    IF CurrentlyInside(es, z) /\ end > LastOf(Visits(es, z)) THEN end - LastOf(Visits(es, z)) ELSE 0

LEMMA DurationsAre ==
    ASSUME NEW es \in Seq(Event), NEW end \in Nat, NEW z \in DOMAIN ZoneDurations(es, end)
    PROVE  /\ ZoneDurations(es, end)[z] = Paired(es, z).minutes + LastStay(es, z, end)
           /\ LastStay(es, z, end) \in Nat
           /\ \E i \in DOMAIN es : es[i].zone = z
  <1>1. PICK open : open = Paired(es, z).open
    OBVIOUS
  <1>2. PICK last : last = LastOf(Visits(es, z))
    OBVIOUS
  <1>3. ZoneDurations(es, end)[z] =
           Paired(es, z).minutes + IF open # 0 /\ end > open THEN end - open ELSE 0
    BY <1>1 DEF ZoneDurations
  <1>4. LastStay(es, z, end) = IF open # 0 /\ end > open THEN end - open ELSE 0
    <2>1. CASE CurrentlyInside(es, z)
      <3>1. open = last /\ last \in Nat \ {0}
        BY <1>1, <1>2, <2>1, OpenTells
      <3> QED BY <1>2, <2>1, <3>1 DEF LastStay
    <2>2. CASE ~CurrentlyInside(es, z)
      BY <1>1, <2>2, OpenTells DEF LastStay
    <2> QED BY <2>1, <2>2
  <1>5. open \in Nat
    BY <1>1, OpenTells
  <1>6. LastStay(es, z, end) \in Nat
    BY <1>4, <1>5
  <1>7. \E i \in DOMAIN es : es[i].zone = z
    BY DEF ZoneDurations
  <1> QED BY <1>3, <1>4, <1>6, <1>7

LEMMA ReadingsOf ==
    ASSUME events \in [People -> Seq(Event)], ended \in [People -> Nat]
    PROVE  ReadingsAgree
  <1> SUFFICES ASSUME NEW u \in People, NEW z \in Zone, NEW es, es = events[u], NEW end, end = ended[u]
      PROVE  /\ ZoneDay(es, z).minutes = Minutes(Presence(es, z))
             /\ ZoneDay(es, z).visited => EmployeeVisits(es)[z] =
                   [visits |-> ZoneDay(es, z).visits, minutes |-> ZoneDay(es, z).minutes]
             /\ z \in DOMAIN ZoneDurations(es, end) =>
                   ZoneDurations(es, end)[z] = ZoneDay(es, z).minutes + LastStay(es, z, end)
             /\ \A s \in Presence(es, z) : s.out # 0 => Dwell(es, s.out) = s.out - s.in
    BY DEF ReadingsAgree, EndedIn, LastStay
  <1>1. es \in Seq(Event) /\ end \in Nat
    OBVIOUS
  <1>2. ZoneDay(es, z) = [visited |-> Visits(es, z) # {}, visits |-> Cardinality(Visits(es, z)),
                          minutes |-> Paired(es, z).minutes]
    BY DEF ZoneDay
  <1>3. ZoneDay(es, z).minutes = Paired(es, z).minutes /\ ZoneDay(es, z).visits = Cardinality(Visits(es, z))
    BY <1>2
  <1>5. ZoneDay(es, z).visited <=> Visits(es, z) # {}
    <2> DEFINE v == Visits(es, z) # {}
    <2>1. ZoneDay(es, z) = [visited |-> v, visits |-> Cardinality(Visits(es, z)),
                            minutes |-> Paired(es, z).minutes]
      BY <1>2
    <2> HIDE DEF v
    <2>2. ZoneDay(es, z).visited = v
      BY <2>1
    <2>3. v \in BOOLEAN
      BY DEF v
    <2> QED BY <2>2, <2>3 DEF v
  <1>4. \A s \in Presence(es, z) : s.out # 0 => Dwell(es, s.out) = s.out - s.in
    BY <1>1, DwellIs
  <1>6. z \in DOMAIN ZoneDurations(es, end) =>
           ZoneDurations(es, end)[z] = ZoneDay(es, z).minutes + LastStay(es, z, end)
    BY <1>1, <1>3, DurationsAre
  <1> QED BY <1>1, <1>3, <1>4, <1>5, <1>6, ReadingsAre

-----------------------------------------------------------------------------
(* Reports and the screens they are of                                      *)

\* The reports without zones.
PlainKinds == {"TEAM", "CUSTOMER", "LEADS", "ATTENDANCE", "DISTANCE"}

\* The rows of a screen are in the report, and what the report says of visits is
\* on the screen, the zones apart in which a day ended.
Matches(a, rows, screen) ==
    /\ {r \in screen : ~OfLastStay(a, r)} \subseteq rows
    /\ {r \in rows : /\ r.zone = None \/ a.kind = "COMPLIANCE" \/ r.minutes > 0
                     /\ ~OfLastStay(a, r)} \subseteq screen

\* A report in work whose screen has stood still.
Faithful(b) ==
    \A u \in {b.owner}, a \in {b.ask} :
        /\ a \in MayAsk(u)
        /\ b.stage = "READ" /\ a.kind = "TEAM" =>
              \A t \in {a.team} : b.members \subseteq In({t})
        /\ b.stage = "READ" /\ a.kind = "COMPLIANCE" =>
              \A t \in {a.team} : b.members = ActiveIn(t)
        /\ b.stage = "BUILT" => /\ a.kind \in PlainKinds => b.rows = Screen(u, a)
                                /\ Matches(a, b.rows, Screen(u, a))

\* What becomes of the status and the file.
Filed(b) ==
    /\ b.stage = "BUILT" => b.file = "FRESH"
    /\ b.key = "READY" => b.stage = "ENDED"
    /\ b.key = "READY" /\ b.auto => b.file # "NONE"

Working == {"QUEUED", "READ", "BUILT"}

ShownInv ==
    /\ DOMAIN job = Jobs
    /\ \A j \in Jobs :
          /\ DOMAIN job[j] = DOMAIN NoJob
          /\ Filed(job[j])
          /\ job[j].stage \in Working /\ job[j].still => Faithful(job[j])

\* A screen depends on people, teams, customers, zones and events.
LEMMA ScreenStays ==
    ASSUME UNCHANGED <<user, team, customer, zone, events>>, NEW u, NEW a
    PROVE  /\ MayAsk(u)' = MayAsk(u)
           /\ \A t : In({t})' = In({t}) /\ ActiveIn(t)' = ActiveIn(t)
           /\ Screen(u, a)' = Screen(u, a)
  <1>1. (\A ts : In(ts)' = In(ts)) /\ (\A ts : CustomersOf(ts)' = CustomersOf(ts))
        /\ Managed(u)' = Managed(u) /\ Own(u)' = Own(u) /\ CreatedBy(u)' = CreatedBy(u)
        /\ Manager(u)' = Manager(u) /\ (\A fs : WithLead(fs)' = WithLead(fs))
    BY DEF In, CustomersOf, Managed, Own, CreatedBy, Manager, WithLead, Present
  <1>2. MayAsk(u)' = MayAsk(u)
    <2>1. TeamAsks(u)' = TeamAsks(u) /\ PersonAsks(u)' = PersonAsks(u)
          /\ CustomerAsks(u)' = CustomerAsks(u)
      BY <1>1 DEF TeamAsks, PersonAsks, CustomerAsks
    <2>2. RangeAsks(u)' = RangeAsks(u)
      BY <1>1 DEF RangeAsks
    <2>3. LeadAsks(u)' = LeadAsks(u)
      <3> DEFINE Leads(t) == {Of("LEADS", t, v, None) : v \in {None} \cup In({t})}
      <3>1. \A t : Leads(t)' = Leads(t)
        BY <1>1
      <3> HIDE DEF Leads
      <3>2. UNION {Leads(t)' : t \in Managed(u)'} = UNION {Leads(t) : t \in Managed(u)}
        BY <1>1, <3>1
      <3> QED BY <3>2 DEF LeadAsks, Leads
    <2> QED BY <1>1, <2>1, <2>2, <2>3 DEF MayAsk
  <1>3. (\A t : PendingOrders(u, t)' = PendingOrders(u, t))
        /\ (\A v : Present(v)' = Present(v)) /\ (\A v : CanReview(u, v)' = CanReview(u, v))
        /\ (\A f : CanView(u, f)' = CanView(u, f))
        /\ (\A t, e : TeamLeads(u, t, e)' = TeamLeads(u, t, e))
    BY <1>1 DEF PendingOrders, Present, CanReview, CanView, TeamLeads, Managed, Own, Manager
  <1>4. \A v : Relevant(v)' = Relevant(v)
    BY DEF Relevant, ZonesFor, Own
  <1>5. Screen(u, a)' = Screen(u, a)
    <2>1. CASE a.kind = "TEAM"
      BY <1>3, <2>1 DEF Screen
    <2>2. CASE a.kind = "CUSTOMER"
      BY <1>3, <2>2 DEF Screen
    <2>3. CASE a.kind = "LEADS"
      BY <1>3, <2>3 DEF Screen
    <2>4. CASE a.kind \in {"ATTENDANCE", "DISTANCE"}
      BY <1>3, <2>4 DEF Screen
    <2>5. CASE a.kind = "COMPLIANCE"
      <3> DEFINE mine == PendingOrders(u, a.team)
                 near == UNION {Relevant(v) : v \in mine}
                 active == {v \in mine : user[v].active}
      <3>1. mine' = mine /\ near' = near
        BY <1>3, <1>4
      <3>2. active' = active
        BY <3>1
      <3> DEFINE shown(v, z) == IF z \in DOMAIN EmployeeVisits(events[v])
                                THEN Row(v, z, EmployeeVisits(events[v])[z].visits,
                                               EmployeeVisits(events[v])[z].minutes)
                                ELSE Row(v, z, 0, 0)
      <3>3. Screen(u, a) = {shown(v, z) : v \in active, z \in near}
        BY <2>5 DEF Screen
      <3>4. Screen(u, a)' = {shown(v, z)' : v \in active', z \in near'}
        BY <2>5 DEF Screen
      <3>5. \A v, z : shown(v, z)' = shown(v, z)
        OBVIOUS
      <3> HIDE DEF mine, active, near, shown
      <3> QED BY <3>1, <3>2, <3>3, <3>4, <3>5
    <2>6. CASE a.kind \notin PlainKinds \cup {"COMPLIANCE"}
      <3> DEFINE asked == IF a.team # None THEN PendingOrders(u, a.team)
                          ELSE {v \in {a.who} : Present(v) /\ (v = u \/ CanReview(u, v))}
      <3>1. asked' = asked
        BY <1>3
      <3>2. Screen(u, a) = ZonesOnScreen(asked) /\ Screen(u, a)' = ZonesOnScreen(asked)'
        BY <2>6 DEF Screen, PlainKinds
      <3>3. ZonesOnScreen(asked)' = ZonesOnScreen(asked)
        BY <3>1 DEF ZonesOnScreen
      <3> QED BY <3>2, <3>3
    <2> QED BY <2>1, <2>2, <2>3, <2>4, <2>5, <2>6 DEF PlainKinds
  <1>6. \A t : ActiveIn(t)' = ActiveIn(t)
    BY <1>1 DEF ActiveIn
  <1> QED BY <1>1, <1>2, <1>5, <1>6

\* What may be asked for, kind by kind.
LEMMA AsksAreOf ==
    ASSUME NEW u, NEW a \in MayAsk(u)
    PROVE  /\ a.kind \in Kinds
           /\ a.kind = "TEAM" => a.team \in Managed(u)
           /\ a.kind = "CUSTOMER" =>
                 a.customer \in CreatedBy(u) \cup CustomersOf(IF Manager(u) THEN Managed(u) ELSE Own(u))
           /\ a.kind \in {"LEADS", "COMPLIANCE"} => a.team \in Managed(u)
           /\ a.kind = "PERSON" => a.team = None /\ a.who \in In(Managed(u))
           /\ a.kind \in {"ATTENDANCE", "DISTANCE", "ZONES"} =>
                 \/ a.team \in Managed(u)
                 \/ a.team = None /\ a.who \in In(Managed(u))
                 \/ a.team = None /\ a.who = u
  <1>1. CASE a \in CustomerAsks(u)
    BY <1>1 DEF CustomerAsks, Of, Kinds
  <1>2. CASE a \in TeamAsks(u) \cup PersonAsks(u)
    BY <1>2 DEF TeamAsks, PersonAsks, Of, Kinds
  <1>3. CASE a \in LeadAsks(u)
    <2>1. PICK t \in Managed(u) : a \in {Of("LEADS", t, v, None) : v \in {None} \cup In({t})}
      BY <1>3 DEF LeadAsks
    <2> QED BY <2>1 DEF Of, Kinds
  <1>4. CASE a \in RangeAsks(u)
    BY <1>4 DEF RangeAsks, Of, Ranges, Kinds
  <1>5. CASE a \in {Of(k, None, u, None) : k \in Ranges}
    BY <1>5 DEF Of, Ranges, Kinds
  <1> QED BY <1>1, <1>2, <1>3, <1>4, <1>5 DEF MayAsk

LEMMA TeamOfAnAsk ==
    ASSUME NEW u, NEW a, a \in MayAsk(u)', a.kind = "TEAM"
    PROVE  a.team \in Managed(u)'
  <1>1. CASE a \in CustomerAsks(u)' \/ a \in PersonAsks(u)' \/ a \in RangeAsks(u)'
    BY <1>1 DEF CustomerAsks, PersonAsks, RangeAsks, Of, Ranges
  <1>2. CASE a \in LeadAsks(u)'
    <2>1. PICK t : a \in {Of("LEADS", t, v, None) : v \in {None} \cup In({t})'}
      BY <1>2 DEF LeadAsks
    <2> QED BY <2>1 DEF Of
  <1>3. CASE a \in TeamAsks(u)'
    BY <1>3 DEF TeamAsks, Of
  <1>4. CASE a \in {Of(k, None, u, None) : k \in Ranges}
    BY <1>4 DEF Of, Ranges
  <1> QED BY <1>1, <1>2, <1>3, <1>4 DEF MayAsk

\* Read from the tables as they are, such a report is its screen.
LEMMA BuildShows ==
    ASSUME NEW u, NEW a \in MayAsk(u), a.kind \in PlainKinds,
           NEW members, a.kind = "TEAM" => members \subseteq In({a.team})
    PROVE  Build(a, members) = Screen(u, a)
  <1>1. \A t \in Managed(u) : t # None /\ Managed(u) \cap {t} = {t}
    BY StaffAssumption DEF Managed
  <1>2. CASE a.kind = "TEAM"
    <2>1. members \cup In({a.team}) = In({a.team}) /\ PendingOrders(u, a.team) = In({a.team})
      BY <1>1, <1>2, AsksAreOf DEF PendingOrders
    <2> QED BY <1>2, <2>1 DEF Build, TeamRows, Screen
  <1>3. CASE a.kind = "CUSTOMER"
    <2>0. a.customer \in CreatedBy(u) \cup CustomersOf(IF Manager(u) THEN Managed(u) ELSE Own(u))
      BY <1>3, AsksAreOf
    <2>1. \A f \in {a.customer} : customer[f].here => CanView(u, f)
      BY <2>0 DEF CreatedBy, CustomersOf, CanView, Own
    <2>2. {f \in {a.customer} : customer[f].here} = {f \in {a.customer} : customer[f].here /\ CanView(u, f)}
      BY <2>1
    <2> QED BY <1>3, <2>2 DEF Build, CustomerRows, Screen
  <1>4. CASE a.kind = "LEADS"
    <2>1. TeamLeads(u, a.team, a.who) =
             {f \in WithLead(CustomersOf({a.team})) : a.who \in {None, customer[f].lead}}
      BY <1>1, <1>4, AsksAreOf DEF TeamLeads
    <2> QED BY <1>4, <2>1 DEF Build, LeadRows, Screen
  <1>5. CASE a.kind \in {"ATTENDANCE", "DISTANCE"}
    <2> DEFINE asked == IF a.team # None THEN PendingOrders(u, a.team)
                        ELSE {v \in {a.who} : Present(v) /\ (v = u \/ CanReview(u, v))}
    <2>1. PeopleOf(a) = asked
      <3>1. CASE a.team # None
        BY <1>1, <1>5, <3>1, AsksAreOf DEF PeopleOf, PendingOrders
      <3>2. CASE a.team = None
        <4>1. a.who = u \/ CanReview(u, a.who)
          BY <1>1, <1>5, <3>2, AsksAreOf DEF In, CanReview
        <4> QED BY <3>2, <4>1 DEF PeopleOf
      <3> QED BY <3>1, <3>2
    <2>2. Screen(u, a) = Plain(asked)
      BY <1>5 DEF Screen
    <2>3. Build(a, members) = Plain(PeopleOf(a))
      BY <1>5 DEF Build, AttendanceRows, DistanceRows
    <2> QED BY <2>1, <2>2, <2>3
  <1> QED BY <1>2, <1>3, <1>4, <1>5 DEF PlainKinds

\* Whom a report of a team or a person is of, and whose screens it is compared with.
AskedPeople(u, a) ==
    IF a.team # None THEN PendingOrders(u, a.team)
    ELSE {v \in {a.who} : Present(v) /\ (v = u \/ CanReview(u, v))}

LEMMA PeopleAreAsked ==
    ASSUME NEW u, NEW a \in MayAsk(u), a.kind \in {"ATTENDANCE", "DISTANCE", "ZONES", "PERSON"}
    PROVE  /\ a.kind # "PERSON" => PeopleOf(a) = AskedPeople(u, a)
           /\ a.kind = "PERSON" => {v \in {a.who} : Present(v)} = AskedPeople(u, a)
           /\ AskedPeople(u, a) \subseteq People
  <1>1. \A t \in Managed(u) : t # None /\ Managed(u) \cap {t} = {t}
    BY StaffAssumption DEF Managed
  <1>2. CASE a.team # None
    <2>1. a.kind # "PERSON" /\ a.team \in Managed(u)
      BY <1>2, AsksAreOf
    <2>2. PeopleOf(a) = AskedPeople(u, a)
      BY <1>1, <1>2, <2>1 DEF PeopleOf, PendingOrders, AskedPeople
    <2>3. AskedPeople(u, a) \subseteq People
      BY <1>2 DEF AskedPeople, PendingOrders, In
    <2> QED BY <2>1, <2>2, <2>3
  <1>3. CASE a.team = None
    <2>1. a.who = u \/ CanReview(u, a.who)
      BY <1>1, <1>3, AsksAreOf DEF In, CanReview
    <2> QED BY <1>3, <2>1 DEF PeopleOf, AskedPeople, Present
  <1> QED BY <1>2, <1>3

\* The lines of a zone report say of the visits what the employees' pages say,
\* but for the zones in which the day ended.
LEMMA ZoneRowsMatch ==
    ASSUME events \in [People -> Seq(Event)], ended \in [People -> Nat],
           NEW people \in SUBSET People, NEW a, a.kind # "COMPLIANCE"
    PROVE  Matches(a, ZoneRows(people), ZonesOnScreen(people))
  <1> DEFINE D(v) == ZoneDurations(events[v], ended[v])
             E(v) == EmployeeVisits(events[v])
             lines(v) == {Row(v, z, 0, D(v)[z]) : z \in DOMAIN D(v)}
             seen(v) == {Row(v, z, 0, E(v)[z].minutes) : z \in DOMAIN E(v)}
  <1>1. /\ ZoneRows(people) = Plain(people) \cup UNION {lines(v) : v \in people}
        /\ ZonesOnScreen(people) = Plain(people) \cup UNION {seen(v) : v \in people}
    BY DEF ZoneRows, ZonesOnScreen
  <1>2. ASSUME NEW v \in people, NEW z
        PROVE  /\ z \in DOMAIN E(v) => z \in DOMAIN D(v)
               /\ z \in DOMAIN E(v) /\ z \notin EndedIn(v) => E(v)[z].minutes = D(v)[z]
               /\ z \in DOMAIN D(v) => D(v)[z] \in Nat /\ z \in Zone
               /\ z \in DOMAIN D(v) /\ D(v)[z] > 0 /\ z \notin EndedIn(v) => z \in DOMAIN E(v)
    <2>1. PICK es \in Seq(Event), end \in Nat : es = events[v] /\ end = ended[v]
      OBVIOUS
    <2>2. z \in DOMAIN D(v) <=> \E i \in DOMAIN es : es[i].zone = z
      BY <2>1 DEF ZoneDurations
    <2>3. \A i \in DOMAIN es : es[i].zone \in Zone
      <3>1. \A i \in DOMAIN es : es[i] \in Event
        BY <2>1
      <3> QED BY <3>1 DEF Event
    <2>4. Visits(es, z) # {} => z \in DOMAIN D(v)
      BY <2>2 DEF Visits, At
    <2>5. D(v) = ZoneDurations(es, end) /\ E(v) = EmployeeVisits(es)
      BY <2>1
    <2>6. z \in Zone /\ z \notin EndedIn(v) => LastStay(es, z, end) = 0
      BY <2>1 DEF EndedIn, LastStay
    <2> HIDE DEF D, E
    <2>7. /\ Paired(es, z).minutes \in Nat
          /\ Visits(es, z) = {} => Paired(es, z).minutes = 0
          /\ z \in DOMAIN E(v) <=> z \in Zone /\ Visits(es, z) # {}
          /\ z \in DOMAIN E(v) =>
                E(v)[z] = [visits |-> Cardinality(Visits(es, z)), minutes |-> Paired(es, z).minutes]
      BY <2>5, ReadingsAre
    <2>8. z \in DOMAIN D(v) =>
             D(v)[z] = Paired(es, z).minutes + LastStay(es, z, end) /\ LastStay(es, z, end) \in Nat
      BY <2>5, DurationsAre
    <2>9. z \in DOMAIN E(v) => E(v)[z].minutes = Paired(es, z).minutes
      BY <2>7
    <2>10. z \in DOMAIN D(v) => D(v)[z] \in Nat /\ z \in Zone
      BY <2>2, <2>3, <2>7, <2>8
    <2>11. z \in DOMAIN D(v) /\ z \notin EndedIn(v) => D(v)[z] = Paired(es, z).minutes
      BY <2>6, <2>7, <2>8, <2>10
    <2> QED BY <2>4, <2>7, <2>9, <2>10, <2>11
  <1>3. ASSUME NEW v \in people, NEW z, z \in EndedIn(v), NEW n PROVE OfLastStay(a, Row(v, z, 0, n))
    BY <1>3 DEF OfLastStay, Row
  <1> HIDE DEF D, E
  <1>4. ASSUME NEW v \in people, NEW r \in seen(v), ~OfLastStay(a, r) PROVE r \in lines(v)
    <2>1. PICK z \in DOMAIN E(v) : r = Row(v, z, 0, E(v)[z].minutes)
      OBVIOUS
    <2>2. z \notin EndedIn(v)
      BY <1>3, <1>4, <2>1
    <2>3. z \in DOMAIN D(v) /\ E(v)[z].minutes = D(v)[z]
      BY <1>2, <2>2
    <2> QED BY <2>1, <2>3
  <1>5. ASSUME NEW v \in people, NEW r \in lines(v), r.zone = None \/ r.minutes > 0, ~OfLastStay(a, r)
        PROVE  r \in seen(v)
    <2>1. PICK z \in DOMAIN D(v) : r = Row(v, z, 0, D(v)[z])
      OBVIOUS
    <2>2. r.zone = z /\ r.minutes = D(v)[z] /\ z \notin EndedIn(v)
      BY <1>3, <1>5, <2>1 DEF Row
    <2>3. z # None
      BY <1>2, ZonesAssumption
    <2>4. z \in DOMAIN E(v) /\ E(v)[z].minutes = D(v)[z]
      BY <1>2, <1>5, <2>2, <2>3
    <2> QED BY <2>1, <2>4
  <1> HIDE DEF lines, seen
  <1> QED BY <1>1, <1>4, <1>5 DEF Matches

LEMMA ComplianceShows ==
    ASSUME events \in [People -> Seq(Event)], NEW u, NEW a \in MayAsk(u), a.kind = "COMPLIANCE",
           NEW members, members = ActiveIn(a.team)
    PROVE  Build(a, members) = Screen(u, a)
  <1>1. PICK t \in Managed(u) : t = a.team
    BY AsksAreOf
  <1>2. t # None /\ Managed(u) \cap {t} = {t}
    BY StaffAssumption DEF Managed
  <1> DEFINE mine == PendingOrders(u, a.team)
             seen(v) == EmployeeVisits(events[v])
             built(v, z) == Row(v, z, ZoneDay(events[v], z).visits, ZoneDay(events[v], z).minutes)
             shown(v, z) == IF z \in DOMAIN seen(v) THEN Row(v, z, seen(v)[z].visits, seen(v)[z].minutes)
                            ELSE Row(v, z, 0, 0)
             active == {v \in mine : user[v].active}
             near == UNION {Relevant(v) : v \in mine}
  <1>3. mine = In({t}) /\ members = active /\ mine \subseteq People
    BY <1>1, <1>2 DEF PendingOrders, ActiveIn, In
  <1>4. \A v \in mine : Relevant(v) = ZonesFor({t})
    <2>1. \A v \in mine : Own(v) = {t}
      BY <1>2, <1>3 DEF In, Own
    <2> QED BY <2>1 DEF Relevant
  <1>5. active = {} \/ near = ZonesFor({t})
    BY <1>4
  <1>6. \A v \in active, z \in near : built(v, z) = shown(v, z)
    <2> SUFFICES ASSUME NEW v \in active, NEW z \in near PROVE built(v, z) = shown(v, z)
      OBVIOUS
    <2>1. PICK es \in Seq(Event) : es = events[v]
      BY <1>3
    <2>2. z \in Zone
      BY <1>4 DEF ZonesFor
    <2>3. ZoneDay(es, z).visits = Cardinality(Visits(es, z)) /\ ZoneDay(es, z).minutes = Paired(es, z).minutes
      BY DEF ZoneDay
    <2>4. Visits(es, z) = {} => Cardinality(Visits(es, z)) = 0 /\ Paired(es, z).minutes = 0
      BY ReadingsAre, FS_EmptySet
    <2>5. z \in DOMAIN seen(v) <=> Visits(es, z) # {}
      BY <2>1, <2>2, ReadingsAre
    <2>6. z \in DOMAIN seen(v) =>
             seen(v)[z].visits = Cardinality(Visits(es, z)) /\ seen(v)[z].minutes = Paired(es, z).minutes
      <3>1. seen(v) = EmployeeVisits(es)
        BY <2>1
      <3>2. z \in DOMAIN EmployeeVisits(es) =>
               EmployeeVisits(es)[z] = [visits |-> Cardinality(Visits(es, z)), minutes |-> Paired(es, z).minutes]
        BY <2>1, ReadingsAre
      <3> HIDE DEF seen
      <3> QED BY <3>1, <3>2
    <2> HIDE DEF seen, mine
    <2> QED BY <2>1, <2>3, <2>4, <2>5, <2>6
  <1>7. Build(a, members) = {built(v, z) : v \in members, z \in ZonesFor({t})}
    BY <1>1 DEF Build, ComplianceRows
  <1>8. Screen(u, a) = {shown(v, z) : v \in active, z \in near}
    BY DEF Screen
  <1> HIDE DEF built, shown, near, active
  <1> QED BY <1>3, <1>5, <1>6, <1>7, <1>8

\* Read from the tables as they are, a report matches its screen.
LEMMA BuildMatches ==
    ASSUME events \in [People -> Seq(Event)], ended \in [People -> Nat],
           NEW u, NEW a \in MayAsk(u), NEW members,
           a.kind = "TEAM" => \A t \in {a.team} : members \subseteq In({t}),
           a.kind = "COMPLIANCE" => \A t \in {a.team} : members = ActiveIn(t)
    PROVE  Matches(a, Build(a, members), Screen(u, a))
  <1>1. Build(a, members) = Screen(u, a) => Matches(a, Build(a, members), Screen(u, a))
    BY DEF Matches
  <1>2. CASE a.kind \in PlainKinds
    BY <1>1, <1>2, BuildShows
  <1>3. CASE a.kind = "COMPLIANCE"
    BY <1>1, <1>3, ComplianceShows
  <1>4. CASE a.kind \in {"ZONES", "PERSON"}
    <2>1. Screen(u, a) = ZonesOnScreen(AskedPeople(u, a))
      BY <1>4 DEF Screen, AskedPeople
    <2>2. Build(a, members) = ZoneRows(AskedPeople(u, a))
      <3>1. CASE a.kind = "ZONES"
        BY <3>1, PeopleAreAsked DEF Build
      <3>2. CASE a.kind = "PERSON"
        BY <3>2, PeopleAreAsked DEF Build, PersonRows
      <3> QED BY <1>4, <3>1, <3>2
    <2>3. AskedPeople(u, a) \in SUBSET People
      BY <1>4, PeopleAreAsked
    <2> QED BY <1>4, <2>1, <2>2, <2>3, ZoneRowsMatch
  <1>5. a.kind \in Kinds
    BY AsksAreOf
  <1> QED BY <1>2, <1>3, <1>4, <1>5 DEF Kinds, Ranges, PlainKinds

\* One row for each.
LEMMA PlainTellsApart ==
    ASSUME NEW xs, NEW ys, Plain(xs) = Plain(ys)
    PROVE  xs = ys
  <1>1. \A x, y : Row(x, None, 0, 0) = Row(y, None, 0, 0) => x = y
    BY DEF Row
  <1> QED BY <1>1 DEF Plain

LEMMA ShownStart == Init => ShownInv
  BY DEF Init, ReportsInit, NoJob, ShownInv, Filed, Working

LEMMA FaithfulStays ==
    ASSUME UNCHANGED <<user, team, customer, zone, events, ended>>, NEW c, Faithful(c)
    PROVE  Faithful(c)'
  <1>1. ASSUME NEW u, NEW a
        PROVE  /\ MayAsk(u)' = MayAsk(u) /\ Screen(u, a)' = Screen(u, a)
               /\ \A t : In({t})' = In({t}) /\ ActiveIn(t)' = ActiveIn(t)
    BY ScreenStays
  <1>2. ASSUME NEW a, NEW r PROVE OfLastStay(a, r)' <=> OfLastStay(a, r)
    BY DEF OfLastStay, EndedIn
  <1> QED BY <1>1, <1>2 DEF Faithful, Matches

\* A step of report i, with people, teams and customers as they are.
LEMMA ShownJobStep ==
    ASSUME ShownInv, JobStep, NEW i \in Jobs, NEW b,
           DOMAIN b = DOMAIN NoJob, Filed(b),
           b.stage \in Working /\ b.still => Faithful(b),
           job' = [job EXCEPT ![i] = b] \/ job' = [Others(i) EXCEPT ![i] = b]
    PROVE  ShownInv'
  <1>1. DOMAIN job' = Jobs
    BY DEF ShownInv, Others, Pruned
  <1>2. \A j \in Jobs : j # i =>
           /\ DOMAIN job'[j] = DOMAIN job[j] /\ job'[j].stage = job[j].stage
           /\ job'[j].key = job[j].key /\ job'[j].auto = job[j].auto
           /\ job'[j].owner = job[j].owner /\ job'[j].ask = job[j].ask
           /\ job'[j].members = job[j].members /\ job'[j].rows = job[j].rows
           /\ job'[j].still = job[j].still
           /\ job'[j].file = job[j].file \/ (job[j].file = "OLD" /\ ~job[j].auto)
    <2> SUFFICES ASSUME NEW j \in Jobs, j # i
        PROVE  /\ DOMAIN job'[j] = DOMAIN job[j] /\ job'[j].stage = job[j].stage
               /\ job'[j].key = job[j].key /\ job'[j].auto = job[j].auto
               /\ job'[j].owner = job[j].owner /\ job'[j].ask = job[j].ask
               /\ job'[j].members = job[j].members /\ job'[j].rows = job[j].rows
               /\ job'[j].still = job[j].still
               /\ job'[j].file = job[j].file \/ (job[j].file = "OLD" /\ ~job[j].auto)
      OBVIOUS
    <2>1. \/ job'[j] = job[j]
          \/ job[j].file = "OLD" /\ ~job[j].auto /\ job'[j] = [job[j] EXCEPT !.file = "NONE"]
      BY DEF ShownInv, Others, Pruned
    <2> QED BY <2>1 DEF ShownInv, NoJob
  <1>3. job'[i] = b
    BY DEF ShownInv, Others, Pruned
  <1>4. ASSUME NEW c, Faithful(c) PROVE Faithful(c)'
    BY <1>4, FaithfulStays DEF JobStep, zones
  <1>5. ASSUME NEW j \in Jobs
        PROVE  /\ DOMAIN job'[j] = DOMAIN NoJob /\ Filed(job'[j])
               /\ job'[j].stage \in Working /\ job'[j].still => Faithful(job[j])'
    <2>1. CASE j = i
      <3>1. b.stage \in Working /\ b.still => Faithful(b)'
        BY <1>4
      <3> QED BY <1>3, <2>1, <3>1 DEF Faithful
    <2>2. CASE j # i
      <3>1. DOMAIN job'[j] = DOMAIN NoJob /\ Filed(job'[j])
        BY <1>2, <2>2 DEF ShownInv, Filed
      <3>2. ASSUME job'[j].stage \in Working, job'[j].still PROVE Faithful(job[j])'
        <4>1. PICK c : c = job[j]
          OBVIOUS
        <4>2. Faithful(c)'
          BY <1>2, <1>4, <2>2, <3>2, <4>1 DEF ShownInv
        <4> QED BY <1>2, <2>2, <4>1, <4>2 DEF Faithful
      <3> QED BY <3>1, <3>2
    <2> QED BY <2>1, <2>2
  <1> QED BY <1>1, <1>5 DEF ShownInv, Filed

\* A report that has ended, or begins.
LEMMA ShownEndStep ==
    ASSUME ShownInv, NEW j \in Jobs, NEW from, NEW status,
           Advance(j, from, Ended(job[j], status)),
           status = "READY" => job[j].file # "NONE"
    PROVE  ShownInv'
  <1>1. /\ DOMAIN Ended(job[j], status) = DOMAIN NoJob
        /\ Ended(job[j], status).stage = "ENDED" /\ Ended(job[j], status).key = status
        /\ Ended(job[j], status).file # "NONE" \/ status # "READY"
    BY DEF Ended, NoJob
  <1> QED BY <1>1, ShownJobStep DEF Advance, Filed, Working

LEMMA ShownAskStep ==
    ASSUME ShownInv, NEW j \in Jobs, AskReport(j)
    PROVE  ShownInv'
  <1>1. ASSUME NEW u \in People, NEW a \in MayAsk(u), NEW auto, Start(j, u, a, auto)
        PROVE  ShownInv'
    BY <1>1, ShownJobStep DEF Start, NoJob, Filed, Faithful, Working
  <1>2. ASSUME NEW u \in People, NEW t \in Teams, AutoReport(j, u, t)
        PROVE  Of("TEAM", t, None, None) \in MayAsk(u)
    BY <1>2 DEF AutoReport, ManagersOf, MayAsk, TeamAsks
  <1> QED BY <1>1, <1>2 DEF AskReport, Generate, AutoReport

LEMMA ShownReadStep ==
    ASSUME ShownInv, events \in [People -> Seq(Event)], ended \in [People -> Nat],
           NEW j \in Jobs, ReadMembers(j) \/ ReadRows(j)
    PROVE  ShownInv'
  <1>1. Others(j)[j] = job[j] \/ (job[j].file = "OLD" /\ Others(j)[j] = [job[j] EXCEPT !.file = "NONE"])
    BY DEF ShownInv, Others, Pruned
  <1>2. CASE ReadMembers(j)
    <2> DEFINE b == [Others(j)[j] EXCEPT !.stage = "READ", !.members = ActiveIn(job[j].ask.team)]
    <2>1. /\ b.stage = "READ" /\ b.members = ActiveIn(job[j].ask.team) /\ b.key = job[j].key
          /\ b.owner = job[j].owner /\ b.ask = job[j].ask /\ b.still = job[j].still
          /\ DOMAIN b = DOMAIN NoJob
      BY <1>1 DEF ShownInv, NoJob
    <2>2. job' = [Others(j) EXCEPT ![j] = b]
      BY <1>2 DEF ReadMembers, Others, Pruned, ShownInv
    <2>3. \A a \in {b.ask} : \A t \in {a.team} : b.members \subseteq In({t})
      BY <2>1 DEF ActiveIn
    <2>4. job[j].stage = "QUEUED" /\ job[j].key # "READY" /\ JobStep
      BY <1>2 DEF ReadMembers, ShownInv, Filed
    <2> HIDE DEF b
    <2>5. Filed(b)
      BY <2>1, <2>4 DEF Filed
    <2>6. ASSUME b.still PROVE Faithful(b)
      <3>1. Faithful(job[j])
        BY <2>1, <2>4, <2>6 DEF ShownInv, Working
      <3> QED BY <2>1, <2>3, <3>1 DEF Faithful
    <2> QED BY <2>1, <2>2, <2>4, <2>5, <2>6, ShownJobStep
  <1>3. CASE ReadRows(j)
    <2> DEFINE was == IF OfMembers(j) THEN job ELSE Others(j)
               b == [was[j] EXCEPT !.stage = "BUILT", !.file = "FRESH",
                                   !.rows = Build(job[j].ask, job[j].members)]
    <2>1. /\ b.stage = "BUILT" /\ b.file = "FRESH" /\ b.rows = Build(job[j].ask, job[j].members)
          /\ b.owner = job[j].owner /\ b.ask = job[j].ask /\ b.still = job[j].still
          /\ b.key = job[j].key /\ DOMAIN b = DOMAIN NoJob
      BY <1>1 DEF ShownInv, NoJob
    <2>2. job' = [job EXCEPT ![j] = b] \/ job' = [Others(j) EXCEPT ![j] = b]
      BY <1>3 DEF ReadRows, Others, Pruned, ShownInv
    <2>3. /\ job[j].stage \in {"QUEUED", "READ"} /\ job[j].key # "READY" /\ JobStep
          /\ job[j].ask.kind \in {"TEAM", "COMPLIANCE"} => job[j].stage = "READ"
      BY <1>3 DEF ReadRows, ShownInv, Filed, OfMembers
    <2>4. ASSUME NEW u \in {job[j].owner}, NEW a \in {job[j].ask}, job[j].still
          PROVE  /\ a \in MayAsk(u) /\ (a.kind \in PlainKinds => b.rows = Screen(u, a))
                 /\ Matches(a, b.rows, Screen(u, a))
      <3>1. /\ a \in MayAsk(u)
            /\ a.kind = "TEAM" => \A t \in {a.team} : job[j].members \subseteq In({t})
            /\ a.kind = "COMPLIANCE" => \A t \in {a.team} : job[j].members = ActiveIn(t)
        BY <2>3, <2>4 DEF ShownInv, Faithful, Working
      <3>2. a.kind \in PlainKinds => Build(a, job[j].members) = Screen(u, a)
        BY <3>1, BuildShows
      <3>3. Matches(a, Build(a, job[j].members), Screen(u, a))
        BY <3>1, BuildMatches
      <3> QED BY <2>1, <3>1, <3>2, <3>3
    <2> HIDE DEF b
    <2>5. Filed(b)
      BY <2>1, <2>3 DEF Filed
    <2>6. ASSUME b.still PROVE Faithful(b)
      BY <2>1, <2>4, <2>6 DEF Faithful
    <2> QED BY <2>1, <2>2, <2>3, <2>5, <2>6, ShownJobStep
  <1> QED BY <1>2, <1>3

\* What the screen of a team's report says of the team.
LEMMA TeamScreen ==
    ASSUME NEW u, NEW a, a \in MayAsk(u), a \in MayAsk(u)', a.kind = "TEAM",
           Screen(u, a) = Screen(u, a)'
    PROVE  \A t \in {a.team} : In({t})' = In({t})
  <1>1. PICK t : t = a.team
    OBVIOUS
  <1>2. t \in Managed(u) /\ t \in Managed(u)' /\ t # None
    <2>1. t \in Managed(u)
      BY <1>1, AsksAreOf
    <2>2. t \in Managed(u)'
      BY <1>1, TeamOfAnAsk
    <2> QED BY <2>1, <2>2, StaffAssumption DEF Managed
  <1>3. Screen(u, a) = Plain(In(Managed(u) \cap {t}))
    BY <1>1, <1>2 DEF Screen, PendingOrders
  <1>4. Screen(u, a)' = Plain(In(Managed(u) \cap {t})')
    BY <1>1, <1>2 DEF Screen, PendingOrders
  <1>5. In(Managed(u) \cap {t}) = In({t})
    BY <1>2 DEF In
  <1>6. In(Managed(u) \cap {t})' = In({t})'
    BY <1>2 DEF In
  <1> QED BY <1>1, <1>3, <1>4, <1>5, <1>6, PlainTellsApart

\* People, zones and uploads: a report whose screen moves is no longer still.
LEMMA ShownElsewhere ==
    ASSUME ShownInv, DOMAIN job' = Jobs,
           \A j \in Jobs :
              job'[j] = IF InWork(j) /\ job[j].still /\ Shifts(j)
                        THEN [job[j] EXCEPT !.still = FALSE] ELSE job[j]
    PROVE  ShownInv'
  <1>1. ASSUME NEW j \in Jobs
        PROVE  /\ DOMAIN job'[j] = DOMAIN NoJob /\ Filed(job'[j])
               /\ job'[j].stage \in Working /\ job'[j].still => Faithful(job[j])'
    <2>1. CASE InWork(j) /\ job[j].still /\ Shifts(j)
      BY <2>1 DEF ShownInv, NoJob, Filed
    <2>2. CASE ~(InWork(j) /\ job[j].still /\ Shifts(j))
      <3>1. job'[j] = job[j]
        BY <2>2
      <3>2. ASSUME job[j].stage \in Working, job[j].still PROVE Faithful(job[j])'
        <4>1. PICK u, a : u = job[j].owner /\ a = job[j].ask
          OBVIOUS
        <4>2. /\ Screen(u, a) = Screen(u, a)' /\ a \in MayAsk(u)'
              /\ a.kind = "COMPLIANCE" => ActiveIn(a.team) = ActiveIn(a.team)'
              /\ a.kind \in {"PERSON", "ZONES"} => \A v \in People : EndedIn(v) = EndedIn(v)'
          BY <2>2, <3>2, <4>1 DEF Shifts, InWork, Working
        <4>3. /\ a \in MayAsk(u)
              /\ job[j].stage = "READ" /\ a.kind = "TEAM" =>
                    \A t \in {a.team} : job[j].members \subseteq In({t})
              /\ job[j].stage = "READ" /\ a.kind = "COMPLIANCE" =>
                    \A t \in {a.team} : job[j].members = ActiveIn(t)
              /\ job[j].stage = "BUILT" => /\ a.kind \in PlainKinds => job[j].rows = Screen(u, a)
                                           /\ Matches(a, job[j].rows, Screen(u, a))
          BY <3>2, <4>1 DEF ShownInv, Faithful
        <4>4. a.kind = "TEAM" => \A t \in {a.team} : In({t})' = In({t})
          BY <4>2, <4>3, TeamScreen
        <4>5. a.kind = "COMPLIANCE" => \A t \in {a.team} : ActiveIn(t)' = ActiveIn(t)
          <5>1. PICK t : t = a.team
            OBVIOUS
          <5>2. a.kind = "COMPLIANCE" => ActiveIn(t)' = ActiveIn(t)
            BY <4>2, <5>1
          <5> QED BY <5>1, <5>2
        <4>6. job[j].stage = "BUILT" =>
                 /\ a.kind \in PlainKinds => job[j].rows = Screen(u, a)'
                 /\ \A rows \in {job[j].rows} : Matches(a, rows, Screen(u, a))'
          <5> SUFFICES ASSUME job[j].stage = "BUILT"
              PROVE  /\ a.kind \in PlainKinds => job[j].rows = Screen(u, a)'
                     /\ \A rows \in {job[j].rows} : Matches(a, rows, Screen(u, a))'
            OBVIOUS
          <5>1. PICK rows, screen : rows = job[j].rows /\ screen = Screen(u, a)
            OBVIOUS
          <5>2. screen = Screen(u, a)' /\ Matches(a, rows, screen)
            BY <4>2, <4>3, <5>1
          <5>3. CASE a.kind \in PlainKinds
            BY <4>3, <5>1, <5>2, <5>3 DEF Matches
          <5>4. CASE a.kind = "COMPLIANCE"
            <6>1. \A r : ~OfLastStay(a, r) /\ ~OfLastStay(a, r)'
              BY <5>4 DEF OfLastStay
            <6> QED BY <5>1, <5>2, <5>4, <6>1 DEF Matches, PlainKinds
          <5>5. CASE a.kind \in {"PERSON", "ZONES"}
            <6>1. \A r : OfLastStay(a, r)' <=> OfLastStay(a, r)
              BY <4>2, <5>5 DEF OfLastStay
            <6> QED BY <5>1, <5>2, <5>5, <6>1 DEF Matches, PlainKinds
          <5>6. a.kind \in Kinds
            BY <4>3, AsksAreOf
          <5> QED BY <5>3, <5>4, <5>5, <5>6 DEF Kinds, Ranges, PlainKinds
        <4> QED BY <3>1, <4>1, <4>2, <4>3, <4>4, <4>5, <4>6 DEF Faithful
      <3> QED BY <3>1, <3>2 DEF ShownInv
    <2> QED BY <2>1, <2>2
  <1> QED BY <1>1 DEF ShownInv, Filed

LEMMA ShownStep == PresenceInv /\ ShownInv /\ [ReportsNext]_backOffice => ShownInv'
  <1> SUFFICES ASSUME PresenceInv, ShownInv, [ReportsNext]_backOffice PROVE ShownInv'
    OBVIOUS
  <1>1. CASE UNCHANGED backOffice
    <2>1. job' = job /\ UNCHANGED <<user, team, customer, zone, events, ended>>
      BY <1>1 DEF backOffice, staff, zones, reports
    <2>2. ASSUME NEW j \in Jobs, job[j].stage \in Working, job[j].still
          PROVE  Faithful(job[j])'
      <3>1. PICK c : c = job[j]
        OBVIOUS
      <3>2. Faithful(c)'
        BY <2>1, <2>2, <3>1, FaithfulStays DEF ShownInv
      <3> QED BY <2>1, <3>1, <3>2 DEF Faithful
    <2> QED BY <2>1, <2>2 DEF ShownInv, Filed
  <1>2. CASE ZonesNext /\ job' = [j \in Jobs |-> IF InWork(j) /\ job[j].still /\ Shifts(j)
                                                THEN [job[j] EXCEPT !.still = FALSE] ELSE job[j]]
    BY <1>2, ShownElsewhere
  <1>3. ASSUME NEW j \in Jobs, AskReport(j) PROVE ShownInv'
    BY <1>3, ShownAskStep
  <1>4. ASSUME NEW j \in Jobs, ReadMembers(j) \/ ReadRows(j) PROVE ShownInv'
    BY <1>4, ShownReadStep DEF PresenceInv, ZonesTyped, ZonesTypeOK
  <1>5. ASSUME NEW j \in Jobs, MarkReady(j) PROVE ShownInv'
    BY <1>5, ShownEndStep DEF MarkReady, Advance, ShownInv, Filed
  <1>6. ASSUME NEW j \in Jobs, Fail(j) \/ Die(j) PROVE ShownInv'
    BY <1>6, ShownEndStep DEF Fail, Die, InWork, ShownInv, Filed
  <1>7. ASSUME NEW j \in Jobs, Age(j) PROVE ShownInv'
    <2> DEFINE b == [job[j] EXCEPT !.file = "OLD"]
    <2>1. DOMAIN b = DOMAIN NoJob /\ b.stage = "ENDED" /\ b.file = "OLD"
      BY <1>7 DEF Age, Advance, ShownInv, NoJob
    <2>2. Advance(j, "ENDED", b)
      BY <1>7 DEF Age
    <2> HIDE DEF b
    <2> QED BY <2>1, <2>2, ShownJobStep DEF Advance, Filed, Working
  <1>8. ASSUME NEW j \in Jobs, Expire(j) PROVE ShownInv'
    BY <1>8, ShownEndStep DEF Expire
  <1> QED BY <1>1, <1>2, <1>3, <1>4, <1>5, <1>6, <1>7, <1>8 DEF ReportsNext

PlainRowsMatchScreens ==
    \A j \in Jobs :
       job[j].stage = "BUILT" /\ job[j].still /\ job[j].ask.kind \in PlainKinds =>
           job[j].rows = Screen(job[j].owner, job[j].ask)

\* A report of people, customers or leads that was built while the screens of the
\* person who asked stood still shows exactly what they show (_team_data and
\* _lead_pipeline_data of ReportService against the lists of the API).
THEOREM ReportsShowTheScreens == Spec => []PlainRowsMatchScreens
  <1>1. Init => PresenceInv /\ ShownInv
    BY Starts, ZonesStart, ShownStart DEF Init, PresenceInv
  <1>2. PresenceInv /\ ShownInv /\ [ReportsNext]_backOffice => PresenceInv' /\ ShownInv'
    BY PresenceStep, ShownStep
  <1>3. ShownInv => PlainRowsMatchScreens
    BY DEF ShownInv, Faithful, Working, PlainRowsMatchScreens
  <1> QED BY <1>1, <1>2, <1>3, PTL DEF Spec

\* A report that is READY has its file, but for the retention of one that was
\* asked for by hand (mark_ready, prune_expired_objects).
THEOREM ReadyReportsHaveAFile == Spec => []ReadyHasAFile
  <1>1. Init => PresenceInv /\ ShownInv
    BY Starts, ZonesStart, ShownStart DEF Init, PresenceInv
  <1>2. PresenceInv /\ ShownInv /\ [ReportsNext]_backOffice => PresenceInv' /\ ShownInv'
    BY PresenceStep, ShownStep
  <1>3. ShownInv => ReadyHasAFile
    BY DEF ShownInv, Filed, ReadyHasAFile, Downloads, StatusShown
  <1> QED BY <1>1, <1>2, <1>3, PTL DEF Spec

\* Whatever is written, in whatever order: the compliance report, the zone's page,
\* the employee's page and the notice of an EXIT count the same visits and the same
\* minutes, and the distance report the same and the last stay up to the day's END;
\* a report that was built while the screens of the person who asked stood still
\* says what they say, but for those last stays; and one that is READY has its file
\* (_zone_day_compliance, _zone_durations, GeofenceRepository, ReportService).
THEOREM ReportsMatchTheScreens == Spec => []ReportsMatchScreens
  <1>1. Init => PresenceInv /\ ShownInv
    BY Starts, ZonesStart, ShownStart DEF Init, PresenceInv
  <1>2. PresenceInv /\ ShownInv /\ [ReportsNext]_backOffice => PresenceInv' /\ ShownInv'
    BY PresenceStep, ShownStep
  <1>3. PresenceInv /\ ShownInv => ReportsMatchScreens
    <2> SUFFICES ASSUME PresenceInv, ShownInv PROVE ReportsMatchScreens
      OBVIOUS
    <2>1. ReadingsAgree
      BY ReadingsOf DEF PresenceInv, ZonesTyped, ZonesTypeOK
    <2>2. RowsMatchScreens
      BY DEF ShownInv, Faithful, Working, Matches, RowsMatchScreens
    <2>3. ReadyHasAFile
      BY DEF ShownInv, Filed, ReadyHasAFile, Downloads, StatusShown
    <2> QED BY <2>1, <2>2, <2>3 DEF ReportsMatchScreens
  <1> QED BY <1>1, <1>2, <1>3, PTL DEF Spec

-----------------------------------------------------------------------------
(* The types of the back office                                             *)

\* Whoever was assigned while a team was deleted is a person, and the team a team;
\* no more requests than the bound.
Named ==
    /\ raced \subseteq People \X Teams /\ changes \in 0..MaxChanges
    /\ \A r \in Requests : Assigns(request[r]) => request[r].of \in People

LEMMA NamedLoad ==
    ASSUME Typed, Named, NEW r \in Requests, NEW q, Load(r, q), changes < MaxChanges,
           Assigns(q) => q.of \in People, raced' \subseteq raced \cup (People \X Teams)
    PROVE  Named'
  <1>1. changes' \in 0..MaxChanges
    BY StaffAssumption DEF Named, Load
  <1>2. request'[r] = q /\ \A p \in Requests : p # r => request'[p] = request[p]
    BY DEF Load, Typed
  <1>3. raced' \subseteq People \X Teams
    BY DEF Named
  <1> QED BY <1>1, <1>2, <1>3 DEF Named, Assigns

LEMMA NamedOverlap ==
    ASSUME Typed, NEW u \in People, NEW t, Overlap(u, t)
    PROVE  raced' \subseteq raced \cup (People \X Teams)
  <1>1. \A r \in Requests : request[r].kind = "DELETE" => request[r].team \in Teams
    BY DEF Typed, Formed
  <1> QED BY <1>1 DEF Overlap

LEMMA NamedBegins ==
    ASSUME Typed, Named, NEW r \in Requests, BeginRequest(r) PROVE Named'
  <1>0. changes < MaxChanges
    BY DEF BeginRequest
  <1>1. ASSUME NEW u \in People, NEW t \in SomeTeam, NEW role \in {"EMPLOYEE", "MANAGER"},
               BeginHire(r, u, role, t)
        PROVE  Named'
    <2>1. PICK q : q = [Asked("HIRE", u, t) EXCEPT !.role = role]
      OBVIOUS
    <2>2. q.of = u /\ Load(r, q) /\ Overlap(u, t)
      BY <1>1, <2>1 DEF BeginHire, Asked, Idle
    <2> QED BY <1>0, <2>2, NamedOverlap, NamedLoad
  <1>2. ASSUME NEW u \in People, NEW t \in SomeTeam, BeginAssign(r, u, t) PROVE Named'
    <2>1. PICK q : q = [Asked("ASSIGN", u, t) EXCEPT !.was = user[u].team]
      OBVIOUS
    <2>2. q.of = u /\ Load(r, q) /\ Overlap(u, t)
      BY <1>2, <2>1 DEF BeginAssign, Asked, Idle
    <2> QED BY <1>0, <2>2, NamedOverlap, NamedLoad
  <1>3. ASSUME NEW u \in People, NEW t \in Teams, BeginJoin(r, u, t) PROVE Named'
    <2>1. PICK q : q = Asked("JOIN", u, t)
      OBVIOUS
    <2>2. q.of = u /\ Load(r, q) /\ Overlap(u, t)
      BY <1>3, <2>1 DEF BeginJoin, Asked, Idle
    <2> QED BY <1>0, <2>2, NamedOverlap, NamedLoad
  <1>4. ASSUME NEW u \in People, NEW t \in Teams, BeginLeave(r, u, t) PROVE Named'
    <2>1. PICK q : q = Asked("LEAVE", u, t)
      OBVIOUS
    <2>2. q.of = u /\ Load(r, q) /\ UNCHANGED raced
      BY <1>4, <2>1 DEF BeginLeave, Asked, Idle
    <2> QED BY <1>0, <2>2, NamedLoad
  <1>5. ASSUME NEW t \in Teams, BeginDelete(r, t) PROVE Named'
    <2>1. PICK q : q = [Asked("DELETE", None, t) EXCEPT !.members = Members(t)]
      OBVIOUS
    <2>2. q.kind = "DELETE" /\ Load(r, q)
      BY <1>5, <2>1 DEF BeginDelete, Asked, Idle
    <2>3. raced' \subseteq raced \cup (People \X Teams)
      BY <1>5 DEF BeginDelete, Named
    <2> QED BY <1>0, <2>2, <2>3, NamedLoad DEF Assigns
  <1>6. ASSUME NEW t \in Teams, NEW u \in Somebody, BeginManage(r, t, u) PROVE Named'
    <2>1. PICK q : q = [Asked("MANAGE", u, t) EXCEPT !.was = team[t].manager]
      OBVIOUS
    <2>2. q.kind = "MANAGE" /\ Load(r, q) /\ UNCHANGED raced
      BY <1>6, <2>1 DEF BeginManage, Asked, Idle
    <2> QED BY <1>0, <2>2, NamedLoad DEF Assigns
  <1>7. ASSUME NEW u \in People, NEW f \in Customers, NEW t \in SomeTeam, BeginCustomer(r, u, f, t)
        PROVE  Named'
    <2>1. PICK q : q = [Asked("CUSTOMER", u, TeamFor(u, t)) EXCEPT !.adds = f]
      OBVIOUS
    <2>2. q.of = u /\ Load(r, q) /\ UNCHANGED raced
      BY <1>7, <2>1 DEF BeginCustomer, Asked, Idle
    <2> QED BY <1>0, <2>2, NamedLoad
  <1> QED BY <1>1, <1>2, <1>3, <1>4, <1>5, <1>6, <1>7 DEF BeginRequest

LEMMA NamedRests ==
    ASSUME Typed, Named, UNCHANGED raced, \A r \in Requests : request'[r] \in {request[r], Idle},
           changes' = changes \/ (changes < MaxChanges /\ changes' = changes + 1)
    PROVE  Named'
  <1>1. changes' \in 0..MaxChanges
    BY StaffAssumption DEF Named
  <1>2. \A r \in Requests : Assigns(request'[r]) => request'[r] = request[r]
    BY IdleType DEF Assigns
  <1> QED BY <1>1, <1>2 DEF Named

LEMMA NamedStaff == ASSUME Typed, Named, StaffNext PROVE Named'
  <1>1. ASSUME NEW r \in Requests, Commit(r) PROVE Named'
    <2>1. Answer(r)
      BY <1>1 DEF Commit, CommitHire, CommitAssign, CommitJoin, CommitDelete, CommitManage,
                  CommitCustomer, FailRequest
    <2> QED BY <2>1, Answered, NamedRests DEF Answer
  <1>2. CASE Change
    BY <1>2, NamedRests DEF Change
  <1>3. CASE \E r \in Requests : BeginRequest(r)
    BY <1>3, NamedBegins
  <1>4. CASE \E r \in Requests : AttachCustomers(r)
    BY <1>4, NamedRests DEF AttachCustomers
  <1>5. ASSUME ~ Change, \A r \in Requests : ~ (BeginRequest(r) \/ AttachCustomers(r) \/ Commit(r))
        PROVE  FALSE
    BY <1>5 DEF StaffNext, Found, SetStatus, SetRole, DeleteEmployee, RecordLead, MoveCustomer, ImportCustomer
  <1> QED BY <1>1, <1>2, <1>3, <1>4, <1>5

LEMMA NamedStep == ASSUME Typed, Named, [ReportsNext]_backOffice PROVE Named'
  <1>1. CASE UNCHANGED backOffice
    BY <1>1, NamedRests DEF backOffice, staff
  <1>2. CASE StaffNext
    BY <1>2, NamedStaff
  <1>3. ASSUME NEW z \in Zone, NEW t \in SomeTeam, NEW over \in SUBSET People,
               CreateZone(z, t) \/ RescopeZone(z, t) \/ RedrawZone(z, over) \/ DeleteZone(z)
        PROVE  Named'
    <2>1. ZoneChange
      BY <1>3 DEF CreateZone, RescopeZone, RedrawZone, DeleteZone
    <2> QED BY <2>1, NamedRests DEF ZoneChange
  <1>4. ASSUME NEW s \in Uploads, NEW u \in Phones, NEW time \in 1..MaxFixes, NEW at \in Places,
               ReceiveBatch(s, u, time, at)
        PROVE  Named'
    BY <1>4, NamedRests DEF ReceiveBatch, Engine
  <1>5. ASSUME NEW s \in Uploads, NEW released \in BOOLEAN,
               StoreBatch(s) \/ CheckZones(s) \/ LoseBatch(s, released)
        PROVE  Named'
    <2>1. Engine /\ UNCHANGED changes
      BY <1>5 DEF StoreBatch, CheckZones, LoseBatch
    <2> QED BY <2>1, NamedRests DEF Engine
  <1>6. ASSUME NEW j \in Jobs, AskReport(j) PROVE Named'
    <2>1. JobStep /\ changes < MaxChanges /\ changes' = changes + 1
      BY <1>6 DEF AskReport, Generate, AutoReport, Start
    <2> QED BY <2>1, NamedRests DEF JobStep
  <1>7. ASSUME NEW j \in Jobs,
               ReadMembers(j) \/ ReadRows(j) \/ MarkReady(j) \/ Fail(j) \/ Die(j) \/ Age(j) \/ Expire(j)
        PROVE  Named'
    <2>1. JobStep /\ UNCHANGED changes
      BY <1>7 DEF ReadMembers, ReadRows, MarkReady, Fail, Die, Age, Expire, Advance
    <2> QED BY <2>1, NamedRests DEF JobStep
  <1>8. ASSUME NEW u \in Phones, EndDay(u) PROVE Named'
    BY <1>8, NamedRests DEF EndDay
  <1>9. CASE ZonesNext
    <2>1. SomeTeam # {}
      BY DEF SomeTeam
    <2> QED BY <1>2, <1>3, <1>4, <1>5, <1>8, <1>9, <2>1 DEF ZonesNext, WithStaff
  <1> QED BY <1>1, <1>6, <1>7, <1>9 DEF ReportsNext

\* Accounts, teams, customers and requests keep their types, and the requests
\* their bound, whatever of theirs interleaves (EmployeeService, TeamService,
\* FarmerService).
THEOREM StaffTypeCorrect == Spec => []StaffTypeOK
  <1>1. Init => JoinInv /\ Named
    <2>1. Init => JoinInv
      BY Starts, StaffAssumption DEF Init, StaffInit, JoinInv
    <2>2. Init => Named
      BY StaffAssumption, IdleType DEF Init, StaffInit, Named, Assigns
    <2> QED BY <2>1, <2>2
  <1>2. JoinInv /\ Named /\ [ReportsNext]_backOffice => JoinInv' /\ Named'
    BY JoinStep, NamedStep DEF JoinInv, DetachInv
  <1>3. JoinInv /\ Named => StaffTypeOK
    BY DEF JoinInv, DetachInv, Typed, Account, Named, StaffTypeOK
  <1> QED BY <1>1, <1>2, <1>3, PTL DEF Spec

-----------------------------------------------------------------------------
(* The types of the reports                                                 *)

Line == [of : People \cup Customers, zone : Zone \cup {None}, visits : Nat, minutes : Nat]
Report == [stage : {"NONE", "QUEUED", "READ", "BUILT", "ENDED"}, owner : Somebody, ask : Ask,
           auto : BOOLEAN, still : BOOLEAN, members : SUBSET People, rows : SUBSET Line,
           key : {"NONE", "PROCESSING", "READY", "FAILED"}, file : {"NONE", "FRESH", "OLD"}]

\* A report in work is somebody's, and of something.
Owned(b) ==
    b.stage \in Working => /\ b.owner \in People /\ b.ask.kind \in Kinds
                           /\ b.ask.kind = "CUSTOMER" => b.ask.customer \in Customers

JobsTyped == job \in [Jobs -> Report] /\ \A j \in Jobs : Owned(job[j])

LEMMA NoJobTyped == NoJob \in Report /\ NoJob.stage \notin Working
  BY DEF NoJob, Report, NoAsk, Ask, Somebody, SomeTeam, Working

LEMMA PlainIsTyped == ASSUME NEW xs, xs \subseteq People \cup Customers PROVE Plain(xs) \subseteq Line
  BY DEF Plain, Row, Line

\* What is counted in the events of a person.
LEMMA CountsAreNat ==
    ASSUME NEW es \in Seq(Event), NEW z
    PROVE  Cardinality(Visits(es, z)) \in Nat /\ Paired(es, z).minutes \in Nat
  <1>1. Visits(es, z) \in SUBSET (1..Len(es)) /\ Len(es) \in Nat
    BY DEF Visits, At
  <1>2. IsFiniteSet(1..Len(es))
    BY <1>1, FS_Interval
  <1>3. IsFiniteSet(Visits(es, z))
    BY <1>1, <1>2, FS_Subset
  <1> QED BY <1>3, FS_CardinalityType, ReadingsAre

LEMMA ZoneRowsTyped ==
    ASSUME events \in [People -> Seq(Event)], ended \in [People -> Nat], NEW people \in SUBSET People
    PROVE  ZoneRows(people) \subseteq Line
  <1> DEFINE D(v) == ZoneDurations(events[v], ended[v])
             lines(v) == {Row(v, z, 0, D(v)[z]) : z \in DOMAIN D(v)}
  <1>1. ZoneRows(people) = Plain(people) \cup UNION {lines(v) : v \in people}
    BY DEF ZoneRows
  <1>2. Plain(people) \subseteq Line
    BY PlainIsTyped
  <1>3. ASSUME NEW v \in people, NEW z \in DOMAIN D(v) PROVE D(v)[z] \in Nat /\ z \in Zone
    <2>1. PICK es \in Seq(Event), end \in Nat : es = events[v] /\ end = ended[v]
      OBVIOUS
    <2>2. D(v)[z] = Paired(es, z).minutes + LastStay(es, z, end) /\ LastStay(es, z, end) \in Nat
      BY <2>1, <1>3, DurationsAre
    <2>3. \E i \in DOMAIN es : es[i].zone = z
      BY <1>3, <2>1, DurationsAre
    <2>4. \A i \in DOMAIN es : es[i] \in Event
      BY <2>1
    <2>5. z \in Zone
      BY <2>3, <2>4 DEF Event
    <2>6. Paired(es, z).minutes \in Nat
      BY CountsAreNat
    <2> HIDE DEF D
    <2> QED BY <2>2, <2>5, <2>6
  <1> HIDE DEF D
  <1>4. \A v \in people : lines(v) \subseteq Line
    BY <1>3 DEF Row, Line
  <1> QED BY <1>1, <1>2, <1>4

LEMMA ComplianceRowsTyped ==
    ASSUME events \in [People -> Seq(Event)], NEW a, NEW members \in SUBSET People
    PROVE  ComplianceRows(a, members) \subseteq Line
  <1>1. ASSUME NEW r \in ComplianceRows(a, members)
        PROVE  \E v \in members, z \in ZonesFor({a.team}) :
                  r = Row(v, z, ZoneDay(events[v], z).visits, ZoneDay(events[v], z).minutes)
    <2> DEFINE row(v, z) == Row(v, z, ZoneDay(events[v], z).visits, ZoneDay(events[v], z).minutes)
               near == ZonesFor({a.team})
    <2>1. ComplianceRows(a, members) = {row(v, z) : v \in members, z \in near}
      BY DEF ComplianceRows
    <2> HIDE DEF row, near
    <2>2. \E v \in members, z \in near : r = row(v, z)
      BY <1>1, <2>1
    <2> QED BY <2>2 DEF row, near
  <1>2. ASSUME NEW r \in ComplianceRows(a, members) PROVE r \in Line
    <2>1. PICK v \in members, z \in ZonesFor({a.team}) :
             r = Row(v, z, ZoneDay(events[v], z).visits, ZoneDay(events[v], z).minutes)
      BY <1>1, <1>2
    <2>2. events[v] \in Seq(Event) /\ z \in Zone
      BY DEF ZonesFor
    <2>3. PICK n, m \in Nat : n = Cardinality(Visits(events[v], z)) /\ m = Paired(events[v], z).minutes
      BY <2>2, CountsAreNat
    <2>4. ZoneDay(events[v], z).visits = n /\ ZoneDay(events[v], z).minutes = m
      BY <2>3 DEF ZoneDay
    <2> QED BY <2>1, <2>2, <2>4 DEF Row, Line
  <1> QED BY <1>2

\* The rows of a report are of people and customers.
LEMMA BuildIsTyped ==
    ASSUME events \in [People -> Seq(Event)], ended \in [People -> Nat], NEW a, a.kind \in Kinds,
           a.kind = "CUSTOMER" => a.customer \in Customers, NEW members \in SUBSET People
    PROVE  Build(a, members) \subseteq Line
  <1>1. PeopleOf(a) \in SUBSET People /\ {v \in {a.who} : Present(v)} \in SUBSET People
    BY DEF PeopleOf, In, Present
  <1>2. CASE a.kind = "TEAM"
    <2>1. members \cup In({a.team}) \subseteq People \cup Customers
      BY DEF In
    <2> QED BY <1>2, <2>1, PlainIsTyped DEF Build, TeamRows
  <1>3. CASE a.kind = "COMPLIANCE"
    BY <1>3, ComplianceRowsTyped DEF Build
  <1>4. CASE a.kind = "LEADS"
    <2>1. {f \in WithLead(CustomersOf({a.team})) : a.who \in {None, customer[f].lead}} \subseteq People \cup Customers
      BY DEF WithLead, CustomersOf
    <2> QED BY <1>4, <2>1, PlainIsTyped DEF Build, LeadRows
  <1>5. CASE a.kind \in {"ATTENDANCE", "DISTANCE"}
    <2>1. Plain(PeopleOf(a)) \subseteq Line
      BY <1>1, PlainIsTyped
    <2> QED BY <1>5, <2>1 DEF Build, AttendanceRows, DistanceRows
  <1>6. CASE a.kind = "ZONES"
    BY <1>1, <1>6, ZoneRowsTyped DEF Build
  <1>7. CASE a.kind = "PERSON"
    BY <1>1, <1>7, ZoneRowsTyped DEF Build, PersonRows
  <1>8. CASE a.kind = "CUSTOMER" /\ a.customer \in Customers
    <2>1. {f \in {a.customer} : customer[f].here} \subseteq People \cup Customers
      BY <1>8
    <2> QED BY <1>8, <2>1, PlainIsTyped DEF Build, CustomerRows
  <1> QED BY <1>2, <1>3, <1>4, <1>5, <1>6, <1>7, <1>8 DEF Kinds, Ranges

\* What may be asked for is of people, teams and customers there are.
LEMMA AsksAreTyped ==
    ASSUME NEW u \in People, NEW a \in MayAsk(u)
    PROVE  a \in Ask /\ a.kind \in Kinds /\ (a.kind = "CUSTOMER" => a.customer \in Customers)
  <1>1. /\ Managed(u) \subseteq Teams /\ \A ts : In(ts) \subseteq People
        /\ CreatedBy(u) \subseteq Customers /\ \A ts : CustomersOf(ts) \subseteq Customers
    BY DEF Managed, In, CreatedBy, CustomersOf
  <1>2. \A k \in Kinds, t \in SomeTeam, v \in Somebody, f \in Customers \cup {None} : Of(k, t, v, f) \in Ask
    BY DEF Of, Ask
  <1>3. CASE a \in CustomerAsks(u)
    <2>1. PICK f \in Customers : a = Of("CUSTOMER", None, None, f)
      BY <1>1, <1>3 DEF CustomerAsks
    <2> QED BY <1>2, <2>1 DEF Of, Kinds, SomeTeam, Somebody
  <1>4. CASE a \in TeamAsks(u)
    <2>1. PICK k \in {"TEAM", "COMPLIANCE"}, t \in Teams : a = Of(k, t, None, None)
      BY <1>1, <1>4 DEF TeamAsks
    <2> QED BY <1>2, <2>1 DEF Of, Kinds, SomeTeam, Somebody
  <1>5. CASE a \in PersonAsks(u)
    <2>1. PICK v \in People : a = Of("PERSON", None, v, None)
      BY <1>1, <1>5 DEF PersonAsks
    <2> QED BY <1>2, <2>1 DEF Of, Kinds, SomeTeam, Somebody
  <1>6. CASE a \in LeadAsks(u)
    <2>1. PICK t \in Managed(u) : a \in {Of("LEADS", t, v, None) : v \in {None} \cup In({t})}
      BY <1>6 DEF LeadAsks
    <2>2. PICK v \in Somebody : a = Of("LEADS", t, v, None)
      BY <1>1, <2>1 DEF Somebody
    <2> QED BY <1>1, <1>2, <2>1, <2>2 DEF Of, Kinds, SomeTeam
  <1>7. CASE a \in RangeAsks(u) \cup {Of(k, None, u, None) : k \in Ranges}
    <2>1. PICK k \in Ranges, t \in SomeTeam, v \in Somebody : a = Of(k, t, v, None)
      BY <1>1, <1>7 DEF RangeAsks, SomeTeam, Somebody
    <2> QED BY <1>2, <2>1 DEF Of, Kinds, Ranges
  <1> QED BY <1>3, <1>4, <1>5, <1>6, <1>7 DEF MayAsk

LEMMA PrunedTyped ==
    ASSUME JobsTyped, NEW i \in Jobs
    PROVE  Others(i) \in [Jobs -> Report] /\ \A j \in Jobs : Owned(Others(i)[j])
  <1>1. ASSUME NEW j \in Jobs
        PROVE  LET b == Pruned(job)[j] IN b \in Report /\ (Owned(job[j]) => Owned(b))
    <2>1. Pruned(job)[j] \in {job[j], [job[j] EXCEPT !.file = "NONE"]}
      BY DEF Pruned
    <2>2. [job[j] EXCEPT !.file = "NONE"] \in Report /\ job[j] \in Report
      BY DEF JobsTyped, Report
    <2>3. Owned(job[j]) => Owned([job[j] EXCEPT !.file = "NONE"])
      BY <2>2 DEF Owned, Report
    <2> QED BY <2>1, <2>2, <2>3
  <1>2. DOMAIN Pruned(job) = Jobs /\ Pruned(job) = [j \in Jobs |-> Pruned(job)[j]]
    BY DEF Pruned
  <1> QED BY <1>1, <1>2 DEF JobsTyped, Others

\* A step of one report.
LEMMA JobTypedAgain ==
    ASSUME JobsTyped, NEW i \in Jobs, NEW b \in Report, Owned(b),
           job' = [job EXCEPT ![i] = b] \/ job' = [Others(i) EXCEPT ![i] = b]
    PROVE  JobsTyped'
  <1>1. PICK was \in [Jobs -> Report] : job' = [was EXCEPT ![i] = b] /\ \A j \in Jobs : Owned(was[j])
    BY PrunedTyped DEF JobsTyped
  <1>2. \A j \in Jobs : job'[j] = b \/ job'[j] = was[j]
    BY <1>1
  <1>3. \A j \in Jobs : Owned(job'[j])
    BY <1>1, <1>2
  <1>4. job' \in [Jobs -> Report]
    BY <1>1
  <1> QED BY <1>3, <1>4 DEF JobsTyped, Owned

LEMMA JobsBegin == ASSUME JobsTyped, NEW j \in Jobs, AskReport(j) PROVE JobsTyped'
  <1>1. ASSUME NEW u \in People, NEW a \in MayAsk(u), NEW auto \in BOOLEAN, Start(j, u, a, auto)
        PROVE  JobsTyped'
    <2>1. PICK b : b = [NoJob EXCEPT !.stage = "QUEUED", !.owner = u, !.ask = a, !.auto = auto, !.key = "PROCESSING"]
      OBVIOUS
    <2>2. b \in Report /\ b.owner = u /\ b.ask = a
      BY <2>1, AsksAreTyped DEF NoJob, Report, Somebody
    <2>3. Owned(b)
      BY <2>2, AsksAreTyped DEF Owned
    <2>4. job' = [job EXCEPT ![j] = b]
      BY <1>1, <2>1 DEF Start
    <2> QED BY <2>2, <2>3, <2>4, JobTypedAgain
  <1>2. ASSUME NEW u \in People, NEW t \in Teams, AutoReport(j, u, t)
        PROVE  Of("TEAM", t, None, None) \in MayAsk(u)
    BY <1>2 DEF AutoReport, ManagersOf, MayAsk, TeamAsks
  <1> QED BY <1>1, <1>2 DEF AskReport, Generate, AutoReport

LEMMA JobsEnd ==
    ASSUME JobsTyped, NEW j \in Jobs, NEW from, NEW status \in {"NONE", "PROCESSING", "READY", "FAILED"},
           Advance(j, from, Ended(job[j], status))
    PROVE  JobsTyped'
  <1>1. PICK b : b = Ended(job[j], status)
    OBVIOUS
  <1>2. b \in Report /\ b.stage = "ENDED"
    BY <1>1, NoJobTyped DEF Ended, NoJob, Report, JobsTyped
  <1> QED BY <1>1, <1>2, JobTypedAgain DEF Advance, Owned, Working

LEMMA JobsRead ==
    ASSUME JobsTyped, events \in [People -> Seq(Event)], ended \in [People -> Nat], NEW j \in Jobs, ReadMembers(j) \/ ReadRows(j)
    PROVE  JobsTyped'
  <1>1. PICK c : c = job[j] /\ c \in Report /\ Owned(c)
    BY DEF JobsTyped
  <1>2. Others(j) \in [Jobs -> Report] /\ Others(j)[j] \in {c, [c EXCEPT !.file = "NONE"]}
    BY <1>1, PrunedTyped DEF Others, Pruned, JobsTyped
  <1>3. CASE ReadMembers(j)
    <2>1. PICK d : d = Others(j)[j]
      OBVIOUS
    <2>2. PICK b : b = [d EXCEPT !.stage = "READ", !.members = ActiveIn(c.ask.team)]
      OBVIOUS
    <2>3. d \in Report /\ d.owner = c.owner /\ d.ask = c.ask
      BY <1>1, <1>2, <2>1 DEF Report
    <2>4. ActiveIn(c.ask.team) \subseteq People
      BY DEF ActiveIn, In
    <2>5. b \in Report /\ b.owner = c.owner /\ b.ask = c.ask
      BY <2>2, <2>3, <2>4 DEF Report
    <2>6. Owned(b)
      BY <1>1, <1>3, <2>5 DEF ReadMembers, Owned, Working
    <2>7. job' = [Others(j) EXCEPT ![j] = b]
      BY <1>1, <1>2, <1>3, <2>1, <2>2 DEF ReadMembers
    <2> QED BY <2>5, <2>6, <2>7, JobTypedAgain
  <1>4. CASE ReadRows(j)
    <2>1. PICK was : was = IF OfMembers(j) THEN job ELSE Others(j)
      OBVIOUS
    <2>2. PICK d : d = was[j]
      OBVIOUS
    <2>3. PICK rows : rows = Build(c.ask, c.members)
      OBVIOUS
    <2>4. PICK b : b = [d EXCEPT !.stage = "BUILT", !.file = "FRESH", !.rows = rows]
      OBVIOUS
    <2>5. was \in [Jobs -> Report] /\ d \in Report /\ d.owner = c.owner /\ d.ask = c.ask
      BY <1>1, <1>2, <2>1, <2>2 DEF Report, JobsTyped
    <2>6. c.stage \in Working
      BY <1>1, <1>4 DEF ReadRows, Working
    <2>7. c.members \in SUBSET People
      BY <1>1 DEF Report
    <2>8. rows \subseteq Line
      BY <1>1, <2>3, <2>6, <2>7, BuildIsTyped DEF Owned
    <2>9. b \in Report /\ b.owner = c.owner /\ b.ask = c.ask
      BY <2>4, <2>5, <2>8 DEF Report
    <2>10. Owned(b)
      BY <1>1, <2>6, <2>9 DEF Owned
    <2>11. job' = [was EXCEPT ![j] = b]
      BY <1>1, <1>4, <2>1, <2>2, <2>3, <2>4, <2>5 DEF ReadRows
    <2> QED BY <2>1, <2>9, <2>10, <2>11, JobTypedAgain
  <1> QED BY <1>3, <1>4

LEMMA JobsStep == ASSUME JobsTyped, PresenceInv, [ReportsNext]_backOffice PROVE JobsTyped'
  <1>1. CASE UNCHANGED job
    BY <1>1 DEF JobsTyped, Owned
  <1>2. CASE job' = [j \in Jobs |-> IF InWork(j) /\ job[j].still /\ Shifts(j)
                                    THEN [job[j] EXCEPT !.still = FALSE] ELSE job[j]]
    <2>1. ASSUME NEW j \in Jobs PROVE job'[j] \in Report /\ Owned(job[j])'
      <3>1. PICK c : c = job[j] /\ c \in Report /\ Owned(c)
        BY DEF JobsTyped
      <3>2. PICK d : d = [c EXCEPT !.still = FALSE]
        OBVIOUS
      <3>3. d \in Report /\ Owned(d)
        BY <3>1, <3>2 DEF Report, Owned
      <3>4. job'[j] \in {c, d}
        BY <1>2, <3>1, <3>2
      <3> QED BY <3>1, <3>3, <3>4 DEF Owned
    <2>2. job' = [j \in Jobs |-> job'[j]]
      BY <1>2
    <2> QED BY <2>1, <2>2 DEF JobsTyped
  <1>3. ASSUME NEW j \in Jobs, AskReport(j) PROVE JobsTyped'
    BY <1>3, JobsBegin
  <1>4. ASSUME NEW j \in Jobs, ReadMembers(j) \/ ReadRows(j) PROVE JobsTyped'
    BY <1>4, JobsRead DEF PresenceInv, ZonesTyped, ZonesTypeOK
  <1>5. ASSUME NEW j \in Jobs, MarkReady(j) \/ Fail(j) \/ Die(j) \/ Expire(j) PROVE JobsTyped'
    <2>1. job[j].key \in {"NONE", "PROCESSING", "READY", "FAILED"}
      BY DEF JobsTyped, Report
    <2> QED BY <1>5, <2>1, JobsEnd DEF MarkReady, Fail, Die, Expire
  <1>6. ASSUME NEW j \in Jobs, Age(j) PROVE JobsTyped'
    <2>1. PICK c : c = job[j] /\ c \in Report /\ Owned(c)
      BY DEF JobsTyped
    <2>2. PICK b : b = [c EXCEPT !.file = "OLD"]
      OBVIOUS
    <2>3. b \in Report /\ Owned(b)
      BY <2>1, <2>2 DEF Report, Owned
    <2> QED BY <1>6, <2>1, <2>2, <2>3, JobTypedAgain DEF Age, Advance
  <1> QED BY <1>1, <1>2, <1>3, <1>4, <1>5, <1>6 DEF ReportsNext, backOffice, reports

\* Requests for reports, the jobs that build them and what they write keep their
\* types, and a report in work is somebody's (ReportService, the auto-report jobs).
THEOREM ReportsTypeCorrect == Spec => []ReportsTypeOK
  <1>1. Init => PresenceInv /\ JobsTyped
    <2>1. Init => PresenceInv
      BY Starts, ZonesStart DEF Init, PresenceInv
    <2>2. Init => JobsTyped
      BY NoJobTyped DEF Init, ReportsInit, JobsTyped, Owned
    <2> QED BY <2>1, <2>2
  <1>2. PresenceInv /\ JobsTyped /\ [ReportsNext]_backOffice => PresenceInv' /\ JobsTyped'
    BY PresenceStep, JobsStep
  <1>3. JobsTyped => ReportsTypeOK
    <2> SUFFICES ASSUME JobsTyped, NEW j \in Jobs, NEW b, b = job[j], b \in Report, Owned(b)
        PROVE  /\ b.stage \in {"NONE", "QUEUED", "READ", "BUILT", "ENDED"}
               /\ b.key \in {"NONE", "PROCESSING", "READY", "FAILED"}
               /\ b.owner \in Somebody /\ b.ask \in Ask /\ b.members \subseteq People
               /\ b.file \in {"NONE", "FRESH", "OLD"} /\ {b.still, b.auto} \subseteq BOOLEAN
               /\ b.rows \subseteq Line /\ (b.stage \in Working => b.owner # None)
      BY DEF ReportsTypeOK, JobsTyped, Line, InWork, Working
    <2> QED BY StaffAssumption DEF Report, Owned
  <1> QED BY <1>1, <1>2, <1>3, PTL DEF Spec
================================================================================
