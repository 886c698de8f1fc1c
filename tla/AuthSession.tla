------------------------------ MODULE AuthSession ------------------------------
(***************************************************************************)
(* The refresh session of one account: the fingerprint of its current      *)
(* refresh token in Redis, the clients that hold tokens, and the requests  *)
(* that change it (app/services/auth_service.py, core/security.py,         *)
(* core/dependencies.py, employee_service.py; the mobile api_client.dart   *)
(* and the web client.js).                                                 *)
(*                                                                         *)
(* Login and refresh read the database or Redis, wait, and write: they run *)
(* in steps that those of other requests come between.  Tokens are         *)
(* numbered as they are issued.  A client keeps its refresh token in a     *)
(* jar: the phone's storage, or the browser's cookie, which its tabs share.*)
(***************************************************************************)
EXTENDS Naturals, FiniteSets, Sequences

CONSTANTS
    Clients,     \* the phone's app, the browser's tabs
    Jar,         \* where a client keeps its refresh token
    Phones,      \* the jars that the client itself empties
    Requests,    \* logins and refreshes the server may work on at once
    MaxTokens    \* refresh tokens issued

Jars == {Jar[c] : c \in Clients}

ASSUME AuthAssumption ==
    /\ IsFiniteSet(Clients) /\ Clients # {}
    /\ Jar \in [Clients -> Jars] /\ Phones \subseteq Jars
    /\ MaxTokens \in Nat \ {0}

VARIABLES
    account,  \* users.is_active, or "deleted"
    session,  \* fieldtrack:refresh:{user_id}: the current token, 0 for none
    issuedTo, \* the jars the tokens were issued to, in order
    jar,      \* the token in each jar, 0 for none
    access,   \* clients with an access token that has not expired
    request,  \* POST /auth/login and /auth/refresh on the server
    admin,    \* what an admin's request is about to commit
    alarms,   \* tokens audited as REFRESH_REUSE_DETECTED
    rotated,  \* refresh tokens whose jti is blacklisted
    lost      \* tokens presented in, or issued by, a request the client gave up on

vars == <<account, session, issuedTo, jar, access, request, admin, alarms, rotated, lost>>

-----------------------------------------------------------------------------
Issued == Len(issuedTo)

Free == [at |-> "free", for |-> {}, to |-> CHOOSE j \in Jars : TRUE, token |-> 0,
         seen |-> 0, held |-> FALSE]
Busy == {q \in Requests : request[q].at # "free"}
Waits(c) == \E q \in Busy : c \in request[q].for
Watched(q) == request[q].for # {}
Answer(q) == IF request[q].at = "answered" THEN request[q].seen ELSE 0

\* MaxTokens bounds the tokens issued: each request that may need one has it.
Room(n) == Issued + Cardinality(Busy) + n <= MaxTokens

\* The jar whose token the server accepts, if any.
Owner == IF session = 0 THEN {} ELSE {issuedTo[session]}

TypeOK ==
    /\ account \in {"active", "inactive", "deleted"}
    /\ issuedTo \in Seq(Jars) /\ Issued <= MaxTokens
    /\ session \in 0..Issued
    /\ jar \in [Jars -> 0..Issued]
    /\ access \subseteq Clients
    /\ request \in [Requests ->
            [at : {"free", "login", "sent", "read", "rotating", "answered", "refused"},
             for : SUBSET Clients, to : Jars, token : 0..Issued, seen : 0..Issued,
             held : BOOLEAN]]
    /\ admin \in {"idle", "inactive", "deleted"}
    /\ (alarms \cup rotated \cup lost) \subseteq 1..Issued

Init ==
    /\ account = "active" /\ session = 0 /\ issuedTo = <<>>
    /\ jar = [j \in Jars |-> 0] /\ access = {}
    /\ request = [q \in Requests |-> Free]
    /\ admin = "idle"
    /\ alarms = {} /\ rotated = {} /\ lost = {}

\* request q goes on, and nothing but what the step names changes.
Goes(q, at) == request' = [request EXCEPT ![q].at = at]
Ends(q) == request' = [request EXCEPT ![q] = Free]
OnServer == UNCHANGED <<jar, access, admin, lost>>
OnClient == UNCHANGED <<account, session, issuedTo, admin, alarms, rotated>>

-----------------------------------------------------------------------------
(* Login: the right password for an active account...                       *)

StartLogin(c, q) ==
    /\ request[q].at = "free" /\ ~Waits(c) /\ Room(1)
    /\ c \notin access /\ (Jar[c] \in Phones => jar[Jar[c]] = 0)
    /\ account = "active"
    /\ request' = [request EXCEPT ![q] = [Free EXCEPT !.at = "login", !.for = {c}, !.to = Jar[c]]]
    /\ UNCHANGED <<account, session, issuedTo, jar, access, admin, alarms, rotated, lost>>

\* A new token, in answer to q.
Issue(q) ==
    /\ issuedTo' = Append(issuedTo, request[q].to)
    /\ session' = Issued + 1
    /\ request' = [request EXCEPT ![q].at = "answered", ![q].seen = Issued + 1]
    /\ lost' = IF Watched(q) THEN lost ELSE lost \cup {Issued + 1}
    /\ UNCHANGED <<account, alarms, jar, access, admin>>

\* ...overwrites the fingerprint: one session per account.
FinishLogin(q) ==
    /\ request[q].at = "login"
    /\ Issue(q)
    /\ UNCHANGED rotated

-----------------------------------------------------------------------------
(* Refresh                                                                  *)

\* Mutant: concurrent 401s do not share one refresh.
RefreshTwice(c, q) ==
    /\ request[q].at = "free"
    /\ Jar[c] \in Phones => c \notin access
    /\ jar[Jar[c]] # 0 /\ Room(1)
    /\ request' = [request EXCEPT ![q] = [Free EXCEPT !.at = "sent", !.for = {c}, !.to = Jar[c],
                                                      !.token = jar[Jar[c]]]]
    /\ UNCHANGED <<account, session, issuedTo, jar, access, admin, alarms, rotated, lost>>

\* The phone refreshes after a 401, a tab when its page is loaded as well;
\* a client with a refresh in flight joins it.
StartRefresh(c, q) ==
    /\ request[q].at = "free" /\ ~Waits(c)
    /\ Jar[c] \in Phones => c \notin access
    /\ jar[Jar[c]] # 0
    /\ (account = "active" /\ jar[Jar[c]] = session) => Room(1)
    /\ request' = [request EXCEPT ![q] = [Free EXCEPT !.at = "sent", !.for = {c}, !.to = Jar[c],
                                                      !.token = jar[Jar[c]]]]
    /\ UNCHANGED <<account, session, issuedTo, jar, access, admin, alarms, rotated, lost>>

ReadFingerprint(q) ==
    /\ request[q].at = "sent"
    /\ request' = [request EXCEPT ![q].at = "read", ![q].seen = session,
                                  ![q].held = (request[q].token = session)]
    /\ UNCHANGED <<account, session, issuedTo, alarms, rotated>> /\ OnServer

RefuseEnded(q) ==
    /\ request[q].at = "read" /\ request[q].seen = 0
    /\ Goes(q, "refused")
    /\ UNCHANGED <<account, session, issuedTo, alarms, rotated>> /\ OnServer

\* A valid token that is not the current one: the session is revoked.
RevokeOnReuse(q) ==
    /\ request[q].at = "read" /\ request[q].seen \notin {0, request[q].token}
    /\ session' = 0
    /\ alarms' = alarms \cup {request[q].token}
    /\ Goes(q, "refused")
    /\ UNCHANGED <<account, issuedTo, rotated>> /\ OnServer

RefuseInactive(q) ==
    /\ request[q].at = "read" /\ request[q].seen = request[q].token
    /\ account # "active"
    /\ session' = 0
    /\ Goes(q, "refused")
    /\ UNCHANGED <<account, issuedTo, alarms, rotated>> /\ OnServer

\* Mutant: any valid token passes.
PassAny(q) ==
    /\ request[q].at = "read" /\ account = "active"
    /\ Goes(q, "rotating")
    /\ UNCHANGED <<account, session, issuedTo, alarms, rotated>> /\ OnServer

Pass(q) ==
    /\ request[q].at = "read" /\ request[q].seen = request[q].token
    /\ account = "active"
    /\ Goes(q, "rotating")
    /\ UNCHANGED <<account, session, issuedTo, alarms, rotated>> /\ OnServer

\* The old jti is blacklisted, the fingerprint of a new token stored.
Rotate(q) ==
    /\ request[q].at = "rotating"
    /\ rotated' = rotated \cup {request[q].token}
    /\ Issue(q)

-----------------------------------------------------------------------------
(* What the client makes of the answer                                      *)

KeepTokens(c, q) ==
    /\ request[q].at = "answered" /\ request[q].for = {c}
    /\ jar' = [jar EXCEPT ![Jar[c]] = request[q].seen]
    /\ access' = access \cup {c}
    /\ Ends(q)
    /\ UNCHANGED lost /\ OnClient

\* Mutant: the app stays as it is when its refresh is refused.
StayLoggedIn(c, q) ==
    /\ request[q].at = "refused" /\ request[q].for = {c}
    /\ Ends(q)
    /\ UNCHANGED <<jar, access, lost>> /\ OnClient

\* The phone forgets its tokens (forceLogout), the browser cannot: the
\* cookie is the server's, and a refusal does not delete it.
ForceLogout(c, q) ==
    /\ request[q].at = "refused" /\ request[q].for = {c}
    /\ jar' = IF Jar[c] \in Phones THEN [jar EXCEPT ![Jar[c]] = 0] ELSE jar
    /\ access' = access \ {c}
    /\ Ends(q)
    /\ UNCHANGED lost /\ OnClient

\* No answer: any exception logs the phone out, and the server goes on.
GiveUp(c, q) ==
    /\ q \in Busy /\ request[q].for = {c}
    /\ request' = [request EXCEPT ![q].for = {}]
    /\ jar' = IF Jar[c] \in Phones THEN [jar EXCEPT ![Jar[c]] = 0] ELSE jar
    /\ access' = access \ {c}
    /\ lost' = (lost \cup {request[q].token, Answer(q)}) \ {0}
    /\ OnClient

Vanish(q) ==
    /\ request[q].at \in {"answered", "refused"} /\ ~Watched(q)
    /\ Ends(q)
    /\ UNCHANGED <<jar, access, lost>> /\ OnClient

AccessExpires(c) ==
    /\ c \in access
    /\ access' = access \ {c}
    /\ UNCHANGED <<jar, request, lost>> /\ OnClient

-----------------------------------------------------------------------------
(* What ends a session                                                      *)

\* get_current_user: an access token of an active account.
Passes(c) == c \in access /\ account = "active"

\* The answer deletes the cookie; without one the phone still clears its
\* storage.
Logout(c) ==
    /\ Passes(c) /\ ~Waits(c)
    /\ session' = 0
    /\ access' = access \ {c}
    /\ jar' = [jar EXCEPT ![Jar[c]] = 0]
    /\ UNCHANGED <<account, issuedTo, request, admin, alarms, rotated, lost>>

\* With the OTP of an active account (the OTP itself is left out).
ResetPassword ==
    /\ account = "active"
    /\ session' = 0
    /\ UNCHANGED <<account, issuedTo, jar, access, request, admin, alarms, rotated, lost>>

\* EmployeeService: the fingerprint is deleted, then the change committed.
UpdatePassword ==
    /\ account # "deleted"
    /\ session' = 0
    /\ UNCHANGED <<account, issuedTo, jar, access, request, admin, alarms, rotated, lost>>

SetStatus ==
    /\ admin = "idle"
    /\ \/ account # "deleted" /\ session' = 0 /\ admin' = "inactive" /\ UNCHANGED account
       \/ account = "inactive" /\ Room(0) /\ account' = "active" /\ UNCHANGED <<session, admin>>
    /\ UNCHANGED <<issuedTo, jar, access, request, alarms, rotated, lost>>

DeleteEmployee ==
    /\ admin = "idle" /\ account # "deleted"
    /\ session' = 0 /\ admin' = "deleted"
    /\ UNCHANGED <<account, issuedTo, jar, access, request, alarms, rotated, lost>>

Commit ==
    /\ admin # "idle"
    /\ account' = admin /\ admin' = "idle"
    /\ UNCHANGED <<session, issuedTo, jar, access, request, alarms, rotated, lost>>

-----------------------------------------------------------------------------
Work(q) ==
    \/ FinishLogin(q) \/ ReadFingerprint(q) \/ RefuseEnded(q) \/ RevokeOnReuse(q)
    \/ RefuseInactive(q) \/ Pass(q) \/ Rotate(q) \/ Vanish(q)
Hear(c, q) == KeepTokens(c, q) \/ ForceLogout(c, q)
End == ResetPassword \/ UpdatePassword \/ SetStatus \/ DeleteEmployee \/ Commit

Next ==
    \/ \E q \in Requests : Work(q)
    \/ \E c \in Clients, q \in Requests :
          StartLogin(c, q) \/ StartRefresh(c, q) \/ Hear(c, q) \/ GiveUp(c, q)
    \/ \E c \in Clients : AccessExpires(c) \/ Logout(c)
    \/ End

\* Requests are worked on, answers are heard, access tokens expire, and a
\* phone in use refreshes (the server always takes one more request).
Fairness ==
    /\ \A q \in Requests : WF_vars(Work(q))
    /\ \A c \in Clients :
          /\ \A q \in Requests : WF_vars(Hear(c, q))
          /\ WF_vars(AccessExpires(c))
          /\ SF_vars(\E q \in Requests : StartRefresh(c, q))

Spec == Init /\ [][Next]_vars /\ Fairness

-----------------------------------------------------------------------------
(* Properties                                                               *)

\* A jar comes to own the session only by a login from it, or by a refresh
\* that had read the jar's own token as the current one; so a session that
\* logout, a reset, a deactivation or another login ended comes back only
\* through a refresh that was under way when it ended
\* (auth_service.py refresh, login, logout).
OnlyALoginTakesOver ==
    [][\A j \in Owner' \ Owner :
          \E q \in Requests :
             /\ request[q].to = j
             /\ \/ request[q].at = "login"
                \/ request[q].at = "rotating" /\ request[q].held]_vars

\* The reuse alarm never goes off for a jar that one client uses alone, while
\* nobody else logs in and no answer is lost: the single-flight refresh of
\* api_client.dart is what keeps rotation and reuse detection from
\* contradicting each other.
AlarmIsExplained ==
    \A t \in alarms :
       \/ Cardinality({c \in Clients : Jar[c] = issuedTo[t]}) > 1
       \/ \E u \in t..Issued : u \in lost \/ issuedTo[u] # issuedTo[t]

\* The phone of a deactivated employee is logged out in the end, unless the
\* account is activated again (set_status, refresh, forceLogout).
DeactivatedLogsOut ==
    \A j \in Phones :
       (account # "active" /\ jar[j] # 0) ~> (account = "active" \/ jar[j] = 0)

===============================================================================
