---------------------------- MODULE AuthSessionProofs ----------------------------
(***************************************************************************)
(* Proofs about AuthSession, for any clients, jars, requests and tokens:   *)
(* who takes over a session, when the reuse alarm goes off, and how many   *)
(* tokens there are.                                                       *)
(*                                                                         *)
(* The arguments.  A refresh that rotates had read its own token as the    *)
(* current one.  A client has one request at a time, and the session is    *)
(* the newest token or none; so as long as a jar has one client, no answer *)
(* is lost and nobody else logs in, the token that this client presents is *)
(* the newest, and what it reads is that token or none.  Of the requests   *)
(* in flight, those that may be answered with a token have room for one    *)
(* each (Bounded).                                                         *)
(***************************************************************************)
EXTENDS AuthSession, FiniteSetTheorems, TLAPS

Request ==
    [at : {"free", "login", "sent", "read", "rotating", "answered", "refused"},
     for : SUBSET Clients, to : Jars, token : Nat, seen : Nat, held : BOOLEAN]

\* Since token t was issued no answer was lost and nobody but its jar had one.
Clean(t) == \A u \in t..Issued : u \notin lost /\ issuedTo[u] = issuedTo[t]

\* One client uses the jar.
Private(j) == \A c, d \in Clients : (Jar[c] = j /\ Jar[d] = j) => c = d

\* c waits for the request r, with a jar of its own.
Awaits(c, r) == r.for = {c} /\ Private(Jar[c])
Refreshing(r) == r.at \in {"sent", "read", "rotating"}

\* What a request holds.
Numbered(r) ==
    /\ r.token <= Issued /\ r.seen <= Issued
    /\ r.token # 0 => issuedTo[r.token] = r.to /\ (r.for = {} => r.token \in lost)
    /\ Refreshing(r) => r.token # 0
    /\ r.at = "answered" => r.seen # 0 /\ issuedTo[r.seen] = r.to
    /\ r.at = "read" => (r.seen = 0 \/ r.seen >= r.token) /\ (r.held <=> r.seen = r.token)
    /\ r.at = "rotating" => r.held
Watching(r) ==
    /\ r.at = "free" => r.for = {}
    /\ r.for = {} \/ \E c \in Clients : r.for = {c} /\ r.to = Jar[c]
Newest(r) ==
    \A c \in Clients : Awaits(c, r) =>
        /\ (Refreshing(r) /\ Clean(r.token)) => r.token = Issued
        /\ (r.at = "answered" /\ Clean(r.seen)) => r.seen = Issued

\* An answer with a token as new as t is on its way to the jar.
Coming(j, t) ==
    \E q \in Requests, c \in Clients :
        /\ request[q].for = {c} /\ Jar[c] = j
        /\ request[q].at = "answered" /\ request[q].seen >= t

JarOK(j) ==
    jar[j] # 0 =>
        /\ issuedTo[jar[j]] = j
        /\ (Private(j) /\ Clean(jar[j])) => jar[j] = Issued \/ Coming(j, jar[j])

OneEach ==
    \A p, q \in Requests, c \in Clients :
        (request[p].for = {c} /\ request[q].for = {c}) => p = q

Typed ==
    /\ issuedTo \in Seq(Jars) /\ session \in {0, Issued}
    /\ jar \in [Jars -> Nat] /\ \A j \in Jars : jar[j] <= Issued
    /\ request \in [Requests -> Request]
    /\ alarms \subseteq 1..Issued /\ 0 \notin lost

Inv ==
    /\ Typed /\ OneEach
    /\ \A q \in Requests : Numbered(request[q]) /\ Watching(request[q]) /\ Newest(request[q])
    /\ \A j \in Jars : JarOK(j)
    /\ \A t \in alarms : Private(issuedTo[t]) => ~Clean(t)

-----------------------------------------------------------------------------
(* Clients and tokens                                                       *)

LEMMA IssuedType == ASSUME Typed PROVE Issued \in Nat /\ DOMAIN issuedTo = 1..Issued
  BY DEF Typed, Issued

\* A jar that is not private has two clients.
LEMMA Shared ==
    ASSUME NEW j, ~Private(j)
    PROVE  Cardinality({c \in Clients : Jar[c] = j}) > 1
  <1> DEFINE S == {c \in Clients : Jar[c] = j}
  <1>1. PICK c \in S, d \in S : c # d
    BY DEF Private
  <1>2. IsFiniteSet(S)
    BY AuthAssumption, FS_Subset
  <1>3. IsFiniteSet(S \ {c}) /\ Cardinality(S \ {c}) = Cardinality(S) - 1
    BY <1>1, <1>2, FS_RemoveElement
  <1>4. Cardinality(S \ {c}) # 0
    BY <1>1, <1>3, FS_EmptySet
  <1>5. Cardinality(S) \in Nat /\ Cardinality(S \ {c}) \in Nat
    BY <1>2, <1>3, FS_CardinalityType
  <1> HIDE DEF S
  <1>6. Cardinality(S) > 1
    BY <1>3, <1>4, <1>5
  <1> QED BY <1>6 DEF S

LEMMA AnyClientsJar == ASSUME NEW c \in Clients PROVE Jar[c] \in Jars
  BY DEF Jars

\* What was clean before a step is what is clean after it, or less.
LEMMA StaysClean ==
    ASSUME Typed, UNCHANGED issuedTo, lost \subseteq lost'
    PROVE  Issued' = Issued /\ \A t : Clean(t)' => Clean(t)
  BY DEF Clean, Issued

LEMMA FreeType == Free \in Request /\ Free.to \in Jars
  BY AuthAssumption DEF Free, Request, Jars

-----------------------------------------------------------------------------
(* Steps that issue no token                                                *)

\* What is true of a request stays true while it does not move.
LEMMA StaysAsItIs ==
    ASSUME NEW r \in Request, Typed, UNCHANGED issuedTo, lost \subseteq lost',
           Numbered(r), Newest(r)
    PROVE  Numbered(r)' /\ Newest(r)'
  <1>1. Issued' = Issued /\ \A t : Clean(t)' => Clean(t)
    BY StaysClean
  <1>2. Numbered(r)'
    BY <1>1 DEF Numbered
  <1>3. Newest(r)'
    BY <1>1 DEF Newest
  <1> QED BY <1>2, <1>3

\* Request q becomes r; the jars that change are all right, or empty.
LEMMA RequestMoves ==
    ASSUME Inv, NEW q \in Requests, NEW r \in Request, request' = [request EXCEPT ![q] = r],
           UNCHANGED issuedTo, lost \subseteq lost', 0 \notin lost', session' \in {0, session},
           Numbered(r)', Watching(r), Newest(r)',
           \A c \in Clients : r.for = {c} => \A p \in Requests \ {q} : request[p].for # {c},
           jar' \in [Jars -> Nat], \A j \in Jars : jar'[j] <= Issued,
           \A j \in Jars : \/ jar'[j] = 0
                           \/ jar'[j] = jar[j] /\ (request[q].at # "answered" \/ request[q].for = {})
                           \/ JarOK(j)',
           \A t \in alarms' :
              t \in alarms \/ (t \in 1..Issued /\ (Private(issuedTo[t]) => ~Clean(t)'))
    PROVE  Inv'
  <1>1. Issued \in Nat /\ Issued' = Issued /\ \A t : Clean(t)' => Clean(t)
    BY IssuedType, StaysClean DEF Inv
  <1>2. /\ request \in [Requests -> Request] /\ request' \in [Requests -> Request]
        /\ request'[q] = r /\ \A p \in Requests \ {q} : request'[p] = request[p]
    BY DEF Inv, Typed
  <1>3. Typed'
    BY <1>1, <1>2 DEF Inv, Typed
  <1>4. OneEach'
    BY <1>2 DEF Inv, OneEach
  <1>5. ASSUME NEW p \in Requests
        PROVE  (Numbered(request[p]) /\ Watching(request[p]) /\ Newest(request[p]))'
    <2>1. CASE p = q
      <3>1. Numbered(request[p])'
        BY <1>2, <2>1 DEF Numbered
      <3>2. Watching(request[p])'
        BY <1>2, <2>1 DEF Watching
      <3>3. Newest(request[p])'
        BY <1>2, <2>1 DEF Newest, Awaits
      <3> QED BY <3>1, <3>2, <3>3
    <2>2. CASE p # q
      <3>1. PICK s \in Request : s = request[p] /\ s = request'[p]
        BY <1>2, <2>2
      <3>2. Numbered(s) /\ Watching(s) /\ Newest(s)
        BY <3>1 DEF Inv
      <3>3. Numbered(s)' /\ Newest(s)'
        BY <3>2, StaysAsItIs DEF Inv
      <3>4. Numbered(request[p])'
        BY <3>1, <3>3 DEF Numbered
      <3>5. Watching(request[p])'
        BY <3>1, <3>2 DEF Watching
      <3>6. Newest(request[p])'
        BY <3>1, <3>3 DEF Newest, Awaits
      <3> QED BY <3>4, <3>5, <3>6
    <2> QED BY <2>1, <2>2
  <1>6. ASSUME NEW j \in Jars PROVE JarOK(j)'
    <2>1. CASE jar'[j] = 0
      BY <2>1 DEF JarOK
    <2>2. CASE jar'[j] = jar[j] /\ (request[q].at # "answered" \/ request[q].for = {})
      <3>1. Coming(j, jar[j]) => Coming(j, jar[j])'
        BY <1>2, <2>2 DEF Coming
      <3>2. JarOK(j)
        BY DEF Inv
      <3> QED BY <1>1, <2>2, <3>1, <3>2 DEF JarOK, Coming
    <2> QED BY <2>1, <2>2
  <1>7. \A t \in alarms' : Private(issuedTo'[t]) => ~Clean(t)'
    BY <1>1 DEF Inv
  <1> QED BY <1>3, <1>4, <1>5, <1>6, <1>7 DEF Inv

\* Nothing of what Inv is about changes but jars that are emptied and a
\* session that ends.
LEMMA NothingMoves ==
    ASSUME Inv, UNCHANGED <<request, issuedTo, lost, alarms>>, session' \in {0, session},
           jar' \in [Jars -> Nat], \A j \in Jars : jar'[j] \in {0, jar[j]}
    PROVE  Inv'
  <1>1. Issued \in Nat /\ Issued' = Issued /\ \A t : Clean(t)' = Clean(t)
    BY IssuedType DEF Inv, Clean, Issued
  <1>2. Typed'
    <2>1. session' \in {0, Issued'}
      BY <1>1 DEF Inv, Typed
    <2>2. ASSUME NEW j \in Jars PROVE jar'[j] <= Issued'
      <3>1. jar'[j] \in {0, jar[j]} /\ jar[j] <= Issued
        BY DEF Inv, Typed
      <3> QED BY <1>1, <3>1
    <2>3. alarms' \subseteq 1..Issued'
      BY <1>1 DEF Inv, Typed
    <2> QED BY <2>1, <2>2, <2>3 DEF Inv, Typed
  <1>3. OneEach'
    BY DEF Inv, OneEach
  <1>4. ASSUME NEW p \in Requests
        PROVE  (Numbered(request[p]) /\ Watching(request[p]) /\ Newest(request[p]))'
    <2>1. Numbered(request[p]) /\ Watching(request[p]) /\ Newest(request[p])
      BY DEF Inv
    <2>2. Numbered(request[p])' /\ Watching(request[p])'
      BY <1>1, <2>1 DEF Numbered, Watching
    <2>3. Newest(request[p])'
      BY <1>1, <2>1 DEF Newest, Awaits
    <2> QED BY <2>2, <2>3
  <1>5. ASSUME NEW j \in Jars PROVE JarOK(j)'
    <2>1. JarOK(j) /\ jar'[j] \in {0, jar[j]}
      BY DEF Inv
    <2> QED BY <1>1, <2>1 DEF JarOK, Coming
  <1>6. \A t \in alarms' : Private(issuedTo'[t]) => ~Clean(t)'
    BY <1>1 DEF Inv
  <1> QED BY <1>2, <1>3, <1>4, <1>5, <1>6 DEF Inv

-----------------------------------------------------------------------------
(* The steps of a request                                                   *)

LEMMA AboutRequest ==
    ASSUME Inv, NEW q \in Requests
    PROVE  /\ request[q] \in Request
           /\ Numbered(request[q]) /\ Watching(request[q]) /\ Newest(request[q])
           /\ Issued \in Nat /\ session \in {0, Issued} /\ 0 \notin lost
           /\ jar \in [Jars -> Nat] /\ \A j \in Jars : jar[j] <= Issued
           /\ \A c \in Clients : request[q].for = {c} =>
                 \A p \in Requests \ {q} : request[p].for # {c}
  BY IssuedType DEF Inv, Typed, OneEach

LEMMA StartsLogin ==
    ASSUME Inv, NEW c \in Clients, NEW q \in Requests, StartLogin(c, q) PROVE Inv'
  <1> DEFINE r == [Free EXCEPT !.at = "login", !.for = {c}, !.to = Jar[c]]
  <1>1. /\ r \in Request /\ r.at = "login" /\ r.for = {c} /\ r.to = Jar[c]
        /\ r.token = 0 /\ r.seen = 0
    BY AnyClientsJar DEF Free, Request
  <1>2. request' = [request EXCEPT ![q] = r]
    BY DEF StartLogin
  <1>3. request[q].at = "free" /\ ~Waits(c) /\ UNCHANGED <<session, issuedTo, jar, alarms, lost>>
    BY DEF StartLogin
  <1> HIDE DEF r
  <1>4. \A p \in Requests : c \notin request[p].for
    BY <1>3, AboutRequest DEF Waits, Busy, Watching
  <1>5. Issued' = Issued /\ Issued \in Nat
    BY <1>3, AboutRequest DEF Issued
  <1>6. Numbered(r)' /\ Watching(r) /\ Newest(r)'
    BY <1>1, <1>5 DEF Numbered, Watching, Newest, Refreshing, Awaits
  <1> QED BY <1>1, <1>2, <1>3, <1>4, <1>6, AboutRequest, RequestMoves

LEMMA StartsRefresh ==
    ASSUME Inv, NEW c \in Clients, NEW q \in Requests, StartRefresh(c, q) PROVE Inv'
  <1>1. Jar[c] \in Jars /\ jar[Jar[c]] \in Nat
    BY AnyClientsJar, AboutRequest
  <1> DEFINE s == [Free EXCEPT !.at = "sent", !.for = {c}, !.to = Jar[c], !.token = jar[Jar[c]]]
  <1>2a. /\ s \in Request /\ s.at = "sent" /\ s.for = {c} /\ s.to = Jar[c]
         /\ s.token = jar[Jar[c]] /\ s.seen = 0
    BY <1>1 DEF Free, Request
  <1>2b. request' = [request EXCEPT ![q] = s]
    BY DEF StartRefresh
  <1> HIDE DEF s
  <1>2. PICK r \in Request :
            /\ r = s /\ r.at = "sent" /\ r.for = {c} /\ r.to = Jar[c]
            /\ r.token = jar[Jar[c]] /\ r.seen = 0
    BY <1>2a
  <1>3. request' = [request EXCEPT ![q] = r]
    BY <1>2, <1>2b
  <1>4. /\ request[q].at = "free" /\ ~Waits(c) /\ jar[Jar[c]] # 0
        /\ UNCHANGED <<session, issuedTo, jar, alarms, lost>>
    BY DEF StartRefresh
  <1>5. \A p \in Requests : c \notin request[p].for
    BY <1>4, AboutRequest DEF Waits, Busy, Watching
  <1>6. Issued' = Issued /\ Issued \in Nat /\ \A t : Clean(t)' = Clean(t)
    BY <1>4, AboutRequest DEF Issued, Clean
  <1>7. JarOK(Jar[c]) /\ jar[Jar[c]] <= Issued
    BY <1>1, AboutRequest DEF Inv
  <1>8. Numbered(r)'
    BY <1>2, <1>4, <1>6, <1>7 DEF Numbered, Refreshing, JarOK
  <1>9. Private(Jar[c]) => ~Coming(Jar[c], jar[Jar[c]])
    BY <1>5 DEF Private, Coming
  <1>10. Newest(r)'
    BY <1>2, <1>4, <1>6, <1>7, <1>9 DEF Newest, Refreshing, Awaits, JarOK
  <1>11. Watching(r)
    BY <1>2 DEF Watching
  <1> QED BY <1>2, <1>3, <1>4, <1>5, <1>8, <1>10, <1>11, AboutRequest, RequestMoves

LEMMA Reads ==
    ASSUME Inv, NEW q \in Requests, ReadFingerprint(q) PROVE Inv'
  <1> DEFINE s == [request[q] EXCEPT !.at = "read", !.seen = session,
                                     !.held = (request[q].token = session)]
  <1>1a. /\ s \in Request /\ s.at = "read" /\ s.for = request[q].for /\ s.to = request[q].to
         /\ s.token = request[q].token /\ s.seen = session
         /\ s.held <=> s.token = session
    <2>1. CASE request[q].token = session
      <3>1. s = [request[q] EXCEPT !.at = "read", !.seen = session, !.held = TRUE]
        BY <2>1
      <3> HIDE DEF s
      <3> QED BY <2>1, <3>1, AboutRequest DEF Request
    <2>2. CASE request[q].token # session
      <3>1. s = [request[q] EXCEPT !.at = "read", !.seen = session, !.held = FALSE]
        BY <2>2
      <3> HIDE DEF s
      <3>2. s.held = FALSE
        BY <3>1, AboutRequest DEF Request
      <3>3. /\ s.at = "read" /\ s.for = request[q].for
            /\ s.to = request[q].to /\ s.token = request[q].token /\ s.seen = session
        BY <3>1, AboutRequest DEF Request
      <3>4. session \in Nat /\ request[q] \in Request
        BY AboutRequest
      <3>5. s \in Request
        BY <3>1, <3>4 DEF Request
      <3> QED BY <2>2, <3>2, <3>3, <3>5
    <2> QED BY <2>1, <2>2
  <1>1b. request' = [request EXCEPT ![q] = s]
    BY AboutRequest DEF ReadFingerprint, Inv, Typed
  <1> HIDE DEF s
  <1>1. PICK r \in Request :
            /\ r = s /\ r.at = "read" /\ r.for = request[q].for /\ r.to = request[q].to
            /\ r.token = request[q].token /\ r.seen = session
            /\ r.held <=> r.token = session
    BY <1>1a
  <1>2. /\ request[q].at = "sent" /\ request' = [request EXCEPT ![q] = r]
        /\ UNCHANGED <<session, issuedTo, jar, alarms, lost>>
    BY <1>1, <1>1b DEF ReadFingerprint, OnServer
  <1>3. Issued' = Issued /\ Issued \in Nat /\ \A t : Clean(t)' = Clean(t)
    BY <1>2, AboutRequest DEF Issued, Clean
  <1>4. Numbered(r)'
    BY <1>1, <1>2, <1>3, AboutRequest DEF Numbered, Refreshing
  <1>5. Newest(r)'
    BY <1>1, <1>2, <1>3, AboutRequest DEF Newest, Refreshing, Awaits
  <1>6. Watching(r)
    BY <1>1, <1>2, AboutRequest DEF Watching
  <1> QED BY <1>1, <1>2, <1>4, <1>5, <1>6, AboutRequest, RequestMoves

\* An answer: the request is refused or passes.
LEMMA Answers ==
    ASSUME Inv, NEW q \in Requests, NEW at \in {"refused", "rotating"}, Goes(q, at),
           request[q].at = "read", at = "rotating" => request[q].seen = request[q].token,
           UNCHANGED <<issuedTo, jar, lost>>, session' \in {0, session},
           \A t \in alarms' :
              t \in alarms \/ (t \in 1..Issued /\ (Private(issuedTo[t]) => ~Clean(t)'))
    PROVE  Inv'
  <1> DEFINE s == [request[q] EXCEPT !.at = at]
  <1>1a. /\ s \in Request /\ s.at = at /\ s.for = request[q].for /\ s.to = request[q].to
         /\ s.token = request[q].token /\ s.seen = request[q].seen
         /\ s.held <=> request[q].held
    BY AboutRequest DEF Request
  <1>1b. request' = [request EXCEPT ![q] = s]
    BY AboutRequest DEF Goes, Inv, Typed
  <1> HIDE DEF s
  <1>1. PICK r \in Request :
            /\ r = s /\ r.at = at /\ r.for = request[q].for /\ r.to = request[q].to
            /\ r.token = request[q].token /\ r.seen = request[q].seen
            /\ r.held <=> request[q].held
    BY <1>1a
  <1>2. request' = [request EXCEPT ![q] = r]
    BY <1>1, <1>1b
  <1>3. Issued' = Issued /\ Issued \in Nat /\ \A t : Clean(t)' = Clean(t)
    BY AboutRequest DEF Issued, Clean
  <1>4. Numbered(r)'
    BY <1>1, <1>3, AboutRequest DEF Numbered, Refreshing
  <1>5. Newest(r)'
    BY <1>1, <1>3, AboutRequest DEF Newest, Refreshing, Awaits
  <1>6. Watching(r)
    BY <1>1, AboutRequest DEF Watching
  <1> QED BY <1>1, <1>2, <1>4, <1>5, <1>6, AboutRequest, RequestMoves

LEMMA Alarms ==
    ASSUME Inv, NEW q \in Requests, request[q].at = "read",
           request[q].seen \notin {0, request[q].token}
    PROVE  LET t == request[q].token IN t \in 1..Issued /\ (Private(issuedTo[t]) => ~Clean(t))
  <1> DEFINE t == request[q].token
  <1>1. /\ t \in Nat /\ request[q].seen \in Nat /\ t # 0 /\ t <= Issued
        /\ request[q].seen > t /\ request[q].seen <= Issued /\ Issued \in Nat
    BY AboutRequest DEF Numbered, Refreshing, Request
  <1>2. ASSUME Private(issuedTo[t]), Clean(t) PROVE FALSE
    <2>1. t \in t..Issued /\ t \notin lost
      BY <1>1, <1>2 DEF Clean
    <2>2. PICK c \in Clients : request[q].for = {c} /\ request[q].to = Jar[c]
      BY <1>1, <2>1, AboutRequest DEF Numbered, Watching
    <2>3. Awaits(c, request[q])
      BY <1>1, <1>2, <2>2, AboutRequest DEF Awaits, Numbered
    <2>4. t = Issued
      BY <1>2, <2>3, AboutRequest DEF Newest, Refreshing
    <2> QED BY <1>1, <2>4
  <1> QED BY <1>1, <1>2

LEMMA ReadsAnswer ==
    ASSUME Inv, NEW q \in Requests,
           RefuseEnded(q) \/ RevokeOnReuse(q) \/ RefuseInactive(q) \/ Pass(q)
    PROVE  Inv'
  <1>1. CASE RefuseEnded(q)
    BY <1>1, Answers DEF RefuseEnded, OnServer
  <1>2. CASE RevokeOnReuse(q)
    <2>1. Issued' = Issued /\ \A t : Clean(t)' = Clean(t)
      BY <1>2 DEF RevokeOnReuse, OnServer, Issued, Clean
    <2> QED BY <1>2, <2>1, Answers, Alarms DEF RevokeOnReuse, OnServer
  <1>3. CASE RefuseInactive(q)
    BY <1>3, Answers DEF RefuseInactive, OnServer
  <1>4. CASE Pass(q)
    BY <1>4, Answers DEF Pass, OnServer
  <1> QED BY <1>1, <1>2, <1>3, <1>4

-----------------------------------------------------------------------------
(* A client hears                                                           *)

LEMMA FreeIsFine ==
    ASSUME Inv, UNCHANGED issuedTo
    PROVE  Free \in Request /\ Numbered(Free)' /\ Watching(Free) /\ Newest(Free)'
  <1>1. Issued' = Issued /\ Issued \in Nat
    BY IssuedType DEF Inv, Issued
  <1>2. Free.at = "free" /\ Free.for = {} /\ Free.token = 0 /\ Free.seen = 0
    BY DEF Free
  <1>3. Numbered(Free)'
    BY <1>1, <1>2 DEF Numbered, Refreshing
  <1>4. Newest(Free)'
    BY <1>2 DEF Newest, Awaits
  <1> QED BY <1>2, <1>3, <1>4, FreeType DEF Watching

LEMMA Keeps ==
    ASSUME Inv, NEW c \in Clients, NEW q \in Requests, KeepTokens(c, q) PROVE Inv'
  <1>1. /\ request[q].at = "answered" /\ request[q].for = {c}
        /\ jar' = [jar EXCEPT ![Jar[c]] = request[q].seen]
        /\ request' = [request EXCEPT ![q] = Free]
        /\ UNCHANGED <<session, issuedTo, alarms, lost>>
    BY DEF KeepTokens, Ends, OnClient
  <1>2. Jar[c] \in Jars /\ request[q].to = Jar[c]
    BY <1>1, AnyClientsJar, AboutRequest DEF Watching
  <1>3. /\ request[q].seen \in Nat /\ request[q].seen <= Issued /\ request[q].seen # 0
        /\ issuedTo[request[q].seen] = Jar[c]
        /\ (Private(Jar[c]) /\ Clean(request[q].seen)) => request[q].seen = Issued
    BY <1>1, <1>2, AboutRequest DEF Numbered, Newest, Awaits, Request
  <1>4. Issued' = Issued /\ \A t : Clean(t)' = Clean(t)
    BY <1>1 DEF Issued, Clean
  <1>5. JarOK(Jar[c])'
    BY <1>1, <1>2, <1>3, <1>4, AboutRequest DEF JarOK
  <1>6. ASSUME NEW j \in Jars, j # Jar[c] PROVE JarOK(j)'
    <2>1. jar'[j] = jar[j] /\ JarOK(j)
      BY <1>1, <1>6, AboutRequest DEF Inv
    <2>2. Coming(j, jar[j]) => Coming(j, jar[j])'
      <3> SUFFICES ASSUME Coming(j, jar[j]) PROVE Coming(j, jar[j])'
        OBVIOUS
      <3>1. PICK p \in Requests, d \in Clients :
                /\ request[p].for = {d} /\ Jar[d] = j
                /\ request[p].at = "answered" /\ request[p].seen >= jar[j]
        BY DEF Coming
      <3>2. p # q
        BY <1>1, <1>6, <3>1
      <3>3. request'[p] = request[p]
        BY <1>1, <3>2 DEF Inv, Typed
      <3> QED BY <2>1, <3>1, <3>3 DEF Coming
    <2> QED BY <1>1, <1>4, <2>1, <2>2 DEF JarOK, Coming
  <1>7. jar' \in [Jars -> Nat] /\ \A j \in Jars : jar'[j] <= Issued
    BY <1>1, <1>3, AboutRequest
  <1>8. Free.for = {}
    BY DEF Free
  <1>9. \A j \in Jars : JarOK(j)'
    BY <1>5, <1>6
  <1>10. /\ Free \in Request /\ Numbered(Free)' /\ Watching(Free) /\ Newest(Free)'
         /\ \A d \in Clients : Free.for # {d}
    BY <1>1, <1>8, FreeIsFine
  <1> QED BY <1>1, <1>7, <1>9, <1>10, AboutRequest, RequestMoves

LEMMA IsLoggedOut ==
    ASSUME Inv, NEW c \in Clients, NEW q \in Requests, ForceLogout(c, q) PROVE Inv'
  <1>1. /\ request[q].at = "refused"
        /\ jar' \in {jar, [jar EXCEPT ![Jar[c]] = 0]}
        /\ request' = [request EXCEPT ![q] = Free]
        /\ UNCHANGED <<session, issuedTo, alarms, lost>>
    BY DEF ForceLogout, Ends, OnClient
  <1>2. jar' \in [Jars -> Nat] /\ \A j \in Jars : jar'[j] \in {0, jar[j]} /\ jar'[j] <= Issued
    BY <1>1, AboutRequest
  <1>3. Free.for = {}
    BY DEF Free
  <1> QED BY <1>1, <1>2, <1>3, AboutRequest, FreeIsFine, RequestMoves

LEMMA Vanishes ==
    ASSUME Inv, NEW q \in Requests, Vanish(q) PROVE Inv'
  <1>1. /\ request[q].for = {} /\ request' = [request EXCEPT ![q] = Free]
        /\ UNCHANGED <<session, issuedTo, jar, alarms, lost>>
    BY DEF Vanish, Watched, Ends, OnClient
  <1>2. Free.for = {}
    BY DEF Free
  <1> QED BY <1>1, <1>2, FreeIsFine, AboutRequest, RequestMoves

LEMMA GivesUp ==
    ASSUME Inv, NEW c \in Clients, NEW q \in Requests, GiveUp(c, q) PROVE Inv'
  <1> DEFINE s == [request[q] EXCEPT !.for = {}]
  <1>1. /\ request[q].at # "free" /\ request[q].for = {c}
        /\ request' = [request EXCEPT ![q] = s]
        /\ jar' \in {jar, [jar EXCEPT ![Jar[c]] = 0]}
        /\ lost' = (lost \cup {request[q].token, Answer(q)}) \ {0}
        /\ UNCHANGED <<session, issuedTo, alarms>>
    BY AboutRequest DEF GiveUp, Busy, OnClient, Inv, Typed
  <1>2. /\ s \in Request /\ s.at = request[q].at /\ s.for = {} /\ s.to = request[q].to
        /\ s.token = request[q].token /\ s.seen = request[q].seen
        /\ s.held <=> request[q].held
    BY AboutRequest DEF Request
  <1> HIDE DEF s
  <1>3. PICK r \in Request :
            /\ r = s /\ r.at = request[q].at /\ r.for = {} /\ r.to = request[q].to
            /\ r.token = request[q].token /\ r.seen = request[q].seen
            /\ r.held <=> request[q].held
    BY <1>2
  <1>4. lost \subseteq lost' /\ 0 \notin lost'
    BY <1>1, AboutRequest
  <1>5. Issued' = Issued /\ Issued \in Nat /\ \A t : Clean(t)' => Clean(t)
    BY <1>1, <1>4, StaysClean, AboutRequest DEF Inv
  <1>6. Numbered(request[q]) /\ Watching(request[q])
    BY AboutRequest
  <1>7. r.token # 0 => r.token \in lost'
    BY <1>1, <1>3
  <1>8. Numbered(r)'
    BY <1>1, <1>3, <1>5, <1>6, <1>7 DEF Numbered, Refreshing
  <1>9. Watching(r) /\ Newest(r)'
    BY <1>1, <1>3 DEF Watching, Newest, Awaits
  <1>10. jar' \in [Jars -> Nat] /\ \A j \in Jars : jar'[j] \in {0, jar[j]} /\ jar'[j] <= Issued
    BY <1>1, AboutRequest
  <1>11. ASSUME NEW j \in Jars, jar'[j] # 0, request[q].at = "answered" PROVE JarOK(j)'
    <2>1. JarOK(j) /\ jar'[j] = jar[j]
      BY <1>10, <1>11 DEF Inv
    <2>2. request[q].seen \in lost' /\ request[q].seen \in Nat /\ request[q].seen <= Issued
      BY <1>1, <1>6, <1>11, AboutRequest DEF Answer, Numbered, Request
    <2>3. CASE ~Clean(jar[j]) \/ ~Private(j) \/ jar[j] = Issued
      BY <1>1, <1>5, <2>1, <2>3, <1>11 DEF JarOK
    <2>4. CASE Coming(j, jar[j]) /\ Clean(jar[j]) /\ Private(j)
      <3>1. PICK p \in Requests, d \in Clients :
                /\ request[p].for = {d} /\ Jar[d] = j
                /\ request[p].at = "answered" /\ request[p].seen >= jar[j]
        BY <2>4 DEF Coming
      <3>2. CASE p = q
        <4>1. request[q].seen \in jar[j]..Issued
          BY <2>2, <3>1, <3>2, <1>5, AboutRequest
        <4>2. ~Clean(jar[j])'
          BY <1>5, <2>1, <2>2, <4>1 DEF Clean
        <4> QED BY <1>1, <2>1, <4>2, <1>11 DEF JarOK
      <3>3. CASE p # q
        <4>1. request'[p] = request[p]
          BY <1>1, <3>3 DEF Inv, Typed
        <4>2. Coming(j, jar[j])'
          BY <2>1, <3>1, <4>1 DEF Coming
        <4> QED BY <1>1, <1>11, <2>1, <4>2 DEF JarOK, Coming
      <3> QED BY <3>2, <3>3
    <2> QED BY <2>1, <2>3, <2>4, <1>11 DEF JarOK
  <1>12. request' = [request EXCEPT ![q] = r]
    BY <1>1, <1>3
  <1>13. \A j \in Jars : \/ jar'[j] = 0 \/ JarOK(j)'
                         \/ jar'[j] = jar[j] /\ request[q].at # "answered"
    BY <1>10, <1>11
  <1> QED BY <1>1, <1>3, <1>4, <1>8, <1>9, <1>10, <1>12, <1>13, RequestMoves

-----------------------------------------------------------------------------
(* A token is issued                                                        *)

LEMMA Issues ==
    ASSUME Inv, NEW q \in Requests, request[q].at \in {"login", "rotating"}, Issue(q)
    PROVE  Inv'
  <1> DEFINE n == Issued + 1
             s == [request[q] EXCEPT !.at = "answered", !.seen = n]
  <1>1. /\ issuedTo' = Append(issuedTo, request[q].to) /\ session' = n
        /\ request' = [request EXCEPT ![q] = s]
        /\ lost' = IF request[q].for # {} THEN lost ELSE lost \cup {n}
        /\ UNCHANGED <<alarms, jar>>
    BY AboutRequest DEF Issue, Watched, Inv, Typed
  <1>2. Issued \in Nat /\ n \in Nat /\ request[q].to \in Jars
    BY AboutRequest DEF Request
  <1>3. /\ s \in Request /\ s.at = "answered" /\ s.for = request[q].for /\ s.to = request[q].to
        /\ s.token = request[q].token /\ s.seen = n
    BY <1>2, AboutRequest DEF Request
  <1>4. /\ issuedTo' \in Seq(Jars) /\ Issued' = n /\ issuedTo'[n] = request[q].to
        /\ \A t \in 1..Issued : issuedTo'[t] = issuedTo[t]
    BY <1>1, <1>2 DEF Inv, Typed, Issued
  <1>5. lost \subseteq lost' /\ 0 \notin lost'
    BY <1>1, <1>2, AboutRequest
  <1> HIDE DEF s, n
  <1>6. n = Issued + 1
    BY DEF n
  <1>7. /\ request' \in [Requests -> Request] /\ request'[q] = s
        /\ \A p \in Requests \ {q} : request'[p] = request[p]
    BY <1>1, <1>3 DEF Inv, Typed
  \* A token that is still clean was so, and the new one went to its jar.
  <1>8. ASSUME NEW t \in 1..Issued, Clean(t)'
        PROVE  Clean(t) /\ request[q].to = issuedTo[t] /\ request[q].for # {}
    <2>1. n \in t..n
      BY <1>2, <1>6
    <2>2. n \notin lost' /\ issuedTo'[n] = issuedTo'[t]
      BY <1>4, <1>8, <2>1 DEF Clean
    <2>3. \A u \in t..Issued : u \in t..n /\ u \in 1..Issued
      BY <1>2, <1>6
    <2>4. Clean(t)
      BY <1>4, <1>5, <1>8, <2>3 DEF Clean
    <2> QED BY <1>1, <1>4, <2>2, <2>4
  <1>9. Typed'
    <2>1. session' \in {0, Issued'}
      BY <1>1, <1>4
    <2>2. \A j \in Jars : jar'[j] <= Issued'
      BY <1>1, <1>2, <1>4, <1>6, AboutRequest
    <2>3. alarms' \subseteq 1..Issued'
      BY <1>1, <1>2, <1>4, <1>6 DEF Inv, Typed
    <2>4. jar' \in [Jars -> Nat]
      BY <1>1 DEF Inv, Typed
    <2> QED BY <1>4, <1>5, <1>7, <2>1, <2>2, <2>3, <2>4 DEF Typed
  <1>10. OneEach'
    BY <1>3, <1>7 DEF Inv, OneEach
  <1>11. ASSUME NEW p \in Requests, p # q
         PROVE  (Numbered(request[p]) /\ Watching(request[p]) /\ Newest(request[p]))'
    <2>1. PICK r \in Request : r = request[p] /\ r = request'[p]
      BY <1>7, <1>11, AboutRequest
    <2>2. Numbered(r) /\ Watching(r) /\ Newest(r)
      BY <2>1, AboutRequest
    <2>3. /\ r.token \in Nat /\ r.seen \in Nat
          /\ (r.token # 0 => r.token \in 1..Issued) /\ (r.seen # 0 => r.seen \in 1..Issued)
      BY <1>2, <2>2 DEF Numbered, Request
    <2>4. Numbered(r)'
      BY <1>2, <1>4, <1>5, <1>6, <2>2, <2>3 DEF Numbered
    <2>5. ASSUME NEW c \in Clients, Awaits(c, r), NEW t \in 1..Issued,
                 issuedTo[t] = r.to, Clean(t)'
          PROVE  FALSE
      <3>1. r.for = {c} /\ Private(Jar[c]) /\ r.to = Jar[c]
        BY <2>2, <2>5 DEF Awaits, Watching
      <3>2. request[q].to = Jar[c] /\ request[q].for # {}
        BY <1>8, <2>5, <3>1
      <3>3. request[q].for = {c}
        BY <3>1, <3>2, AboutRequest DEF Watching, Private
      <3> QED BY <1>11, <2>1, <3>1, <3>3, AboutRequest
    <2>6. Newest(r)'
      <3> SUFFICES ASSUME NEW c \in Clients, Awaits(c, r)
                   PROVE  /\ ~(Refreshing(r) /\ Clean(r.token)')
                          /\ ~(r.at = "answered" /\ Clean(r.seen)')
        BY DEF Newest, Awaits, Refreshing
      <3>1. ~(Refreshing(r) /\ Clean(r.token)')
        BY <2>2, <2>3, <2>5 DEF Numbered
      <3>2. ~(r.at = "answered" /\ Clean(r.seen)')
        BY <2>2, <2>3, <2>5 DEF Numbered
      <3> QED BY <3>1, <3>2
    <2> QED BY <2>1, <2>2, <2>4, <2>6 DEF Numbered, Watching, Newest, Awaits
  <1>12. (Numbered(request[q]) /\ Watching(request[q]) /\ Newest(request[q]))'
    <2>1. PICK r \in Request :
              /\ r = s /\ r.at = "answered" /\ r.for = request[q].for /\ r.to = request[q].to
              /\ r.token = request[q].token /\ r.seen = n
      BY <1>3
    <2>2. Numbered(request[q]) /\ Watching(request[q]) /\ r.token \in Nat
      BY AboutRequest DEF Request
    <2>3. r.token # 0 => r.token \in 1..Issued
      BY <1>2, <2>1, <2>2 DEF Numbered
    <2>4. Numbered(r)'
      BY <1>2, <1>4, <1>5, <1>6, <2>1, <2>2, <2>3 DEF Numbered, Refreshing
    <2>5. Watching(r)
      BY <2>1, <2>2 DEF Watching
    <2>6. Newest(r)'
      BY <1>4, <2>1 DEF Newest, Refreshing
    <2> QED BY <1>7, <2>1, <2>4, <2>5, <2>6 DEF Numbered, Watching, Newest, Awaits
  <1>13. ASSUME NEW j \in Jars PROVE JarOK(j)'
    <2> SUFFICES ASSUME jar[j] # 0
                 PROVE  /\ issuedTo'[jar[j]] = j
                        /\ (Private(j) /\ Clean(jar[j])') => Coming(j, jar[j])'
      BY <1>1 DEF JarOK
    <2>1. jar[j] \in 1..Issued /\ jar[j] \in Nat /\ issuedTo[jar[j]] = j
      BY <1>2, AboutRequest DEF Inv, JarOK
    <2>2. ASSUME Private(j), Clean(jar[j])' PROVE Coming(j, jar[j])'
      <3>1. Clean(jar[j])'
        BY <2>2
      <3>2. PICK t \in 1..Issued : t = jar[j] /\ t = jar'[j]
        BY <1>1, <2>1
      <3>3. Clean(t)'
        BY <3>1, <3>2 DEF Clean
      <3>4. request[q].to = j /\ request[q].for # {}
        BY <1>8, <2>1, <3>2, <3>3
      <3>5. PICK c \in Clients : request[q].for = {c} /\ Jar[c] = j
        BY <3>4, AboutRequest DEF Watching
      <3>6. n >= jar[j]
        BY <1>2, <1>6, <2>1
      <3> QED BY <1>1, <1>3, <1>7, <3>5, <3>6 DEF Coming
    <2> QED BY <1>4, <2>1, <2>2
  <1>14. ASSUME NEW t \in alarms PROVE Private(issuedTo'[t]) => ~Clean(t)'
    <2>1. t \in 1..Issued /\ (Private(issuedTo[t]) => ~Clean(t))
      BY DEF Inv, Typed
    <2> QED BY <1>4, <1>8, <2>1
  <1> QED BY <1>1, <1>9, <1>10, <1>11, <1>12, <1>13, <1>14 DEF Inv

-----------------------------------------------------------------------------
(* The invariant                                                            *)

LEMMA InitInv == ASSUME Init PROVE Inv
  <1>1. Issued = 0 /\ \A q \in Requests : request[q] = Free
    BY DEF Init, Issued
  <1>2. Free.at = "free" /\ Free.for = {} /\ Free.token = 0 /\ Free.seen = 0
    BY DEF Free
  <1>3. Typed
    BY <1>1, FreeType DEF Init, Typed
  <1>4. OneEach
    BY <1>1, <1>2 DEF OneEach
  <1>5. ASSUME NEW q \in Requests
        PROVE  Numbered(request[q]) /\ Watching(request[q]) /\ Newest(request[q])
    BY <1>1, <1>2 DEF Numbered, Watching, Newest, Awaits, Refreshing
  <1>6. \A j \in Jars : JarOK(j)
    BY DEF Init, JarOK
  <1>7. alarms = {}
    BY DEF Init
  <1> QED BY <1>3, <1>4, <1>5, <1>6, <1>7 DEF Inv

LEMMA NextInv == ASSUME Inv, [Next]_vars PROVE Inv'
  <1>1. CASE UNCHANGED vars
    BY <1>1, NothingMoves, AboutRequest DEF vars, Inv, Typed
  <1>2. ASSUME NEW q \in Requests, Work(q) PROVE Inv'
    <2>1. CASE FinishLogin(q)
      BY <2>1, Issues DEF FinishLogin
    <2>2. CASE Rotate(q)
      BY <2>2, Issues DEF Rotate
    <2>3. CASE ReadFingerprint(q)
      BY <2>3, Reads
    <2>4. CASE RefuseEnded(q) \/ RevokeOnReuse(q) \/ RefuseInactive(q) \/ Pass(q)
      BY <2>4, ReadsAnswer
    <2>5. CASE Vanish(q)
      BY <2>5, Vanishes
    <2> QED BY <1>2, <2>1, <2>2, <2>3, <2>4, <2>5 DEF Work
  <1>3. ASSUME NEW c \in Clients, NEW q \in Requests,
               StartLogin(c, q) \/ StartRefresh(c, q) \/ Hear(c, q) \/ GiveUp(c, q)
        PROVE  Inv'
    BY <1>3, StartsLogin, StartsRefresh, Keeps, IsLoggedOut, GivesUp DEF Hear
  <1>4. ASSUME NEW c \in Clients, AccessExpires(c) \/ Logout(c) PROVE Inv'
    <2>1. CASE AccessExpires(c)
      BY <2>1, NothingMoves DEF AccessExpires, OnClient, Inv, Typed
    <2>2. CASE Logout(c)
      <3>1. jar' \in [Jars -> Nat] /\ \A j \in Jars : jar'[j] \in {0, jar[j]}
        BY <2>2 DEF Logout, Inv, Typed
      <3> QED BY <2>2, <3>1, NothingMoves DEF Logout
    <2> QED BY <1>4, <2>1, <2>2
  <1>5. CASE End
    <2>1. /\ UNCHANGED <<request, issuedTo, lost, alarms, jar>> /\ session' \in {0, session}
      BY <1>5 DEF End, ResetPassword, UpdatePassword, SetStatus, DeleteEmployee, Commit
    <2> QED BY <2>1, NothingMoves DEF Inv, Typed
  <1> QED BY <1>1, <1>2, <1>3, <1>4, <1>5 DEF Next

\* What jars, requests and alarms hold agrees with the tokens issued, always
\* (the whole of auth_service.py login, refresh and logout).
THEOREM Invariance == Spec => []Inv
  <1>1. Init => Inv
    BY InitInv
  <1>2. Inv /\ [Next]_vars => Inv'
    BY NextInv
  <1> QED BY <1>1, <1>2, PTL DEF Spec

-----------------------------------------------------------------------------
(* What is true of every session                                            *)

\* The reuse alarm goes off only for a jar that clients share, after an
\* answer that was lost, or after another jar got a token: for any number of
\* clients, devices and requests (auth_service.py refresh, api_client.dart).
THEOREM AlarmsAreExplained == Spec => []AlarmIsExplained
  <1>1. ASSUME Inv PROVE AlarmIsExplained
    <2> SUFFICES ASSUME NEW t \in alarms, Private(issuedTo[t])
                 PROVE  \E u \in t..Issued : u \in lost \/ issuedTo[u] # issuedTo[t]
      BY Shared DEF AlarmIsExplained
    <2> QED BY <1>1 DEF Inv, Clean
  <1> QED BY <1>1, Invariance, PTL

\* A jar comes to own the session by a login of its own, or by a refresh that
\* had read its own token as the current one (auth_service.py login, refresh).
THEOREM SessionsAreTakenByLogin == Spec => OnlyALoginTakesOver
  <1> DEFINE Taken == \A j \in Owner' \ Owner : \E q \in Requests :
                         /\ request[q].to = j
                         /\ \/ request[q].at = "login"
                            \/ request[q].at = "rotating" /\ request[q].held
  <1>1. ASSUME Inv, [Next]_vars, ~Taken PROVE FALSE
    <2>1. ASSUME NEW q \in Requests, FinishLogin(q) \/ Rotate(q) PROVE Taken
      <3>1. /\ issuedTo' = Append(issuedTo, request[q].to) /\ session' = Issued + 1
            /\ request[q].at \in {"login", "rotating"}
        BY <2>1 DEF FinishLogin, Rotate, Issue
      <3>2. request[q].to \in Jars /\ issuedTo \in Seq(Jars)
        BY <1>1, AboutRequest DEF Request, Inv, Typed
      <3>3. Issued + 1 # 0 /\ issuedTo'[Issued + 1] = request[q].to
        BY <3>1, <3>2 DEF Issued
      <3>4. Owner' = {request[q].to}
        BY <3>1, <3>3 DEF Owner
      <3>5. request[q].at = "rotating" => request[q].held
        BY <1>1, AboutRequest DEF Numbered
      <3> QED BY <3>1, <3>4, <3>5
    <2>2. CASE UNCHANGED issuedTo /\ session' \in {0, session}
      BY <1>1, <2>2 DEF Owner
    <2>3. ASSUME \A q \in Requests : ~FinishLogin(q) /\ ~Rotate(q)
          PROVE  UNCHANGED issuedTo /\ session' \in {0, session}
      <3>1. CASE UNCHANGED vars
        BY <3>1 DEF vars
      <3>2. ASSUME NEW q \in Requests, Work(q)
            PROVE  UNCHANGED issuedTo /\ session' \in {0, session}
        BY <2>3, <3>2 DEF Work, ReadFingerprint, RefuseEnded, RevokeOnReuse, RefuseInactive, Pass,
                          Vanish, OnClient
      <3>3. ASSUME NEW c \in Clients, NEW q \in Requests,
                   StartLogin(c, q) \/ StartRefresh(c, q) \/ Hear(c, q) \/ GiveUp(c, q)
            PROVE  UNCHANGED <<issuedTo, session>>
        BY <3>3 DEF StartLogin, StartRefresh, Hear, KeepTokens, ForceLogout, GiveUp, OnClient
      <3>4. ASSUME NEW c \in Clients, AccessExpires(c) \/ Logout(c)
            PROVE  UNCHANGED issuedTo /\ session' \in {0, session}
        BY <3>4 DEF AccessExpires, Logout, OnClient
      <3>5. CASE End
        BY <3>5 DEF End, ResetPassword, UpdatePassword, SetStatus, DeleteEmployee, Commit
      <3> QED BY <1>1, <3>1, <3>2, <3>3, <3>4, <3>5 DEF Next
    <2> QED BY <1>1, <2>1, <2>2, <2>3
  <1>2. Inv /\ [Next]_vars => [Taken]_vars
    BY <1>1
  <1> QED BY <1>2, Invariance, PTL DEF Spec, OnlyALoginTakesOver

-----------------------------------------------------------------------------
(* The types, and the bound on tokens                                       *)

\* A request that issues a token, and one that does so unless another comes first
\* or the account is no longer active.
Certain(r) == r.at \in {"login", "rotating"}
Possible(r) ==
    \/ Certain(r)
    \/ r.at = "sent" /\ r.token = session
    \/ r.at = "read" /\ r.seen = r.token

Musts == {q \in Requests : Certain(request[q])}
Mays == {q \in Requests : Possible(request[q])}

\* Each of them has room.
Bounded ==
    /\ IsFiniteSet(Busy)
    /\ account = "active" => Issued + Cardinality(Mays) <= MaxTokens
    /\ Issued + Cardinality(Musts) <= MaxTokens

\* What the clients, the account and the administrator hold.
Kinds ==
    /\ account \in {"active", "inactive", "deleted"} /\ admin \in {"idle", "inactive", "deleted"}
    /\ access \subseteq Clients /\ rotated \cup lost \subseteq 1..Issued

TypeInv == Inv /\ Bounded /\ Kinds

LEMMA MustsAreBusy == Musts \subseteq Mays /\ Mays \subseteq Busy
  BY DEF Musts, Mays, Busy, Certain, Possible

\* No more of them than before, or room for all that is at work.
LEMMA StaysBounded ==
    ASSUME Typed, Bounded, UNCHANGED issuedTo, IsFiniteSet(Busy'),
           account' = "active" => \/ account = "active" /\ Mays' \subseteq Mays
                                  \/ Issued + Cardinality(Busy') <= MaxTokens,
           \/ Musts' \subseteq Musts
           \/ account = "active" /\ Musts' \subseteq Mays
           \/ Issued + Cardinality(Busy') <= MaxTokens
    PROVE  Bounded'
  <1>1. Issued \in Nat /\ Issued' = Issued /\ MaxTokens \in Nat
    BY IssuedType, AuthAssumption DEF Issued
  <1>2. Musts' \subseteq Mays' /\ Mays' \subseteq Busy' /\ Musts \subseteq Mays /\ Mays \subseteq Busy
    BY MustsAreBusy DEF Musts, Mays, Busy, Certain, Possible
  <1>3. /\ IsFiniteSet(Mays) /\ IsFiniteSet(Musts) /\ IsFiniteSet(Mays') /\ IsFiniteSet(Musts')
    BY <1>2, FS_Subset DEF Bounded
  <1>4. \A S, T : IsFiniteSet(T) /\ S \subseteq T =>
           Cardinality(S) \in Nat /\ Cardinality(T) \in Nat /\ Cardinality(S) <= Cardinality(T)
    BY FS_Subset, FS_CardinalityType
  <1> DEFINE B == Busy'
             Y == Mays'
             U == Musts'
  <1>5. /\ Cardinality(Y) <= Cardinality(B) /\ Cardinality(U) <= Cardinality(B)
        /\ Cardinality(Y) \in Nat /\ Cardinality(U) \in Nat /\ Cardinality(B) \in Nat
        /\ Cardinality(Mays) \in Nat /\ Cardinality(Musts) \in Nat
        /\ Y \subseteq Mays => Cardinality(Y) <= Cardinality(Mays)
        /\ U \subseteq Mays => Cardinality(U) <= Cardinality(Mays)
        /\ U \subseteq Musts => Cardinality(U) <= Cardinality(Musts)
    <2>1. U \subseteq B /\ Y \subseteq B
      BY <1>2
    <2> HIDE DEF B, Y, U
    <2>2. IsFiniteSet(B) /\ IsFiniteSet(Y) /\ IsFiniteSet(U)
      BY <1>3 DEF B, Y, U
    <2> QED BY <1>3, <1>4, <2>1, <2>2
  <1>6. account' = "active" => Issued + Cardinality(Y) <= MaxTokens
    BY <1>1, <1>5 DEF Bounded
  <1>7. Issued + Cardinality(U) <= MaxTokens
    BY <1>1, <1>5 DEF Bounded
  <1> QED BY <1>1, <1>6, <1>7 DEF Bounded

\* What does not move issues no more than before.
LEMMA NoMoreThanBefore ==
    ASSUME Inv, session' \in {0, session}, NEW p \in Requests, request'[p] = request[p]
    PROVE  /\ p \in Musts' <=> p \in Musts
           /\ p \in Mays' => p \in Mays
           /\ p \in Busy' <=> p \in Busy
  <1>1. request[p].at = "sent" => request[p].token # 0
    BY AboutRequest DEF Numbered, Refreshing
  <1> QED BY <1>1 DEF Musts, Mays, Busy, Certain, Possible

\* Request q becomes r.
LEMMA BoundedMoves ==
    ASSUME Inv, Bounded, NEW q \in Requests, NEW r, request' = [request EXCEPT ![q] = r],
           UNCHANGED <<issuedTo, account>>, session' \in {0, session},
           \/ ~ Possible(r)'
           \/ Possible(request[q]) /\ (Certain(r) => Certain(request[q]) \/ account = "active")
           \/ account # "active" /\ ~ Certain(r)
           \/ request[q].at = "free" /\ Room(1)
    PROVE  Bounded'
  <1>1. request \in [Requests -> Request] /\ request'[q] = r
        /\ \A p \in Requests : p # q => request'[p] = request[p]
    BY DEF Inv, Typed
  <1>2. \A p \in Requests : p # q =>
           (p \in Musts' <=> p \in Musts) /\ (p \in Mays' => p \in Mays) /\ (p \in Busy' <=> p \in Busy)
    BY <1>1, NoMoreThanBefore
  <1>3. q \in Musts' <=> Certain(r)
    BY <1>1 DEF Musts, Certain
  <1>4. q \in Mays' <=> Possible(r)'
    BY <1>1 DEF Mays, Possible, Certain
  <1>5. (q \in Musts <=> Certain(request[q])) /\ (q \in Mays <=> Possible(request[q]))
    BY DEF Musts, Mays
  <1>6. Busy' \subseteq Busy \cup {q} /\ Musts' \subseteq Requests /\ Mays' \subseteq Requests
    BY <1>2 DEF Busy, Musts, Mays
  <1>7. IsFiniteSet(Busy \cup {q})
    BY FS_AddElement DEF Bounded
  <1>8. IsFiniteSet(Busy')
    BY <1>6, <1>7, FS_Subset
  <1>9. CASE ~ Possible(r)'
    <2>1. ~ Certain(r)
      BY <1>9 DEF Possible, Certain
    <2>2. Musts' \subseteq Musts /\ Mays' \subseteq Mays
      BY <1>2, <1>3, <1>4, <1>6, <1>9, <2>1
    <2> QED BY <1>8, <2>2, StaysBounded DEF Inv
  <1>10. CASE Possible(request[q]) /\ (Certain(r) => Certain(request[q]) \/ account = "active")
    <2>1. Mays' \subseteq Mays
      BY <1>2, <1>5, <1>6, <1>10
    <2>2. Musts' \subseteq Musts \/ (account = "active" /\ Musts' \subseteq Mays)
      <3>1. CASE Certain(r) => Certain(request[q])
        <4>1. Musts' \subseteq Musts
          BY <1>2, <1>3, <1>5, <1>6, <3>1
        <4> QED BY <4>1
      <3>2. CASE account = "active"
        <4>1. Musts' \subseteq Mays
          BY <1>2, <1>5, <1>6, <1>10, MustsAreBusy
        <4> QED BY <3>2, <4>1
      <3> QED BY <1>10, <3>1, <3>2
    <2> QED BY <1>8, <2>1, <2>2, StaysBounded DEF Inv
  <1>11. CASE account # "active" /\ ~ Certain(r)
    <2>1. Musts' \subseteq Musts
      BY <1>2, <1>3, <1>6, <1>11
    <2> QED BY <1>8, <1>11, <2>1, StaysBounded DEF Inv
  <1>12. CASE request[q].at = "free" /\ Room(1)
    <2>1. Cardinality(Busy \cup {q}) = Cardinality(Busy) + 1
      <3>1. q \notin Busy
        BY <1>12 DEF Busy
      <3> QED BY <3>1, FS_AddElement DEF Bounded
    <2>2. Cardinality(Busy') <= Cardinality(Busy \cup {q}) /\ Cardinality(Busy') \in Nat
      BY <1>6, <1>7, <1>8, FS_Subset, FS_CardinalityType
    <2>3. Issued + Cardinality(Busy') <= MaxTokens
      <3>1. Issued \in Nat /\ MaxTokens \in Nat /\ Cardinality(Busy) \in Nat
        BY IssuedType, AuthAssumption, FS_CardinalityType DEF Inv, Bounded
      <3>2. Issued + Cardinality(Busy) + 1 <= MaxTokens
        BY <1>12 DEF Room
      <3> QED BY <2>1, <2>2, <3>1, <3>2
    <2> QED BY <1>8, <2>3, StaysBounded DEF Inv
  <1> QED BY <1>9, <1>10, <1>11, <1>12

\* A token is issued: one request less that may need one.
LEMMA BoundedIssue ==
    ASSUME Inv, Bounded, NEW q \in Requests, Certain(request[q]), Issue(q)
    PROVE  Bounded'
  <1>1. /\ Issued \in Nat /\ MaxTokens \in Nat /\ Issued' = Issued + 1 /\ session' = Issued + 1
        /\ account' = account
    <2>1. Issued \in Nat /\ MaxTokens \in Nat
      BY IssuedType, AuthAssumption DEF Inv
    <2>2. issuedTo \in Seq(Jars) /\ request[q].to \in Jars
      BY AboutRequest DEF Inv, Typed, Request
    <2>3. Len(Append(issuedTo, request[q].to)) = Len(issuedTo) + 1
      BY <2>2
    <2> QED BY <2>1, <2>3 DEF Issue, Issued
  <1> DEFINE r == [request[q] EXCEPT !.at = "answered", !.seen = Issued + 1]
  <1>2. /\ request \in [Requests -> Request] /\ request' = [request EXCEPT ![q] = r]
        /\ request'[q] = r /\ r.at = "answered"
        /\ \A p \in Requests : p # q => request'[p] = request[p]
    <2>1. request \in [Requests -> Request] /\ request[q] \in Request
      BY DEF Inv, Typed
    <2>2. request' = [request EXCEPT ![q] = r]
      BY DEF Issue
    <2>3. r.at = "answered"
      BY <2>1 DEF Request
    <2> HIDE DEF r
    <2> QED BY <2>1, <2>2, <2>3
  <1>3. \A p \in Requests : request[p].token <= Issued /\ request[p].token \in Nat
    BY AboutRequest DEF Numbered, Request
  <1>4. ASSUME NEW p \in Requests, p # q
        PROVE  (p \in Musts' => p \in Musts) /\ (p \in Mays' => p \in Mays) /\ (p \in Busy' => p \in Busy)
    <2>1. request[p].token # session'
      BY <1>1, <1>3
    <2> QED BY <1>2, <1>4, <2>1 DEF Musts, Mays, Busy, Certain, Possible
  <1>5. q \notin Musts' /\ q \notin Mays' /\ q \in Musts /\ q \in Mays /\ q \in Busy
    BY <1>2 DEF Musts, Mays, Busy, Certain, Possible
  <1>6. Musts' \subseteq Musts \ {q} /\ Mays' \subseteq Mays \ {q} /\ Busy' \subseteq Busy
    BY <1>4, <1>5 DEF Musts, Mays, Busy
  <1>7. IsFiniteSet(Musts) /\ IsFiniteSet(Mays) /\ IsFiniteSet(Busy')
    BY <1>6, MustsAreBusy, FS_Subset DEF Bounded
  <1>8. ASSUME NEW S, NEW T, IsFiniteSet(T), q \in T, S \subseteq T \ {q}
        PROVE  Cardinality(S) + 1 <= Cardinality(T) /\ Cardinality(S) \in Nat /\ Cardinality(T) \in Nat
    <2>1. IsFiniteSet(T \ {q}) /\ Cardinality(T \ {q}) = Cardinality(T) - 1
      BY <1>8, FS_RemoveElement
    <2>2. IsFiniteSet(S) /\ Cardinality(S) <= Cardinality(T \ {q})
      BY <1>8, <2>1, FS_Subset
    <2>3. Cardinality(S) \in Nat /\ Cardinality(T) \in Nat /\ Cardinality(T \ {q}) \in Nat
      BY <1>8, <2>1, <2>2, FS_CardinalityType
    <2> QED BY <2>1, <2>2, <2>3
  <1> DEFINE Y == Mays'
             U == Musts'
  <1>9. /\ Cardinality(U) + 1 <= Cardinality(Musts) /\ Cardinality(Y) + 1 <= Cardinality(Mays)
        /\ Cardinality(U) \in Nat /\ Cardinality(Y) \in Nat
        /\ Cardinality(Musts) \in Nat /\ Cardinality(Mays) \in Nat
    <2>1. U \subseteq Musts \ {q} /\ Y \subseteq Mays \ {q}
      BY <1>6
    <2> HIDE DEF U, Y
    <2> QED BY <1>5, <1>7, <1>8, <2>1
  <1>10. account' = "active" => Issued + 1 + Cardinality(Y) <= MaxTokens
    BY <1>1, <1>9 DEF Bounded
  <1>11. Issued + 1 + Cardinality(U) <= MaxTokens
    BY <1>1, <1>9 DEF Bounded
  <1> QED BY <1>1, <1>7, <1>10, <1>11 DEF Bounded

\* Requests are as they were, and the account is not activated.
LEMMA BoundedRests ==
    ASSUME Inv, Bounded, UNCHANGED <<issuedTo, request>>, session' \in {0, session},
           account' = "active" => account = "active" \/ Room(0)
    PROVE  Bounded'
  <1>1. Busy' = Busy
    BY DEF Busy
  <1>2. Musts' \subseteq Musts /\ Mays' \subseteq Mays
    BY NoMoreThanBefore DEF Musts, Mays
  <1>3. Room(0) => Issued + Cardinality(Busy') <= MaxTokens
    <2>1. Issued \in Nat /\ MaxTokens \in Nat /\ Cardinality(Busy) \in Nat
      BY IssuedType, AuthAssumption, FS_CardinalityType DEF Inv, Bounded
    <2> QED BY <1>1, <2>1 DEF Room
  <1> QED BY <1>1, <1>2, <1>3, StaysBounded DEF Inv, Bounded

LEMMA BoundedStep == ASSUME Inv, Bounded, Kinds, [Next]_vars PROVE Bounded'
  <1>0. request \in [Requests -> Request]
    BY DEF Inv, Typed
  <1>1. CASE UNCHANGED vars
    BY <1>1, BoundedRests DEF vars
  <1>2. ASSUME NEW q \in Requests, Work(q) PROVE Bounded'
    <2>1. CASE FinishLogin(q) \/ Rotate(q)
      BY <2>1, BoundedIssue DEF FinishLogin, Rotate, Certain
    <2>2. CASE ReadFingerprint(q)
      <3>0. PICK r : r = [request[q] EXCEPT !.at = "read", !.seen = session, !.held = (request[q].token = session)]
        OBVIOUS
      <3>1. request[q] \in Request
        BY <3>0, <1>0
      <3>2. request' = [request EXCEPT ![q] = r] /\ UNCHANGED <<issuedTo, account, session>>
        BY <3>0, <1>0, <2>2 DEF ReadFingerprint
      <3>3. r.at = "read" /\ r.token = request[q].token /\ r.seen = session
        BY <3>0, <3>1 DEF Request
      <3>4. (Possible(r)' => Possible(request[q])) /\ ~ Certain(r)
        BY <3>0, <2>2, <3>2, <3>3 DEF Possible, Certain, ReadFingerprint
      <3> QED BY <3>2, <3>4, BoundedMoves
    <2>3. CASE RefuseEnded(q) \/ RevokeOnReuse(q) \/ RefuseInactive(q)
      <3>0. PICK r : r = [request[q] EXCEPT !.at = "refused"]
        OBVIOUS
      <3>1. request[q] \in Request
        BY <3>0, <1>0
      <3>2. /\ request' = [request EXCEPT ![q] = r] /\ UNCHANGED <<issuedTo, account>>
            /\ session' \in {0, session}
        BY <3>0, <1>0, <2>3 DEF RefuseEnded, RevokeOnReuse, RefuseInactive, Goes
      <3>3. r.at = "refused"
        BY <3>0, <3>1 DEF Request
      <3>4. ~ Possible(r)'
        BY <3>0, <3>3 DEF Possible, Certain
      <3> QED BY <3>2, <3>4, BoundedMoves
    <2>4. CASE Pass(q)
      <3>0. PICK r : r = [request[q] EXCEPT !.at = "rotating"]
        OBVIOUS
      <3>1. request' = [request EXCEPT ![q] = r] /\ UNCHANGED <<issuedTo, account, session>>
        BY <3>0, <1>0, <2>4 DEF Pass, Goes
      <3>2. Possible(request[q]) /\ account = "active"
        BY <3>0, <2>4 DEF Pass, Possible
      <3> QED BY <3>1, <3>2, BoundedMoves
    <2>5. CASE Vanish(q)
      <3>1. request' = [request EXCEPT ![q] = Free] /\ UNCHANGED <<issuedTo, account, session>>
        BY <2>5 DEF Vanish, Ends, OnClient
      <3>2. ~ Possible(Free)'
        BY DEF Possible, Certain, Free
      <3> QED BY <3>1, <3>2, BoundedMoves
    <2> QED BY <1>2, <2>1, <2>2, <2>3, <2>4, <2>5 DEF Work
  <1>3. ASSUME NEW c \in Clients, NEW q \in Requests,
               StartLogin(c, q) \/ StartRefresh(c, q) \/ Hear(c, q) \/ GiveUp(c, q)
        PROVE  Bounded'
    <2>1. CASE StartLogin(c, q)
      <3>0. PICK r : r = [Free EXCEPT !.at = "login", !.for = {c}, !.to = Jar[c]]
        OBVIOUS
      <3>1. request' = [request EXCEPT ![q] = r] /\ UNCHANGED <<issuedTo, account, session>>
            /\ request[q].at = "free" /\ Room(1)
        BY <3>0, <2>1 DEF StartLogin
      <3> QED BY <3>1, BoundedMoves
    <2>2. CASE StartRefresh(c, q)
      <3>0. PICK r : r = [Free EXCEPT !.at = "sent", !.for = {c}, !.to = Jar[c], !.token = jar[Jar[c]]]
        OBVIOUS
      <3>1. /\ request' = [request EXCEPT ![q] = r] /\ UNCHANGED <<issuedTo, account, session>>
            /\ request[q].at = "free"
            /\ account = "active" /\ jar[Jar[c]] = session => Room(1)
        BY <3>0, <2>2 DEF StartRefresh
      <3>2. r.at = "sent" /\ r.token = jar[Jar[c]]
        BY <3>0 DEF Free
      <3>3. CASE jar[Jar[c]] # session
        <4>1. ~ Possible(r)'
          BY <3>1, <3>2, <3>3 DEF Possible, Certain
        <4> QED BY <3>1, <4>1, BoundedMoves
      <3>4. CASE account # "active"
        BY <3>0, <3>1, <3>2, <3>4, BoundedMoves DEF Certain
      <3>5. CASE Room(1)
        BY <3>0, <3>1, <3>5, BoundedMoves
      <3> QED BY <3>1, <3>3, <3>4, <3>5
    <2>3. CASE Hear(c, q)
      <3>1. request' = [request EXCEPT ![q] = Free] /\ UNCHANGED <<issuedTo, account, session>>
        BY <2>3 DEF Hear, KeepTokens, ForceLogout, Ends, OnClient
      <3>2. ~ Possible(Free)'
        BY DEF Possible, Certain, Free
      <3> QED BY <3>1, <3>2, BoundedMoves
    <2>4. CASE GiveUp(c, q)
      <3>0. PICK r : r = [request[q] EXCEPT !.for = {}]
        OBVIOUS
      <3>1. request[q] \in Request
        BY <3>0, <1>0
      <3>2. request' = [request EXCEPT ![q] = r] /\ UNCHANGED <<issuedTo, account, session>>
        BY <3>0, <2>4 DEF GiveUp, OnClient
      <3>3. r.at = request[q].at /\ r.token = request[q].token /\ r.seen = request[q].seen
        BY <3>0, <3>1 DEF Request
      <3>4. (Possible(r)' => Possible(request[q])) /\ (Certain(r) <=> Certain(request[q]))
        BY <3>0, <3>2, <3>3 DEF Possible, Certain
      <3> QED BY <3>2, <3>4, BoundedMoves
    <2> QED BY <1>3, <2>1, <2>2, <2>3, <2>4
  <1>4. ASSUME NEW c \in Clients, AccessExpires(c) \/ Logout(c) PROVE Bounded'
    BY <1>4, BoundedRests DEF AccessExpires, Logout, OnClient
  <1>5. CASE End
    <2>1. /\ UNCHANGED <<issuedTo, request>> /\ session' \in {0, session}
      BY <1>5 DEF End, ResetPassword, UpdatePassword, SetStatus, DeleteEmployee, Commit
    <2>2. CASE Commit
      <3>1. admin # "active"
        BY DEF Kinds
      <3> QED BY <2>1, <2>2, <3>1, BoundedRests DEF Commit
    <2>3. CASE ~ Commit
      <3>1. account' = "active" => account = "active" \/ Room(0)
        BY <1>5, <2>3 DEF End, ResetPassword, UpdatePassword, SetStatus, DeleteEmployee
      <3> QED BY <2>1, <3>1, BoundedRests
    <2> QED BY <2>2, <2>3
  <1> QED BY <1>1, <1>2, <1>3, <1>4, <1>5 DEF Next

\* Rotated and lost are tokens that were issued.
LEMMA KindsStep == ASSUME Inv, Inv', Kinds, [Next]_vars PROVE Kinds'
  <1>0. /\ Issued \in Nat /\ Issued' \in Nat /\ request \in [Requests -> Request]
        /\ \A q \in Requests :
              /\ request[q].token \in 0..Issued /\ request[q].seen \in 0..Issued
              /\ request[q].at = "rotating" => request[q].token # 0
    <2>1. /\ Issued \in Nat /\ Issued' \in Nat /\ request \in [Requests -> Request]
      <3>1. issuedTo' \in Seq(Jars)
        BY DEF Inv, Typed
      <3> QED BY <3>1, IssuedType DEF Inv, Typed, Issued
    <2>2. ASSUME NEW q \in Requests
          PROVE  /\ request[q].token \in 0..Issued /\ request[q].seen \in 0..Issued
                 /\ request[q].at = "rotating" => request[q].token # 0
      <3>1. request[q].token \in Nat /\ request[q].seen \in Nat
            /\ request[q].token <= Issued /\ request[q].seen <= Issued
            /\ (request[q].at = "rotating" => request[q].token # 0)
        BY AboutRequest DEF Numbered, Request, Refreshing
      <3> QED BY <2>1, <3>1
    <2> QED BY <2>1, <2>2
  <1>1. CASE UNCHANGED vars
    BY <1>1 DEF vars, Kinds, Issued
  <1>2. ASSUME NEW q \in Requests, Work(q) PROVE Kinds'
    <2>1. CASE FinishLogin(q) \/ Rotate(q)
      <3>1. Issued' = Issued + 1
        <4>1. issuedTo \in Seq(Jars) /\ request[q].to \in Jars
          BY AboutRequest DEF Inv, Typed, Request
        <4>2. Len(Append(issuedTo, request[q].to)) = Len(issuedTo) + 1
          BY <4>1
        <4> QED BY <2>1, <4>2 DEF FinishLogin, Rotate, Issue, Issued
      <3>2. rotated' \subseteq rotated \cup (1..Issued)
        <4>1. CASE FinishLogin(q)
          BY <4>1 DEF FinishLogin
        <4>2. CASE Rotate(q)
          <5>1. request[q].token \in 1..Issued
            BY <1>0, <4>2 DEF Rotate
          <5> QED BY <4>2, <5>1 DEF Rotate
        <4> QED BY <2>1, <4>1, <4>2
      <3>3. lost' \subseteq lost \cup {Issued + 1} /\ UNCHANGED <<account, admin, access>>
        BY <2>1 DEF FinishLogin, Rotate, Issue
      <3>4. 1..Issued \subseteq 1..Issued' /\ Issued + 1 \in 1..Issued'
        BY <1>0, <3>1
      <3> QED BY <3>2, <3>3, <3>4 DEF Kinds
    <2>2. CASE ~ FinishLogin(q) /\ ~ Rotate(q)
      <3>1. UNCHANGED <<issuedTo, account, admin, access, rotated, lost>>
        BY <1>2, <2>2 DEF Work, ReadFingerprint, RefuseEnded, RevokeOnReuse, RefuseInactive, Pass,
                          Vanish, OnClient, OnServer
      <3> QED BY <3>1 DEF Kinds, Issued
    <2> QED BY <2>1, <2>2
  <1>3. ASSUME NEW c \in Clients, NEW q \in Requests,
               StartLogin(c, q) \/ StartRefresh(c, q) \/ Hear(c, q) \/ GiveUp(c, q)
        PROVE  Kinds'
    <2>1. UNCHANGED <<issuedTo, account, admin, rotated>> /\ access' \subseteq access \cup {c}
      BY <1>3 DEF StartLogin, StartRefresh, Hear, KeepTokens, ForceLogout, GiveUp, OnClient
    <2>2. lost' \subseteq lost \cup ({request[q].token, Answer(q)} \ {0})
      BY <1>3 DEF StartLogin, StartRefresh, Hear, KeepTokens, ForceLogout, GiveUp
    <2>3. {request[q].token, Answer(q)} \ {0} \subseteq 1..Issued
      BY <1>0 DEF Answer
    <2> QED BY <2>1, <2>2, <2>3 DEF Kinds, Issued
  <1>4. ASSUME NEW c \in Clients, AccessExpires(c) \/ Logout(c) PROVE Kinds'
    BY <1>4 DEF AccessExpires, Logout, OnClient, Kinds, Issued
  <1>5. CASE End
    BY <1>5 DEF End, ResetPassword, UpdatePassword, SetStatus, DeleteEmployee, Commit, Kinds, Issued
  <1> QED BY <1>1, <1>2, <1>3, <1>4, <1>5 DEF Next

\* The account, its session, tokens, jars and requests keep their types, and no
\* request is left without room for the token it may need (auth_service.py,
\* api_client.dart).
THEOREM SessionTypeCorrect == Spec => []TypeOK
  <1>1. Init => TypeInv
    <2> SUFFICES ASSUME Init PROVE TypeInv
      OBVIOUS
    <2>1. Musts = {} /\ Mays = {} /\ Busy = {}
      BY DEF Init, Musts, Mays, Busy, Certain, Possible, Free
    <2>2. Issued = 0 /\ MaxTokens \in Nat
      BY AuthAssumption DEF Init, Issued
    <2>3. Bounded
      BY <2>1, <2>2, FS_EmptySet DEF Bounded
    <2> QED BY <2>3, InitInv DEF TypeInv, Kinds, Init
  <1>2. TypeInv /\ [Next]_vars => TypeInv'
    BY NextInv, BoundedStep, KindsStep DEF TypeInv
  <1>3. TypeInv => TypeOK
    <2> SUFFICES ASSUME TypeInv PROVE TypeOK
      OBVIOUS
    <2>1. Issued \in Nat /\ MaxTokens \in Nat
      BY IssuedType, AuthAssumption DEF TypeInv, Inv
    <2>2. Issued <= MaxTokens
      <3>1. Cardinality(Musts) \in Nat
        <4>1. IsFiniteSet(Musts)
          BY MustsAreBusy, FS_Subset DEF TypeInv, Bounded
        <4> QED BY <4>1, FS_CardinalityType
      <3> QED BY <2>1, <3>1 DEF TypeInv, Bounded
    <2>3. request \in [Requests ->
            [at : {"free", "login", "sent", "read", "rotating", "answered", "refused"},
             for : SUBSET Clients, to : Jars, token : 0..Issued, seen : 0..Issued,
             held : BOOLEAN]]
      <3>1. ASSUME NEW q \in Requests
            PROVE  request[q] \in
                      [at : {"free", "login", "sent", "read", "rotating", "answered", "refused"},
                       for : SUBSET Clients, to : Jars, token : 0..Issued, seen : 0..Issued,
                       held : BOOLEAN]
        <4>1. request[q] \in Request /\ request[q].token <= Issued /\ request[q].seen <= Issued
          BY AboutRequest DEF TypeInv, Numbered
        <4>2. request[q].token \in 0..Issued /\ request[q].seen \in 0..Issued
          BY <2>1, <4>1 DEF Request
        <4> QED BY <4>1, <4>2 DEF Request
      <3> QED BY <3>1 DEF TypeInv, Inv, Typed
    <2>4. session \in 0..Issued /\ jar \in [Jars -> 0..Issued] /\ alarms \subseteq 1..Issued
          /\ issuedTo \in Seq(Jars)
      BY <2>1 DEF TypeInv, Inv, Typed
    <2> QED BY <2>2, <2>3, <2>4 DEF TypeOK, TypeInv, Kinds
  <1> QED BY <1>1, <1>2, <1>3, PTL DEF Spec
==================================================================================
