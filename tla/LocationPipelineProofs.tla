------------------------ MODULE LocationPipelineProofs ------------------------
(***************************************************************************)
(* Proofs about LocationPipeline, for any fixes, uploaders, workers and    *)
(* batch size: whatever overlaps, fails, is lost or dies, a fix whose key  *)
(* does not expire is inserted at most once, and what the phone gives up   *)
(* as uploaded is stored, or in doubt.                                     *)
(*                                                                         *)
(* The arguments: a key is owned by at most one request at a time, a       *)
(* request that has not stored what it owns owns nothing that is stored    *)
(* already, and what is stored keeps its key.  A key is of a fix that is   *)
(* stored or of one that a request holds; and what an uploader waits for   *)
(* is stored, held, to be claimed or in doubt.  An uploader waits exactly  *)
(* for what the server does for it (Heard), and of what a request claimed  *)
(* there is a newest fix (Announced), the one it may show live.            *)
(***************************************************************************)
EXTENDS LocationPipeline, WellFoundedInduction, TLAPS

RequestState ==
    [at : {"free", "claiming", "stored", "failed", "done", "error"},
     for : SUBSET Uploaders, todo : SUBSET Fixes, mine : SUBSET Fixes]

\* The part of the type invariant that InsertedOnce rests on.
Typed ==
    /\ uploader \in [Uploaders -> [at : {"idle", "read", "waits"}, batch : SUBSET Fixes]]
    /\ request \in [Requests -> RequestState]
    /\ keys \subseteq Fixes
    /\ log \in [Fixes -> Nat]

\* A request r owns its keys, and stored none of them before its commit.
Owns(r, k, l) ==
    /\ r.mine \subseteq k
    /\ r.at \in {"claiming", "failed"} => \A f \in r.mine \ Expiring : l[f] = 0

\* What is stored is stored once, and keeps its key.
Keyed == \A f \in Fixes \ Expiring : log[f] = 0 \/ (log[f] = 1 /\ f \in keys)

OnceInv ==
    /\ Typed
    /\ \A q \in Requests : Owns(request[q], keys, log)
    /\ \A p, q \in Requests : p # q => request[p].mine \cap request[q].mine = {}
    /\ Keyed

-----------------------------------------------------------------------------
(* Requests                                                                 *)

\* Set changes one request.
LEMMA SetRequest ==
    ASSUME NEW q \in Requests, NEW r \in RequestState,
           request \in [Requests -> RequestState], Set(q, r)
    PROVE  /\ request' \in [Requests -> RequestState]
           /\ request'[q] = r
           /\ \A p \in Requests : p # q => request'[p] = request[p]
  BY DEF Set

LEMMA FreeType == Free \in RequestState /\ Free.mine = {} /\ Free.at = "free"
  BY DEF Free, RequestState

LEMMA RestingType ==
    Resting \in [at : {"idle", "read", "waits"}, batch : SUBSET Fixes]
  BY DEF Resting

\* A step that gives a request r at q a new state, owns nothing new, leaves the
\* log alone and takes no key away keeps the invariant.
LEMMA Harmless ==
    ASSUME OnceInv, NEW q \in Requests, NEW r \in RequestState, Set(q, r),
           r.mine \subseteq request[q].mine,
           r.at \in {"claiming", "failed"} =>
               r.mine = {} \/ request[q].at \in {"claiming", "failed"},
           uploader' \in [Uploaders -> [at : {"idle", "read", "waits"}, batch : SUBSET Fixes]],
           keys \subseteq keys', keys' \subseteq Fixes, UNCHANGED log
    PROVE  OnceInv'
<1>1. /\ request' \in [Requests -> RequestState] /\ request'[q] = r
      /\ \A p \in Requests : p # q => request'[p] = request[p]
  BY SetRequest DEF OnceInv, Typed
<1>2. Typed'
  BY <1>1 DEF OnceInv, Typed
<1>3. \A p \in Requests : Owns(request'[p], keys', log')
  BY <1>1 DEF OnceInv, Owns
<1>4. \A p, s \in Requests : p # s => request'[p].mine \cap request'[s].mine = {}
  BY <1>1 DEF OnceInv
<1>5. Keyed'
  BY DEF OnceInv, Keyed
<1> QED
  BY <1>2, <1>3, <1>4, <1>5 DEF OnceInv

-----------------------------------------------------------------------------
(* The steps                                                                *)

\* Steps that leave the requests, the keys and the log alone.
LEMMA PhoneSteps ==
    ASSUME OnceInv, UNCHANGED <<request, keys, log>>,
           uploader' \in [Uploaders -> [at : {"idle", "read", "waits"}, batch : SUBSET Fixes]]
    PROVE  OnceInv'
<1>1. Typed' /\ Keyed'
  BY DEF OnceInv, Typed, Keyed
<1> QED
  BY <1>1 DEF OnceInv

LEMMA ReadBatchStep == ASSUME OnceInv, NEW u \in Uploaders, ReadBatch(u) PROVE OnceInv'
<1> DEFINE r == [at |-> "read", batch |-> Oldest]
<1>1. r \in [at : {"idle", "read", "waits"}, batch : SUBSET Fixes]
  BY DEF Oldest, Pending
<1> HIDE DEF r
<1>2. uploader' = [uploader EXCEPT ![u] = r]
  BY DEF ReadBatch, r
<1>3. uploader' \in [Uploaders -> [at : {"idle", "read", "waits"}, batch : SUBSET Fixes]]
  BY <1>1, <1>2 DEF OnceInv, Typed
<1> QED
  BY <1>3, PhoneSteps DEF ReadBatch

\* An uploader rests again.
LEMMA Rests ==
    ASSUME OnceInv, NEW u \in Uploaders, uploader' = [uploader EXCEPT ![u] = Resting]
    PROVE  uploader' \in [Uploaders -> [at : {"idle", "read", "waits"}, batch : SUBSET Fixes]]
  BY RestingType DEF OnceInv, Typed

LEMMA SendStep ==
    ASSUME OnceInv, NEW u \in Uploaders, NEW q \in Requests, Send(u, q) PROVE OnceInv'
<1> DEFINE r == [at |-> "claiming", for |-> {u}, todo |-> uploader[u].batch, mine |-> {}]
           w == [uploader[u] EXCEPT !.at = "waits"]
<1>1. uploader[u] \in [at : {"idle", "read", "waits"}, batch : SUBSET Fixes]
  BY DEF OnceInv, Typed
<1>2. r \in RequestState /\ r.mine = {}
  BY <1>1 DEF RequestState
<1>3. w \in [at : {"idle", "read", "waits"}, batch : SUBSET Fixes]
  BY <1>1, Zenon
<1>4. Set(q, r) /\ uploader' = [uploader EXCEPT ![u] = w]
  BY DEF Send
<1> HIDE DEF r, w
<1>5. uploader' \in [Uploaders -> [at : {"idle", "read", "waits"}, batch : SUBSET Fixes]]
  BY <1>3, <1>4 DEF OnceInv, Typed
<1> QED
  BY <1>2, <1>4, <1>5, Harmless DEF Send, OnceInv, Typed

LEMMA MarkSyncedStep ==
    ASSUME OnceInv, NEW u \in Uploaders, NEW q \in Requests, MarkSynced(u, q) PROVE OnceInv'
  BY FreeType, Rests, Harmless DEF MarkSynced, OnceInv, Typed

LEMMA KeepPendingStep ==
    ASSUME OnceInv, NEW u \in Uploaders, NEW q \in Requests, KeepPending(u, q) PROVE OnceInv'
  BY FreeType, Rests, Harmless DEF KeepPending, OnceInv, Typed

LEMMA GiveUpStep ==
    ASSUME OnceInv, NEW u \in Uploaders, NEW q \in Requests, GiveUp(u, q) PROVE OnceInv'
<1> DEFINE r == Unwatched(q)
<1>1. request[q] \in RequestState
  BY DEF OnceInv, Typed
<1>2. r \in RequestState /\ r.mine = request[q].mine /\ r.at = request[q].at
  BY <1>1, ZenonT(60) DEF RequestState, Unwatched
<1>3. Set(q, r)
  BY DEF GiveUp
<1> HIDE DEF r
<1> QED
  BY <1>2, <1>3, Rests, Harmless DEF GiveUp, OnceInv, Typed

\* A request claims a key only if nobody has it, and then the fix is not
\* stored.
LEMMA ClaimStep ==
    ASSUME OnceInv, NEW q \in Requests, NEW f \in Fixes, Claim(q, f) PROVE OnceInv'
<1> DEFINE new == IF f \in keys THEN {} ELSE {f}
           r == [request[q] EXCEPT !.todo = @ \ {f}, !.mine = @ \cup new]
<1>1. request[q] \in RequestState /\ request[q].at = "claiming"
  BY DEF OnceInv, Typed, Claim
<1>2. new \subseteq Fixes /\ new \cap keys = {} /\ new \subseteq {f}
  OBVIOUS
<1> HIDE DEF new
<1>3. /\ r \in RequestState /\ r.at = request[q].at
      /\ r.mine = request[q].mine \cup new
  <2>1. request[q].todo \ {f} \in SUBSET Fixes /\ request[q].mine \cup new \in SUBSET Fixes
    BY <1>1, <1>2 DEF RequestState
  <2> QED
    BY <1>1, <2>1, ZenonT(60) DEF RequestState
<1>4. Set(q, r) /\ keys' = keys \cup new /\ UNCHANGED <<uploader, log>>
  BY DEF Claim, new
<1> HIDE DEF r
<1>5. /\ request' \in [Requests -> RequestState] /\ request'[q] = r
      /\ \A p \in Requests : p # q => request'[p] = request[p]
  BY <1>3, <1>4, SetRequest DEF OnceInv, Typed
<1>6. \A g \in new \ Expiring : log[g] = 0
  BY <1>2 DEF OnceInv, Keyed
<1>7. Typed'
  BY <1>2, <1>4, <1>5 DEF OnceInv, Typed
<1>8. ASSUME NEW p \in Requests PROVE Owns(request'[p], keys', log')
  BY <1>1, <1>3, <1>4, <1>5, <1>6 DEF OnceInv, Owns
<1>9. ASSUME NEW p \in Requests, NEW s \in Requests, p # s
      PROVE  request'[p].mine \cap request'[s].mine = {}
  <2>1. \A x \in Requests : request[x].mine \cap new = {}
    BY <1>2 DEF OnceInv, Owns
  <2> QED
    BY <1>3, <1>5, <1>9, <2>1 DEF OnceInv
<1>10. Keyed'
  BY <1>4 DEF OnceInv, Keyed
<1> QED
  BY <1>7, <1>8, <1>9, <1>10 DEF OnceInv

\* What is stored was owned by this request and by no other.
LEMMA StoreStep == ASSUME OnceInv, NEW q \in Requests, Store(q) PROVE OnceInv'
<1> DEFINE to == IF request[q].mine = {} THEN "done" ELSE "stored"
           r == [request[q] EXCEPT !.at = to]
           mine == request[q].mine
<1>1. request[q] \in RequestState /\ request[q].at = "claiming"
  BY DEF OnceInv, Typed, Store, Claimed
<1>2. to \in {"done", "stored"}
  OBVIOUS
<1>3. Set(q, r) /\ UNCHANGED <<uploader, keys>>
  BY DEF Store
<1> HIDE DEF to
<1>4. r \in RequestState /\ r.at = to /\ r.mine = mine
  BY <1>1, <1>2, ZenonT(60) DEF RequestState
<1> HIDE DEF r
<1>5. /\ request' \in [Requests -> RequestState] /\ request'[q] = r
      /\ \A p \in Requests : p # q => request'[p] = request[p]
  BY <1>3, <1>4, SetRequest DEF OnceInv, Typed
<1>6. log' = [f \in Fixes |-> IF f \in mine THEN log[f] + 1 ELSE log[f]]
  BY DEF Store
<1>7. mine \subseteq keys /\ \A f \in mine \ Expiring : log[f] = 0
  BY <1>1 DEF OnceInv, Owns
<1>8. Typed'
  BY <1>3, <1>5, <1>6 DEF OnceInv, Typed
<1>9. ASSUME NEW p \in Requests PROVE Owns(request'[p], keys', log')
  <2>1. CASE p = q
    BY <1>2, <1>3, <1>4, <1>5, <1>7, <2>1 DEF Owns
  <2>2. CASE p # q
    <3>1. request[p].mine \cap mine = {} /\ request[p].mine \subseteq Fixes
      BY <2>2 DEF OnceInv, Typed, RequestState
    <3>2. \A f \in request[p].mine : log'[f] = log[f]
      BY <1>6, <3>1
    <3> QED
      BY <1>3, <1>5, <2>2, <3>2 DEF OnceInv, Owns
  <2> QED
    BY <2>1, <2>2
<1>10. \A p, s \in Requests : p # s => request'[p].mine \cap request'[s].mine = {}
  BY <1>4, <1>5 DEF OnceInv
<1>11. Keyed'
  BY <1>3, <1>6, <1>7 DEF OnceInv, Keyed
<1> QED
  BY <1>8, <1>9, <1>10, <1>11 DEF OnceInv

LEMMA StoreFailsStep == ASSUME OnceInv, NEW q \in Requests, StoreFails(q) PROVE OnceInv'
<1> DEFINE r == [request[q] EXCEPT !.at = "failed"]
<1>1. request[q] \in RequestState /\ request[q].at = "claiming"
  BY DEF OnceInv, Typed, StoreFails, Claimed
<1>2. r \in RequestState /\ r.mine = request[q].mine /\ r.at = "failed"
  BY <1>1, ZenonT(60) DEF RequestState
<1>3. Set(q, r)
  BY DEF StoreFails
<1> HIDE DEF r
<1> QED
  BY <1>1, <1>2, <1>3, Harmless DEF StoreFails, OnceInv, Typed

\* Only keys of fixes that are not stored are released.
LEMMA ReleaseStep == ASSUME OnceInv, NEW q \in Requests, Release(q) PROVE OnceInv'
<1> DEFINE r == [request[q] EXCEPT !.at = "error", !.mine = {}]
           mine == request[q].mine
<1>1. request[q] \in RequestState /\ request[q].at = "failed"
  BY DEF OnceInv, Typed, Release
<1>2. r \in RequestState /\ r.mine = {} /\ r.at = "error"
  BY <1>1, ZenonT(60) DEF RequestState
<1>3. Set(q, r) /\ keys' = keys \ mine /\ UNCHANGED <<uploader, log>>
  BY DEF Release
<1> HIDE DEF r
<1>4. /\ request' \in [Requests -> RequestState] /\ request'[q] = r
      /\ \A p \in Requests : p # q => request'[p] = request[p]
  BY <1>2, <1>3, SetRequest DEF OnceInv, Typed
<1>5. \A f \in mine \ Expiring : log[f] = 0
  BY <1>1 DEF OnceInv, Owns
<1>6. Typed'
  BY <1>3, <1>4 DEF OnceInv, Typed
<1>7. ASSUME NEW p \in Requests PROVE Owns(request'[p], keys', log')
  <2>1. CASE p = q
    BY <1>2, <1>4, <2>1 DEF Owns
  <2>2. CASE p # q
    BY <1>3, <1>4, <2>2 DEF OnceInv, Owns
  <2> QED
    BY <2>1, <2>2
<1>8. \A p, s \in Requests : p # s => request'[p].mine \cap request'[s].mine = {}
  BY <1>2, <1>4 DEF OnceInv
<1>9. Keyed'
  BY <1>3, <1>5 DEF OnceInv, Keyed
<1> QED
  BY <1>6, <1>7, <1>8, <1>9 DEF OnceInv

LEMMA WriteLiveStep == ASSUME OnceInv, NEW q \in Requests, WriteLive(q) PROVE OnceInv'
<1> DEFINE r == [request[q] EXCEPT !.at = "done", !.mine = {}]
<1>1. request[q] \in RequestState
  BY DEF OnceInv, Typed
<1>2. r \in RequestState /\ r.mine = {} /\ r.at = "done"
  BY <1>1, ZenonT(60) DEF RequestState
<1>3. Set(q, r)
  BY DEF WriteLive
<1> HIDE DEF r
<1> QED
  BY <1>2, <1>3, Harmless DEF WriteLive, OnceInv, Typed

LEMMA VanishStep == ASSUME OnceInv, NEW q \in Requests, Vanish(q) PROVE OnceInv'
  BY FreeType, Harmless DEF Vanish, OnceInv, Typed

LEMMA WorkerDiesStep == ASSUME OnceInv, NEW q \in Requests, WorkerDies(q) PROVE OnceInv'
<1>1. uploader' \in [Uploaders -> [at : {"idle", "read", "waits"}, batch : SUBSET Fixes]]
  BY RestingType DEF WorkerDies, OnceInv, Typed
<1> QED
  BY <1>1, FreeType, Harmless DEF WorkerDies, OnceInv, Typed

\* A request that breaks off owns nothing any more; its keys stay, and those of
\* no other request are touched.
LEMMA BreaksStep == ASSUME OnceInv, NEW q \in Requests, Breaks(q) PROVE OnceInv'
<1> DEFINE r == [request[q] EXCEPT !.at = "error", !.todo = {}, !.mine = {}]
<1>1. request[q] \in RequestState
  BY DEF OnceInv, Typed
<1>2. r \in RequestState /\ r.mine = {} /\ r.at = "error"
  BY <1>1, ZenonT(60) DEF RequestState
<1>3. Set(q, r) /\ UNCHANGED <<uploader, log>>
  BY DEF Breaks
<1> HIDE DEF r
<1>4. keys \subseteq keys' /\ keys' \subseteq Fixes
  BY <1>1 DEF Breaks, OnceInv, Typed, RequestState
<1> QED
  BY <1>2, <1>3, <1>4, Harmless DEF OnceInv, Typed

LEMMA ExpireStep == ASSUME OnceInv, NEW f \in Fixes, Expire(f) PROVE OnceInv'
<1>1. Typed' /\ Keyed'
  BY DEF Expire, OnceInv, Typed, Keyed
<1>2. \A q \in Requests : Owns(request'[q], keys', log')
  BY DEF Expire, OnceInv, Owns
<1> QED
  BY <1>1, <1>2 DEF Expire, OnceInv

-----------------------------------------------------------------------------
(* The theorem                                                              *)

LEMMA OnceStart == Init => OnceInv
<1> SUFFICES ASSUME Init PROVE OnceInv
  OBVIOUS
<1>1. \A q \in Requests : request[q] = Free
  BY DEF Init
<1>2. Typed
  BY FreeType, RestingType DEF Init, Typed
<1>3. \A q \in Requests : Owns(request[q], keys, log)
  BY <1>1, FreeType DEF Owns
<1> QED
  BY <1>1, <1>2, <1>3, FreeType DEF Init, OnceInv, Keyed

LEMMA OnceKept == OnceInv /\ [Next]_vars => OnceInv'
<1> SUFFICES ASSUME OnceInv, [Next]_vars PROVE OnceInv'
  OBVIOUS
<1>1. CASE \E f \in Fixes : Record(f) \/ Expire(f)
  <2>1. ASSUME NEW f \in Fixes, Record(f) PROVE OnceInv'
    BY <2>1, PhoneSteps DEF Record, OnceInv, Typed
  <2> QED
    BY <1>1, <2>1, ExpireStep
<1>2. CASE \E u \in Uploaders :
             ReadBatch(u) \/ Upload(u) \/ \E q \in Requests : GiveUp(u, q)
  BY <1>2, ReadBatchStep, SendStep, MarkSyncedStep, KeepPendingStep, GiveUpStep DEF Upload
<1>3. CASE \E q \in Requests : Work(q) \/ StoreFails(q) \/ Breaks(q) \/ WorkerDies(q)
  BY <1>3, ClaimStep, StoreStep, ReleaseStep, WriteLiveStep, VanishStep,
     StoreFailsStep, BreaksStep, WorkerDiesStep DEF Work
<1>4. CASE UNCHANGED vars
  BY <1>4, PhoneSteps DEF vars, OnceInv, Typed
<1> QED
  BY <1>1, <1>2, <1>3, <1>4 DEF Next

\* location_service.py: "the same fix must not insert twice" - for any number
\* of uploaders, workers, failures and crashes, as long as its key lives.
THEOREM FixesAreInsertedOnce == Spec => []InsertedOnce
<1>1. OnceInv => InsertedOnce
  BY DEF OnceInv, Typed, Keyed, InsertedOnce
<1> QED
  BY <1>1, OnceStart, OnceKept, PTL DEF Spec

-----------------------------------------------------------------------------
(* What is synced is stored                                                 *)

IsStored(f) == log[f] > 0

\* A key that is not in doubt is of a fix that is stored or held.
HeldOrStored ==
    \A f \in keys \ doubted : IsStored(f) \/ \E q \in Requests : f \in request[q].mine

\* What request r has left to do of a batch.
Pledged(r, f) == r.at = "claiming" /\ f \in r.todo \cup r.mine
Committing(r) == r.at \in {"claiming", "stored", "done"}

\* What an uploader waits for is stored, or its request is at it.
Awaited ==
    \A q \in Requests, u \in Uploaders : (Serves(q, u) /\ Committing(request[q])) =>
        \A f \in uploader[u].batch \ doubted : IsStored(f) \/ Pledged(request[q], f)

\* An uploader with a request waits for it, and for no other.
OneRequestEach ==
    \A q \in Requests, u \in Uploaders : Serves(q, u) =>
        uploader[u].at = "waits" /\ \A p \in Requests : Serves(p, u) => p = q

\* When request r holds what it claimed, before it is inserted or just after, and
\* when somebody may wait for it.
Holds(r, l) ==
    /\ r.at = "stored" => \A f \in r.mine : l[f] > 0
    /\ r.at \in {"free", "done", "error"} => r.mine = {}
    /\ r.at = "free" => r.for = {}

StoredInv ==
    /\ OnceInv /\ doubted \subseteq Fixes
    /\ phone \in [Fixes -> {"none", "pending", "synced"}]
    /\ HeldOrStored /\ Awaited /\ OneRequestEach /\ SyncedIsStored
    /\ \A q \in Requests : Holds(request[q], log)

\* A step that gives request q the state r, and loses nothing.
LEMMA Lossless ==
    ASSUME StoredInv, OnceInv', NEW q \in Requests, NEW r \in RequestState, Set(q, r),
           \A f \in Fixes : IsStored(f) => IsStored(f)',
           doubted \subseteq doubted', doubted' \subseteq Fixes,
           \A f \in keys' \ doubted' : f \in keys \cup r.mine,
           \A f \in request[q].mine \ doubted' : f \notin keys' \/ f \in r.mine \/ IsStored(f)',
           Holds(r, log'),
           \A u \in Uploaders : (r.for = {u} /\ Committing(r)) =>
               \A f \in uploader'[u].batch \ doubted' : IsStored(f)' \/ Pledged(r, f),
           \A p \in Requests \ {q}, u \in Uploaders : Serves(p, u) =>
               uploader'[u] = uploader[u] /\ r.for # {u},
           \A u \in Uploaders : r.for = {u} => uploader'[u].at = "waits",
           phone' \in [Fixes -> {"none", "pending", "synced"}],
           \A f \in Fixes \ doubted' : phone'[f] = "synced" => phone[f] = "synced" \/ IsStored(f)'
    PROVE  StoredInv'
<1>1. /\ request' \in [Requests -> RequestState] /\ request'[q] = r
      /\ \A p \in Requests : p # q => request'[p] = request[p]
  BY SetRequest DEF StoredInv, OnceInv, Typed
<1>2. keys \subseteq Fixes /\ keys' \subseteq Fixes /\ r.mine \subseteq Fixes
  BY DEF StoredInv, OnceInv, Typed, RequestState
<1>3. HeldOrStored'
  <2> SUFFICES ASSUME NEW f \in keys' \ doubted'
               PROVE  IsStored(f)' \/ \E p \in Requests : f \in request'[p].mine
    BY DEF HeldOrStored
  <2>1. CASE f \in r.mine
    BY <1>1, <2>1
  <2>2. CASE f \in keys
    <3>1. IsStored(f) \/ \E p \in Requests : f \in request[p].mine
      BY <2>2 DEF StoredInv, HeldOrStored
    <3> QED BY <1>1, <1>2, <3>1
  <2> QED BY <2>1, <2>2
<1>4. Awaited'
  <2> SUFFICES ASSUME NEW p \in Requests, NEW u \in Uploaders, request'[p].for = {u},
                      Committing(request'[p]), NEW f \in uploader'[u].batch \ doubted'
               PROVE  IsStored(f)' \/ Pledged(request'[p], f)
    BY DEF Awaited, Serves, Committing, Pledged
  <2>1. CASE p = q
    BY <1>1, <2>1
  <2>2. CASE p # q
    <3>1. request'[p] = request[p] /\ Serves(p, u) /\ uploader'[u] = uploader[u]
      BY <1>1, <2>2 DEF Serves
    <3>2. uploader[u].batch \subseteq Fixes
      BY DEF StoredInv, OnceInv, Typed
    <3> QED BY <3>1, <3>2 DEF StoredInv, Awaited
  <2> QED BY <2>1, <2>2
<1>5. OneRequestEach'
  <2> SUFFICES ASSUME NEW p \in Requests, NEW u \in Uploaders, request'[p].for = {u}
               PROVE  /\ uploader'[u].at = "waits"
                      /\ \A s \in Requests : request'[s].for = {u} => s = p
    BY DEF OneRequestEach, Serves
  <2> QED BY <1>1 DEF StoredInv, OneRequestEach, Serves
<1>6. SyncedIsStored'
  BY DEF StoredInv, SyncedIsStored, IsStored
<1>7. \A p \in Requests : Holds(request'[p], log')
  <2>1. \A p \in Requests : request[p].mine \subseteq Fixes
    BY DEF StoredInv, OnceInv, Typed, RequestState
  <2> QED BY <1>1, <2>1 DEF StoredInv, Holds, IsStored
<1> QED
  BY <1>3, <1>4, <1>5, <1>6, <1>7 DEF StoredInv

\* One of the server, that leaves phone and uploaders alone.
LEMMA ServerStep ==
    ASSUME StoredInv, OnceInv', NEW q \in Requests, NEW r \in RequestState, Set(q, r),
           r.for = request[q].for, UNCHANGED <<phone, uploader>>,
           \A f \in Fixes : IsStored(f) => IsStored(f)',
           doubted \subseteq doubted', doubted' \subseteq Fixes,
           \A f \in keys' \ doubted' : f \in keys \cup r.mine,
           \A f \in request[q].mine \ doubted' : f \notin keys' \/ f \in r.mine \/ IsStored(f)',
           Holds(r, log'),
           Committing(r) => Committing(request[q]),
           Committing(r) => \A f \in Fixes \ doubted' :
               Pledged(request[q], f) => Pledged(r, f) \/ IsStored(f)'
    PROVE  StoredInv'
<1>1. \A p \in Requests \ {q}, u \in Uploaders : Serves(p, u) => r.for # {u}
  BY DEF StoredInv, OneRequestEach, Serves
<1>2. \A u \in Uploaders : r.for = {u} => uploader'[u].at = "waits"
  BY DEF StoredInv, OneRequestEach, Serves
<1>3. ASSUME NEW u \in Uploaders, r.for = {u}, Committing(r), NEW f \in uploader'[u].batch \ doubted'
      PROVE  IsStored(f)' \/ Pledged(r, f)
  <2>1. f \in Fixes
    BY <1>3 DEF StoredInv, OnceInv, Typed
  <2>2. IsStored(f) \/ Pledged(request[q], f)
    BY <1>3 DEF StoredInv, Awaited, Serves
  <2> QED BY <1>3, <2>1, <2>2
<1>4. phone' \in [Fixes -> {"none", "pending", "synced"}]
  BY DEF StoredInv
<1> QED BY <1>1, <1>2, <1>3, <1>4, Lossless DEF StoredInv

\* One of the phone, with no request.
LEMMA PhoneStep ==
    ASSUME StoredInv, OnceInv', UNCHANGED <<request, log, doubted>>, keys' \subseteq keys,
           \A u \in Uploaders : uploader[u].at = "waits" => uploader'[u] = uploader[u],
           phone' \in [Fixes -> {"none", "pending", "synced"}],
           \A f \in Fixes : phone'[f] = "synced" => phone[f] = "synced"
    PROVE  StoredInv'
<1>1. HeldOrStored' /\ SyncedIsStored'
  BY DEF StoredInv, HeldOrStored, SyncedIsStored, IsStored
<1>2. \A q \in Requests, u \in Uploaders : Serves(q, u) => uploader'[u] = uploader[u]
  BY DEF StoredInv, OneRequestEach
<1>3. OneRequestEach'
  BY <1>2 DEF StoredInv, OneRequestEach, Serves
<1>4. Awaited'
  BY <1>2 DEF StoredInv, Awaited, Serves, IsStored, Pledged, Committing
<1> QED BY <1>1, <1>3, <1>4 DEF StoredInv, IsStored

\* An uploader is done with request q.
LEMMA Leaves ==
    ASSUME StoredInv, OnceInv', NEW q \in Requests, NEW r \in RequestState, Set(q, r),
           NEW u \in Uploaders, Serves(q, u), r.for = {},
           uploader' = [uploader EXCEPT ![u] = Resting],
           UNCHANGED <<keys, log, doubted>>,
           r.mine = request[q].mine, r.at \in {request[q].at, "free"},
           r.at = "free" => request[q].at \in {"done", "error"},
           phone' \in [Fixes -> {"none", "pending", "synced"}],
           \A f \in Fixes \ doubted : phone'[f] = "synced" => phone[f] = "synced" \/ IsStored(f)
    PROVE  StoredInv'
<1>1. \A p \in Requests \ {q}, v \in Uploaders : Serves(p, v) =>
         uploader'[v] = uploader[v] /\ r.for # {v}
  BY DEF StoredInv, OneRequestEach, OnceInv, Typed
<1>2. \A v \in Uploaders : r.for # {v}
  OBVIOUS
<1>3. Holds(r, log')
  BY DEF StoredInv, Holds
<1>4. \A f \in Fixes : IsStored(f) => IsStored(f)'
  BY DEF IsStored
<1> QED BY <1>1, <1>2, <1>3, <1>4, Lossless DEF StoredInv, IsStored

-----------------------------------------------------------------------------
(* The steps, again                                                         *)

LEMMA StoredReadBatch ==
    ASSUME StoredInv, NEW u \in Uploaders, ReadBatch(u) PROVE StoredInv'
<1>1. OnceInv'
  BY ReadBatchStep DEF StoredInv
<1>2. \A v \in Uploaders : uploader[v].at = "waits" => uploader'[v] = uploader[v]
  BY DEF ReadBatch, StoredInv, OnceInv, Typed
<1> QED BY <1>1, <1>2, PhoneStep DEF ReadBatch, StoredInv

LEMMA StoredSend ==
    ASSUME StoredInv, NEW u \in Uploaders, NEW q \in Requests, Send(u, q) PROVE StoredInv'
<1> DEFINE r == [at |-> "claiming", for |-> {u}, todo |-> uploader[u].batch, mine |-> {}]
<1>1. OnceInv'
  BY SendStep DEF StoredInv
<1>2. uploader[u] \in [at : {"idle", "read", "waits"}, batch : SUBSET Fixes]
  BY DEF StoredInv, OnceInv, Typed
<1>3. r \in RequestState /\ r.mine = {} /\ r.at = "claiming" /\ r.for = {u} /\ r.todo = uploader[u].batch
  BY <1>2 DEF RequestState
<1>4. Set(q, r) /\ uploader' = [uploader EXCEPT ![u].at = "waits"]
      /\ uploader[u].at = "read" /\ request[q].at = "free"
      /\ UNCHANGED <<phone, keys, log, doubted>>
  BY DEF Send
<1> HIDE DEF r
<1>5. uploader'[u].at = "waits" /\ uploader'[u].batch = uploader[u].batch
      /\ \A v \in Uploaders : v # u => uploader'[v] = uploader[v]
  BY <1>2, <1>4 DEF StoredInv, OnceInv, Typed
<1>6. \A p \in Requests \ {q}, v \in Uploaders : Serves(p, v) =>
         uploader'[v] = uploader[v] /\ r.for # {v}
  BY <1>3, <1>4, <1>5 DEF StoredInv, OneRequestEach
<1>7. request[q].mine = {} /\ Holds(r, log')
  BY <1>3, <1>4 DEF StoredInv, Holds
<1>8. \A v \in Uploaders : r.for = {v} => v = u
  BY <1>3
<1>9. \A f \in uploader'[u].batch : Pledged(r, f)
  BY <1>3, <1>5 DEF Pledged
<1> QED BY <1>1, <1>3, <1>4, <1>5, <1>6, <1>7, <1>8, <1>9, Lossless DEF StoredInv, IsStored

LEMMA StoredMarkSynced ==
    ASSUME StoredInv, NEW u \in Uploaders, NEW q \in Requests, MarkSynced(u, q) PROVE StoredInv'
<1>1. OnceInv'
  BY MarkSyncedStep DEF StoredInv
<1>2. \A f \in uploader[u].batch \ doubted : IsStored(f)
  BY DEF MarkSynced, StoredInv, Awaited, Committing, Pledged
<1>3. /\ phone' \in [Fixes -> {"none", "pending", "synced"}]
      /\ \A f \in Fixes \ doubted : phone'[f] = "synced" => phone[f] = "synced" \/ IsStored(f)
  BY <1>2 DEF MarkSynced, StoredInv
<1>4. request[q].mine = {}
  BY DEF MarkSynced, StoredInv, Holds
<1>5. Free.for = {}
  BY DEF Free
<1> QED BY <1>1, <1>3, <1>4, <1>5, FreeType, Leaves DEF MarkSynced

LEMMA StoredKeepPending ==
    ASSUME StoredInv, NEW u \in Uploaders, NEW q \in Requests, KeepPending(u, q) PROVE StoredInv'
<1>1. OnceInv'
  BY KeepPendingStep DEF StoredInv
<1>2. request[q].mine = {}
  BY DEF KeepPending, StoredInv, Holds
<1>3. Free.for = {}
  BY DEF Free
<1> QED BY <1>1, <1>2, <1>3, FreeType, Leaves DEF KeepPending, StoredInv

LEMMA StoredGiveUp ==
    ASSUME StoredInv, NEW u \in Uploaders, NEW q \in Requests, GiveUp(u, q) PROVE StoredInv'
<1> DEFINE r == Unwatched(q)
<1>1. OnceInv'
  BY GiveUpStep DEF StoredInv
<1>2. request[q] \in RequestState
  BY DEF StoredInv, OnceInv, Typed
<1>3. r \in RequestState /\ r.mine = request[q].mine /\ r.at = request[q].at /\ r.for = {}
  BY <1>2, ZenonT(60) DEF RequestState, Unwatched
<1>4. Set(q, r)
  BY DEF GiveUp
<1>5. r.at # "free"
  BY <1>3 DEF GiveUp, StoredInv, Holds, Serves
<1> HIDE DEF r
<1> QED BY <1>1, <1>3, <1>4, <1>5, Leaves DEF GiveUp, StoredInv

LEMMA StoredClaim ==
    ASSUME StoredInv, NEW q \in Requests, NEW f \in Fixes, Claim(q, f) PROVE StoredInv'
<1> DEFINE new == IF f \in keys THEN {} ELSE {f}
           r == [request[q] EXCEPT !.todo = @ \ {f}, !.mine = @ \cup new]
<1>1. OnceInv'
  BY ClaimStep DEF StoredInv
<1>2. request[q] \in RequestState /\ request[q].at = "claiming"
  BY DEF StoredInv, OnceInv, Typed, Claim
<1>3. Set(q, r) /\ keys' = keys \cup new /\ UNCHANGED <<phone, uploader, log>>
      /\ doubted' = doubted \cup {g \in {f} : \E p \in Requests : g \in request[p].mine}
  BY DEF Claim, new
<1>4. new \subseteq Fixes /\ new \subseteq {f} /\ (f \notin keys => new = {f})
  OBVIOUS
<1> HIDE DEF new
<1>5. /\ r \in RequestState /\ r.at = "claiming" /\ r.for = request[q].for
      /\ r.mine = request[q].mine \cup new /\ r.todo = request[q].todo \ {f}
  <2>1. request[q].todo \ {f} \in SUBSET Fixes /\ request[q].mine \cup new \in SUBSET Fixes
    BY <1>2, <1>4 DEF RequestState
  <2> QED
    BY <1>2, <2>1, ZenonT(60) DEF RequestState
<1> HIDE DEF r
<1>6. doubted \subseteq doubted' /\ doubted' \subseteq Fixes
  BY <1>3 DEF StoredInv
\* One that has a key already is stored, or somebody holds it.
<1>7. f \in r.mine \/ f \in doubted' \/ IsStored(f)
  <2>1. CASE f \in keys
    BY <1>3, <2>1 DEF StoredInv, HeldOrStored
  <2>2. CASE f \notin keys
    BY <1>4, <1>5, <2>2
  <2> QED BY <2>1, <2>2
<1>8. \A g \in Fixes \ doubted' : Pledged(request[q], g) => Pledged(r, g) \/ IsStored(g)
  BY <1>5, <1>7 DEF Pledged
<1>9. Holds(r, log') /\ Committing(request[q])
  BY <1>2, <1>5 DEF Holds, Committing
<1>10. \A g \in Fixes : IsStored(g)' <=> IsStored(g)
  BY <1>3 DEF IsStored
<1>11. \A g \in keys' : g \in keys \cup r.mine
  BY <1>3, <1>5
<1>12. \A g \in request[q].mine : g \in r.mine
  BY <1>5
<1> QED BY <1>1, <1>3, <1>5, <1>6, <1>8, <1>9, <1>10, <1>11, <1>12, ServerStep

LEMMA StoredStore == ASSUME StoredInv, NEW q \in Requests, Store(q) PROVE StoredInv'
<1> DEFINE to == IF request[q].mine = {} THEN "done" ELSE "stored"
           r == [request[q] EXCEPT !.at = to]
<1>1. OnceInv'
  BY StoreStep DEF StoredInv
<1>2. request[q] \in RequestState /\ request[q].at = "claiming" /\ request[q].todo = {}
  BY DEF StoredInv, OnceInv, Typed, Store, Claimed
<1>3. to \in {"done", "stored"} /\ (to = "done" => request[q].mine = {})
  OBVIOUS
<1>4. Set(q, r) /\ UNCHANGED <<phone, uploader, keys, doubted>>
  BY DEF Store
<1> HIDE DEF to
<1>5. r \in RequestState /\ r.at = to /\ r.mine = request[q].mine /\ r.for = request[q].for
  BY <1>2, <1>3, ZenonT(60) DEF RequestState
<1> HIDE DEF r
<1>6. log' = [f \in Fixes |-> IF f \in request[q].mine THEN log[f] + 1 ELSE log[f]]
  BY DEF Store
<1>7. \A f \in Fixes : (f \in request[q].mine \/ IsStored(f)) => IsStored(f)'
  BY <1>6 DEF StoredInv, OnceInv, Typed, IsStored
<1>8. Holds(r, log')
  BY <1>2, <1>3, <1>5, <1>7 DEF Holds, IsStored, RequestState
<1>9. \A f \in Fixes : Pledged(request[q], f) => IsStored(f)'
  BY <1>2, <1>7 DEF Pledged
<1>10. Committing(request[q])
  BY <1>2 DEF Committing
<1> QED BY <1>1, <1>4, <1>5, <1>7, <1>8, <1>9, <1>10, ServerStep DEF StoredInv

LEMMA StoredStoreFails == ASSUME StoredInv, NEW q \in Requests, StoreFails(q) PROVE StoredInv'
<1> DEFINE r == [request[q] EXCEPT !.at = "failed"]
<1>1. OnceInv'
  BY StoreFailsStep DEF StoredInv
<1>2. request[q] \in RequestState
  BY DEF StoredInv, OnceInv, Typed
<1>3. r \in RequestState /\ r.mine = request[q].mine /\ r.at = "failed" /\ r.for = request[q].for
  BY <1>2, ZenonT(60) DEF RequestState
<1>4. Set(q, r) /\ UNCHANGED <<phone, uploader, keys, log, doubted>>
  BY DEF StoreFails
<1> HIDE DEF r
<1>5. Holds(r, log') /\ ~Committing(r)
  BY <1>3 DEF Holds, Committing
<1> QED BY <1>1, <1>3, <1>4, <1>5, ServerStep DEF StoredInv, IsStored

LEMMA StoredRelease == ASSUME StoredInv, NEW q \in Requests, Release(q) PROVE StoredInv'
<1> DEFINE r == [request[q] EXCEPT !.at = "error", !.mine = {}]
<1>1. OnceInv'
  BY ReleaseStep DEF StoredInv
<1>2. request[q] \in RequestState
  BY DEF StoredInv, OnceInv, Typed
<1>3. r \in RequestState /\ r.mine = {} /\ r.at = "error" /\ r.for = request[q].for
  BY <1>2, ZenonT(60) DEF RequestState
<1>4. Set(q, r) /\ keys' = keys \ request[q].mine /\ UNCHANGED <<phone, uploader, log, doubted>>
  BY DEF Release
<1> HIDE DEF r
<1>5. Holds(r, log') /\ ~Committing(r)
  BY <1>3 DEF Holds, Committing
<1> QED BY <1>1, <1>3, <1>4, <1>5, ServerStep DEF StoredInv, IsStored

LEMMA StoredWriteLive == ASSUME StoredInv, NEW q \in Requests, WriteLive(q) PROVE StoredInv'
<1> DEFINE r == [request[q] EXCEPT !.at = "done", !.mine = {}]
<1>1. OnceInv'
  BY WriteLiveStep DEF StoredInv
<1>2. request[q] \in RequestState /\ request[q].at = "stored"
  BY DEF StoredInv, OnceInv, Typed, WriteLive
<1>3. r \in RequestState /\ r.mine = {} /\ r.at = "done" /\ r.for = request[q].for
  BY <1>2, ZenonT(60) DEF RequestState
<1>4. Set(q, r) /\ UNCHANGED <<phone, uploader, keys, log, doubted>>
  BY DEF WriteLive
<1> HIDE DEF r
<1>5. \A f \in request[q].mine : IsStored(f)'
  BY <1>2, <1>4 DEF StoredInv, Holds, IsStored
<1>6. Holds(r, log') /\ Committing(request[q]) /\ \A f \in Fixes : ~Pledged(request[q], f)
  BY <1>2, <1>3 DEF Holds, Committing, Pledged
<1> QED BY <1>1, <1>3, <1>4, <1>5, <1>6, ServerStep DEF StoredInv, IsStored

LEMMA StoredVanish == ASSUME StoredInv, NEW q \in Requests, Vanish(q) PROVE StoredInv'
<1>1. OnceInv'
  BY VanishStep DEF StoredInv
<1>2. request[q].mine = {} /\ request[q].for = {}
  BY DEF Vanish, StoredInv, Holds
<1>3. Free.for = {} /\ Holds(Free, log') /\ ~Committing(Free)
  BY DEF Free, Holds, Committing
<1> QED BY <1>1, <1>2, <1>3, FreeType, ServerStep DEF Vanish, StoredInv, IsStored

\* What a request leaves behind when it ends early is stored, or it is an orphan.
LEMMA LeftOver ==
    ASSUME StoredInv, NEW q \in Requests
    PROVE  \A f \in request[q].mine \ Orphans(q) : log[f] > 0
  BY DEF StoredInv, OnceInv, Typed, RequestState, Holds, Orphans

LEMMA StoredWorkerDies == ASSUME StoredInv, NEW q \in Requests, WorkerDies(q) PROVE StoredInv'
<1>1. OnceInv'
  BY WorkerDiesStep DEF StoredInv
<1>2. Free.for = {} /\ Holds(Free, log') /\ ~Committing(Free)
  BY DEF Free, Holds, Committing
<1>3. request[q].mine \subseteq Fixes
  BY DEF StoredInv, OnceInv, Typed, RequestState
<1>4. \A p \in Requests \ {q}, u \in Uploaders : Serves(p, u) =>
         uploader'[u] = uploader[u] /\ Free.for # {u}
  BY <1>2 DEF WorkerDies, StoredInv, OneRequestEach
<1>5. \A u \in Uploaders : Free.for # {u}
  BY <1>2
<1>6. doubted \subseteq doubted' /\ doubted' \subseteq Fixes
  BY <1>3 DEF WorkerDies, Orphans, StoredInv
<1>7. \A f \in request[q].mine \ doubted' : IsStored(f)'
  BY LeftOver DEF WorkerDies, IsStored
<1> QED BY <1>1, <1>2, <1>4, <1>5, <1>6, <1>7, FreeType, Lossless DEF WorkerDies, StoredInv, IsStored

LEMMA StoredBreaks == ASSUME StoredInv, NEW q \in Requests, Breaks(q) PROVE StoredInv'
<1> DEFINE r == [request[q] EXCEPT !.at = "error", !.todo = {}, !.mine = {}]
<1>1. OnceInv'
  BY BreaksStep DEF StoredInv
<1>2. request[q] \in RequestState
  BY DEF StoredInv, OnceInv, Typed
<1>3. r \in RequestState /\ r.mine = {} /\ r.at = "error" /\ r.for = request[q].for
  BY <1>2, ZenonT(60) DEF RequestState
<1>4. Set(q, r) /\ UNCHANGED <<phone, uploader, log>>
  BY DEF Breaks
<1>5. PICK late \in {{}} \cup {{f} : f \in request[q].todo \ keys} :
         keys' = keys \cup late /\ doubted' = doubted \cup Orphans(q) \cup late
  BY DEF Breaks
<1> HIDE DEF r
<1>6. late \subseteq Fixes /\ Orphans(q) \subseteq Fixes
  BY <1>2 DEF Orphans, RequestState
<1>7. doubted \subseteq doubted' /\ doubted' \subseteq Fixes /\ \A f \in keys' \ doubted' : f \in keys
  BY <1>5, <1>6 DEF StoredInv
<1>8. \A f \in request[q].mine \ doubted' : IsStored(f)'
  BY <1>4, <1>5, LeftOver DEF IsStored
<1>9. Holds(r, log') /\ ~Committing(r)
  BY <1>3 DEF Holds, Committing
<1>10. \A f \in Fixes : IsStored(f) => IsStored(f)'
  BY <1>4 DEF IsStored
<1> QED BY <1>1, <1>3, <1>4, <1>7, <1>8, <1>9, <1>10, ServerStep

LEMMA StoredKept == StoredInv /\ [Next]_vars => StoredInv'
<1> SUFFICES ASSUME StoredInv, [Next]_vars PROVE StoredInv'
  OBVIOUS
<1>1. OnceInv'
  BY OnceKept DEF StoredInv
<1>2. CASE \E f \in Fixes : Record(f) \/ Expire(f)
  <2>1. ASSUME NEW f \in Fixes, Record(f) PROVE StoredInv'
    BY <1>1, <2>1, PhoneStep DEF Record, StoredInv
  <2>2. ASSUME NEW f \in Fixes, Expire(f) PROVE StoredInv'
    BY <1>1, <2>2, PhoneStep DEF Expire, StoredInv
  <2> QED BY <1>2, <2>1, <2>2
<1>3. CASE \E u \in Uploaders :
             ReadBatch(u) \/ Upload(u) \/ \E q \in Requests : GiveUp(u, q)
  BY <1>3, StoredReadBatch, StoredSend, StoredMarkSynced, StoredKeepPending, StoredGiveUp
     DEF Upload
<1>4. CASE \E q \in Requests : Work(q) \/ StoreFails(q) \/ Breaks(q) \/ WorkerDies(q)
  BY <1>4, StoredClaim, StoredStore, StoredRelease, StoredWriteLive, StoredVanish,
     StoredStoreFails, StoredBreaks, StoredWorkerDies DEF Work
<1>5. CASE UNCHANGED vars
  BY <1>1, <1>5, PhoneStep DEF vars, StoredInv
<1> QED
  BY <1>2, <1>3, <1>4, <1>5 DEF Next

LEMMA StoredStart == Init => StoredInv
<1> SUFFICES ASSUME Init PROVE StoredInv
  OBVIOUS
<1>1. \A q \in Requests : request[q] = Free
  BY DEF Init
<1>2. Free.for = {} /\ Holds(Free, log)
  BY DEF Free, Holds
<1>3. Awaited /\ OneRequestEach
  BY <1>1, <1>2 DEF Awaited, OneRequestEach, Serves
<1> QED
  BY <1>1, <1>2, <1>3, OnceStart DEF Init, StoredInv, HeldOrStored, SyncedIsStored

\* ingest_batch releases the keys of a failed insert, "otherwise the device's
\* retry of this batch is skipped as "duplicate" and the fixes are lost forever":
\* whatever overlaps, fails or is lost, the only fixes that the phone gives up
\* without a row are those of requests that broke off outside the guarded insert
\* or whose worker died, and those skipped while another request held them.
THEOREM FixesAreNotLost == Spec => []SyncedIsStored
<1>1. StoredInv => SyncedIsStored
  BY DEF StoredInv
<1> QED
  BY <1>1, StoredStart, StoredKept, PTL DEF Spec

-----------------------------------------------------------------------------
(* Types, and who waits for whom                                            *)

Below == {ss \in Nat \X Nat : ss[1] < ss[2]}

\* What a worker has claimed of a batch is bounded, and there is something of it to
\* announce once it is stored.
Announced(r) ==
    /\ \E n \in Nat : \A f \in r.mine : f <= n
    /\ r.at = "stored" => r.mine # {}

Heard == \A u \in Uploaders : uploader[u].at = "waits" => \E q \in Requests : Serves(q, u)

PipelineInv ==
    /\ StoredInv /\ Heard
    /\ \A q \in Requests : Announced(request[q])
    /\ live \in Fixes \cup {0} /\ failures \in 0..MaxFailures

LEMMA NewestIs ==
    ASSUME NEW n \in Nat, NEW T, T \subseteq Nat, T # {}, \A f \in T : f <= n
    PROVE  \E x \in T : \A y \in T : y <= x
<1> DEFINE U == {n - x : x \in T}
<1>1. U \subseteq Nat /\ U # {}
  OBVIOUS
<1> HIDE DEF U
<1>2. IsWellFoundedOn(Below, Nat)
  BY NatLessThanWellFounded DEF OpToRel, Below
<1>3. PICK u \in U : \A v \in U : ~ (<<v, u>> \in Below)
  BY <1>1, <1>2, WFMin
<1>4. ASSUME NEW v \in U PROVE u <= v
  <2>1. v \in Nat /\ u \in Nat
    BY <1>1
  <2>2. ~ (v < u)
    BY <2>1, <1>3 DEF Below
  <2> QED BY <2>1, <2>2
<1>5. PICK x \in T : u = n - x
  BY DEF U
<1>6. ASSUME NEW y \in T PROVE y <= x
  <2>1. n - y \in U
    BY DEF U
  <2>2. n - x <= n - y /\ x \in Nat /\ y \in Nat
    BY <2>1, <1>4, <1>5
  <2> QED BY <2>2
<1> QED BY <1>6

\* Request q becomes r; an uploader that waits afterwards waited for another
\* request, or waits for this one.
LEMMA StillHeard ==
    ASSUME PipelineInv, StoredInv', NEW q \in Requests, NEW r \in RequestState, Set(q, r),
           Announced(r), live' \in Fixes \cup {0}, failures' \in 0..MaxFailures,
           \A u \in Uploaders : uploader'[u].at = "waits" =>
               r.for = {u} \/ (uploader[u].at = "waits" /\ (Serves(q, u) => r.for = {u}))
    PROVE  PipelineInv'
<1>1. /\ request'[q] = r /\ \A p \in Requests : p # q => request'[p] = request[p]
  BY SetRequest DEF PipelineInv, StoredInv, OnceInv, Typed
<1>2. Heard'
  BY <1>1 DEF PipelineInv, Heard, Serves
<1> QED BY <1>1, <1>2 DEF PipelineInv

\* The server goes on with q.
LEMMA ServerHeard ==
    ASSUME PipelineInv, StoredInv', NEW q \in Requests, NEW r \in RequestState, Set(q, r),
           Announced(r), r.for = request[q].for, UNCHANGED uploader,
           live' \in Fixes \cup {0}, failures' \in 0..MaxFailures
    PROVE  PipelineInv'
  BY StillHeard DEF Serves

LEMMA PipelineTypes ==
    ASSUME PipelineInv
    PROVE  /\ request \in [Requests -> RequestState]
           /\ uploader \in [Uploaders -> [at : {"idle", "read", "waits"}, batch : SUBSET Fixes]]
           /\ live \in Fixes \cup {0} /\ failures \in 0..MaxFailures /\ MaxFailures \in Nat
           /\ Fixes \subseteq Nat
           /\ \A q \in Requests : Announced(request[q]) /\ request[q].mine \subseteq Fixes
  BY PipelineAssumption DEF PipelineInv, StoredInv, OnceInv, Typed, RequestState

LEMMA Quiet == Announced(Free) /\ Free \in RequestState /\ Free.for = {}
  BY FreeType DEF Announced, Free

\* An uploader is done with q.
LEMMA LeavesHeard ==
    ASSUME PipelineInv, StoredInv', NEW q \in Requests, NEW r \in RequestState, Set(q, r),
           Announced(r), NEW u \in Uploaders, Serves(q, u),
           uploader' = [uploader EXCEPT ![u] = Resting],
           live' \in Fixes \cup {0}, failures' \in 0..MaxFailures
    PROVE  PipelineInv'
<1>1. uploader'[u].at = "idle" /\ \A v \in Uploaders : v # u => uploader'[v] = uploader[v]
  BY PipelineTypes DEF Resting
<1>2. \A v \in Uploaders : Serves(q, v) => v = u
  BY DEF Serves
<1> QED BY <1>1, <1>2, StillHeard

LEMMA PhoneHeard ==
    ASSUME PipelineInv, StoredInv', NEW u \in Uploaders, NEW q \in Requests,
           Send(u, q) \/ MarkSynced(u, q) \/ KeepPending(u, q) \/ GiveUp(u, q)
    PROVE  PipelineInv'
<1>2. CASE Send(u, q)
  <2> DEFINE r == [at |-> "claiming", for |-> {u}, todo |-> uploader[u].batch, mine |-> {}]
  <2>1. uploader[u].batch \subseteq Fixes
    BY PipelineTypes
  <2>2. r \in RequestState /\ Announced(r) /\ r.for = {u}
    BY <2>1 DEF RequestState, Announced
  <2>3. Set(q, r) /\ UNCHANGED <<live, failures>> /\ request[q].at = "free"
    BY <1>2 DEF Send
  <2>4. \A v \in Uploaders : v # u => uploader'[v] = uploader[v] /\ ~Serves(q, v)
    BY <1>2, <2>3, PipelineTypes DEF Send, PipelineInv, StoredInv, Holds, Serves
  <2> HIDE DEF r
  <2> QED BY <2>2, <2>3, <2>4, StillHeard, PipelineTypes
<1>3. CASE MarkSynced(u, q) \/ KeepPending(u, q)
  BY <1>3, Quiet, LeavesHeard, PipelineTypes DEF MarkSynced, KeepPending
<1>4. CASE GiveUp(u, q)
  <2>1. request[q] \in RequestState
    BY PipelineTypes
  <2>2. /\ Unwatched(q) \in RequestState /\ Unwatched(q).mine = request[q].mine
        /\ Unwatched(q).at = request[q].at
    BY <2>1, ZenonT(60) DEF RequestState, Unwatched
  <2>3. Announced(Unwatched(q)) /\ failures' \in 0..MaxFailures
    BY <1>4, <2>2, PipelineTypes DEF Announced, GiveUp
  <2> QED BY <1>4, <2>2, <2>3, LeavesHeard, PipelineTypes DEF GiveUp
<1> QED BY <1>2, <1>3, <1>4

LEMMA ClaimHeard ==
    ASSUME PipelineInv, StoredInv', NEW q \in Requests, NEW f \in Fixes, Claim(q, f)
    PROVE  PipelineInv'
<1> DEFINE new == IF f \in keys THEN {} ELSE {f}
           r == [request[q] EXCEPT !.todo = @ \ {f}, !.mine = @ \cup new]
<1>1. request[q] \in RequestState /\ request[q].at = "claiming" /\ f \in Nat
  BY PipelineTypes DEF Claim
<1>2. Set(q, r) /\ UNCHANGED <<uploader, live, failures>>
  BY DEF Claim
<1>3. new \subseteq {f}
  OBVIOUS
<1> HIDE DEF new
<1>4. /\ r \in RequestState /\ r.at = "claiming" /\ r.for = request[q].for
      /\ r.mine = request[q].mine \cup new
  <2>1. request[q].todo \ {f} \in SUBSET Fixes /\ request[q].mine \cup new \in SUBSET Fixes
    BY <1>1, <1>3 DEF RequestState
  <2> QED BY <1>1, <2>1, ZenonT(60) DEF RequestState
<1> HIDE DEF r
<1>5. Announced(r)
  <2>1. PICK n \in Nat : \A g \in request[q].mine : g <= n
    BY PipelineTypes DEF Announced
  <2>2. PICK m \in Nat : n <= m /\ f <= m
    <3>1. CASE n < f
      BY <1>1, <3>1
    <3>2. CASE ~ (n < f)
      BY <1>1, <3>2
    <3> QED BY <3>1, <3>2
  <2>3. ASSUME NEW g \in r.mine PROVE g <= m
    <3>1. CASE g = f
      BY <2>2, <3>1
    <3>2. CASE g # f
      <4>1. g \in request[q].mine
        BY <1>3, <1>4, <3>2
      <4>2. g \in Nat
        BY <4>1, PipelineTypes
      <4> QED BY <2>1, <2>2, <4>1, <4>2
    <3> QED BY <3>1, <3>2
  <2> QED BY <1>4, <2>2, <2>3 DEF Announced
<1> QED BY <1>2, <1>4, <1>5, ServerHeard, PipelineTypes

\* _update_live_cache: the newest fix that was stored.
LEMMA WriteLiveHeard ==
    ASSUME PipelineInv, StoredInv', NEW q \in Requests, WriteLive(q) PROVE PipelineInv'
<1> DEFINE r == [request[q] EXCEPT !.at = "done", !.mine = {}]
<1>1. request[q] \in RequestState /\ request[q].at = "stored"
  BY PipelineTypes DEF WriteLive
<1>2. r \in RequestState /\ r.mine = {} /\ r.at = "done" /\ r.for = request[q].for
  BY <1>1, ZenonT(60) DEF RequestState
<1>3. Set(q, r) /\ UNCHANGED <<uploader, failures>>
  BY DEF WriteLive
<1> HIDE DEF r
<1>4. Announced(r)
  BY <1>2 DEF Announced
<1>5. live' \in Fixes
  <2>1. PICK n \in Nat : \A f \in request[q].mine : f <= n
    BY PipelineTypes DEF Announced
  <2>2. request[q].mine # {} /\ request[q].mine \subseteq Fixes /\ request[q].mine \subseteq Nat
    BY <1>1, PipelineTypes DEF Announced
  <2>3. \E f \in request[q].mine : \A g \in request[q].mine : g <= f
    BY <2>1, <2>2, NewestIs
  <2>4. live' \in request[q].mine
    BY <2>3 DEF WriteLive
  <2> QED BY <2>2, <2>4
<1> QED BY <1>2, <1>3, <1>4, <1>5, ServerHeard, PipelineTypes

LEMMA WorkHeard ==
    ASSUME PipelineInv, StoredInv', NEW q \in Requests,
           Store(q) \/ StoreFails(q) \/ Release(q) \/ Vanish(q)
    PROVE  PipelineInv'
<1> DEFINE Goes(at, mine) == [request[q] EXCEPT !.at = at, !.mine = mine]
<1>1. request[q] \in RequestState /\ request[q].mine \subseteq Fixes /\ Announced(request[q])
  BY PipelineTypes
<1>2. ASSUME NEW at \in {"done", "stored", "failed", "error"},
             NEW mine \in {request[q].mine, {}}, at = "stored" => mine # {}
      PROVE  /\ Goes(at, mine) \in RequestState /\ Goes(at, mine).for = request[q].for
             /\ Announced(Goes(at, mine))
  <2>1. /\ Goes(at, mine) \in RequestState /\ Goes(at, mine).for = request[q].for
        /\ Goes(at, mine).at = at /\ Goes(at, mine).mine = mine
    BY <1>1, <1>2, ZenonT(60) DEF RequestState
  <2>2. \E n \in Nat : \A f \in mine : f <= n
    BY <1>1, <1>2 DEF Announced
  <2> HIDE DEF Goes
  <2> QED BY <1>2, <2>1, <2>2 DEF Announced
<1>3. CASE Store(q)
  <2> DEFINE at == IF request[q].mine = {} THEN "done" ELSE "stored"
  <2>1. [request[q] EXCEPT !.at = at] = Goes(at, request[q].mine)
    BY <1>1, ZenonT(60) DEF RequestState
  <2>2. Set(q, Goes(at, request[q].mine)) /\ UNCHANGED <<uploader, live, failures>>
    BY <1>3, <2>1 DEF Store
  <2>3. at \in {"done", "stored"} /\ (at = "stored" => request[q].mine # {})
    OBVIOUS
  <2> HIDE DEF at, Goes
  <2> QED BY <1>2, <2>2, <2>3, ServerHeard, PipelineTypes
<1>4. CASE StoreFails(q)
  <2>1. [request[q] EXCEPT !.at = "failed"] = Goes("failed", request[q].mine)
    BY <1>1, ZenonT(60) DEF RequestState
  <2>2. /\ Set(q, Goes("failed", request[q].mine)) /\ UNCHANGED <<uploader, live>>
        /\ failures' \in 0..MaxFailures
    BY <1>4, <2>1, PipelineTypes DEF StoreFails
  <2> HIDE DEF Goes
  <2> QED BY <1>2, <2>2, ServerHeard, PipelineTypes
<1>5. CASE Release(q)
  <2>1. Set(q, Goes("error", {})) /\ UNCHANGED <<uploader, live, failures>>
    BY <1>5 DEF Release
  <2> HIDE DEF Goes
  <2> QED BY <1>2, <2>1, ServerHeard, PipelineTypes
<1>6. CASE Vanish(q)
  BY <1>6, Quiet, ServerHeard, PipelineTypes DEF Vanish
<1> QED BY <1>3, <1>4, <1>5, <1>6

LEMMA BreaksHeard ==
    ASSUME PipelineInv, StoredInv', NEW q \in Requests, Breaks(q) PROVE PipelineInv'
<1> DEFINE r == [request[q] EXCEPT !.at = "error", !.todo = {}, !.mine = {}]
<1>1. request[q] \in RequestState
  BY PipelineTypes
<1>2. r \in RequestState /\ r.mine = {} /\ r.at = "error" /\ r.for = request[q].for
  BY <1>1, ZenonT(60) DEF RequestState
<1>3. Set(q, r) /\ UNCHANGED <<uploader, live>>
  BY DEF Breaks
<1>4. failures' \in 0..MaxFailures
  BY PipelineTypes DEF Breaks
<1> HIDE DEF r
<1>5. Announced(r)
  BY <1>2 DEF Announced
<1> QED BY <1>2, <1>3, <1>4, <1>5, ServerHeard, PipelineTypes

LEMMA WorkerDiesHeard ==
    ASSUME PipelineInv, StoredInv', NEW q \in Requests, WorkerDies(q) PROVE PipelineInv'
<1>1. \A u \in Uploaders : uploader'[u].at = "waits" => uploader[u].at = "waits" /\ ~Serves(q, u)
  BY DEF WorkerDies, Resting
<1>2. failures' \in 0..MaxFailures
  BY PipelineTypes DEF WorkerDies
<1> QED BY <1>1, <1>2, Quiet, StillHeard, PipelineTypes DEF WorkerDies

LEMMA PipelineKept == PipelineInv /\ [Next]_vars => PipelineInv'
<1> SUFFICES ASSUME PipelineInv, [Next]_vars PROVE PipelineInv'
  OBVIOUS
<1>1. StoredInv'
  BY StoredKept DEF PipelineInv
<1>2. CASE UNCHANGED <<uploader, request, live, failures>>
  BY <1>1, <1>2 DEF PipelineInv, Heard, Serves
<1>3. ASSUME NEW u \in Uploaders, ReadBatch(u) PROVE PipelineInv'
  <2>1. \A v \in Uploaders : uploader'[v].at = "waits" => uploader[v].at = "waits"
    BY <1>3, PipelineTypes DEF ReadBatch
  <2> QED BY <1>1, <1>3, <2>1 DEF ReadBatch, PipelineInv, Heard, Serves
<1>4. ASSUME NEW u \in Uploaders, Upload(u) \/ \E q \in Requests : GiveUp(u, q)
      PROVE  PipelineInv'
  BY <1>1, <1>4, PhoneHeard DEF Upload
<1>5. ASSUME NEW q \in Requests, Work(q) \/ StoreFails(q) \/ Breaks(q) \/ WorkerDies(q)
      PROVE  PipelineInv'
  BY <1>1, <1>5, ClaimHeard, WriteLiveHeard, WorkHeard, BreaksHeard, WorkerDiesHeard DEF Work
<1> QED
  BY <1>2, <1>3, <1>4, <1>5 DEF Next, Record, Expire, vars

LEMMA PipelineStart == Init => PipelineInv
<1> SUFFICES ASSUME Init PROVE PipelineInv
  OBVIOUS
<1>1. Heard /\ \A q \in Requests : Announced(request[q])
  BY Quiet DEF Init, Heard, Resting
<1> QED BY <1>1, StoredStart, PipelineAssumption DEF Init, PipelineInv

\* Every variable holds what the code can put in it, an uploader waits as long as
\* the server works for it, and what a request claimed is its own: whatever
\* overlaps, fails, is lost or dies (LocationSyncService, ingest_batch).
THEOREM PipelineTypeCorrect == Spec => []TypeOK
<1>1. PipelineInv => TypeOK
  BY PipelineTypes DEF PipelineInv, StoredInv, OnceInv, Typed, TypeOK, Heard, OneRequestEach,
     RequestState
<1> QED BY <1>1, PipelineStart, PipelineKept, PTL DEF Spec
===============================================================================
