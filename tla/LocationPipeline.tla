--------------------------- MODULE LocationPipeline ---------------------------
(***************************************************************************)
(* GPS fixes on their way from the phone to location_logs and the live     *)
(* position in Redis (mobile location_sync_service.dart, sync_engine.dart, *)
(* database_helper.dart; app/services/location_service.py).                *)
(*                                                                         *)
(* Two uploaders drain one SQLite table: the sync engine, and the flush of *)
(* LocationSyncService when the app starts and when a shift ends.  The     *)
(* server recognises a fix that comes again by a key in Redis, which a     *)
(* request claims before it inserts and releases when the insert fails.    *)
(* Only the insert is guarded so: a request that fails anywhere else keeps *)
(* what it claimed, as does one whose worker dies.  A request goes on when *)
(* its client has given up on it, and the next one may overtake it.        *)
(*                                                                         *)
(* Fixes are numbered by their device time.  What the schema rejects (422) *)
(* is in SyncQueue; fixes from the future are dropped by both sides and    *)
(* left out here.                                                          *)
(***************************************************************************)
EXTENDS Naturals, FiniteSets

CONSTANTS
    Fixes,       \* the fixes the phone records
    Uploaders,   \* the loops that may upload at once
    Engine,      \* the one of the sync engine
    Requests,    \* requests the server may work on at once
    BatchSize,   \* _batchSize (50)
    MaxFailures, \* lost messages, failed requests and dead workers
    Crashes,     \* workers die
    Patient,     \* a client gives up only when the server is done with its request
    Expiring     \* fixes that may still be retried when their key expires (6 h)

ASSUME PipelineAssumption ==
    /\ Engine \in Uploaders
    /\ Fixes \subseteq Nat
    /\ BatchSize \in Nat \ {0} /\ MaxFailures \in Nat
    /\ {Crashes, Patient} \subseteq BOOLEAN
    /\ Expiring \subseteq Fixes

VARIABLES
    phone,    \* pending_locations
    uploader, \* the uploaders
    request,  \* POST /location/batch on the server
    keys,     \* the sync:processed keys in Redis
    log,      \* how many rows of location_logs each fix has
    live,     \* the fix in the live hash, 0 for none
    doubted,  \* fixes whose key outlived its request, or skipped while another held them
    failures  \* so far

vars == <<phone, uploader, request, keys, log, live, doubted, failures>>

-----------------------------------------------------------------------------
(* The phone                                                                *)

Pending == {f \in Fixes : phone[f] = "pending"}

\* getPendingLocations: the oldest first
Oldest == {f \in Pending : Cardinality({g \in Pending : g < f}) < BatchSize}

Resting == [at |-> "idle", batch |-> {}]
Free == [at |-> "free", for |-> {}, todo |-> {}, mine |-> {}]

\* The request that u waits for; `for` is empty once its client gave up.
Serves(q, u) == request[q].for = {u}
Set(q, r) == request' = [request EXCEPT ![q] = r]
Unwatched(q) == [request[q] EXCEPT !.for = {}]

\* The location callback: fixes are recorded in the order of their time.
Record(f) ==
    /\ phone[f] = "none"
    /\ \A g \in Fixes : g < f => phone[g] # "none"
    /\ phone' = [phone EXCEPT ![f] = "pending"]
    /\ UNCHANGED <<uploader, request, keys, log, live, doubted, failures>>

\* flushPendingLocations and _syncLocations: the next batch is read...
ReadBatch(u) ==
    /\ uploader[u].at = "idle"
    /\ Pending # {}
    /\ uploader' = [uploader EXCEPT ![u] = [at |-> "read", batch |-> Oldest]]
    /\ UNCHANGED <<phone, request, keys, log, live, doubted, failures>>

\* ...and posted.
Send(u, q) ==
    /\ uploader[u].at = "read"
    /\ request[q].at = "free"
    /\ uploader' = [uploader EXCEPT ![u].at = "waits"]
    /\ Set(q, [at |-> "claiming", for |-> {u}, todo |-> uploader[u].batch, mine |-> {}])
    /\ UNCHANGED <<phone, keys, log, live, doubted, failures>>

\* 2xx: markSynced, and the loop goes on.
MarkSynced(u, q) ==
    /\ Serves(q, u) /\ request[q].at = "done"
    /\ phone' = [f \in Fixes |-> IF f \in uploader[u].batch THEN "synced" ELSE phone[f]]
    /\ uploader' = [uploader EXCEPT ![u] = Resting]
    /\ Set(q, Free)
    /\ UNCHANGED <<keys, log, live, doubted, failures>>

\* Mutant: an error leaves the uploader where it is.
HangOnError(u, q) ==
    /\ Serves(q, u) /\ request[q].at = "error"
    /\ Set(q, Free)
    /\ UNCHANGED <<phone, uploader, keys, log, live, doubted, failures>>

\* 5xx: the rows stay pending.
KeepPending(u, q) ==
    /\ Serves(q, u) /\ request[q].at = "error"
    /\ uploader' = [uploader EXCEPT ![u] = Resting]
    /\ Set(q, Free)
    /\ UNCHANGED <<phone, keys, log, live, doubted, failures>>

\* The response is lost, the client times out, or the app dies.
GiveUp(u, q) ==
    /\ Serves(q, u)
    /\ Patient => request[q].at \in {"done", "error"}
    /\ failures < MaxFailures
    /\ failures' = failures + 1
    /\ uploader' = [uploader EXCEPT ![u] = Resting]
    /\ Set(q, Unwatched(q))
    /\ UNCHANGED <<phone, keys, log, live, doubted>>

-----------------------------------------------------------------------------
(* ingest_batch                                                             *)

\* SET NX: a key that is there already means the fix is skipped.
Claim(q, f) ==
    /\ request[q].at = "claiming" /\ f \in request[q].todo
    /\ LET new == IF f \in keys THEN {} ELSE {f}
       IN  /\ keys' = keys \cup new
           /\ Set(q, [request[q] EXCEPT !.todo = @ \ {f}, !.mine = @ \cup new])
    /\ doubted' = doubted \cup {g \in {f} : \E p \in Requests : g \in request[p].mine}
    /\ UNCHANGED <<phone, uploader, log, live, failures>>

Claimed(q) == request[q].at = "claiming" /\ request[q].todo = {}

\* bulk_insert and commit; nothing is left to do for a batch of duplicates.
Store(q) ==
    /\ Claimed(q)
    /\ log' = [f \in Fixes |-> IF f \in request[q].mine THEN log[f] + 1 ELSE log[f]]
    /\ Set(q, [request[q] EXCEPT !.at = IF request[q].mine = {} THEN "done" ELSE "stored"])
    /\ UNCHANGED <<phone, uploader, keys, live, doubted, failures>>

\* What a request has claimed and not stored: its keys stay if nobody releases them.
Orphans(q) == IF request[q].at \in {"claiming", "failed"} THEN request[q].mine ELSE {}

\* An error outside the try: in the claims (a claim may have reached Redis
\* though its answer did not come back), in latest_for_user, in the release or
\* in the live cache.  The client hears of it, and the claimed keys stay.
Breaks(q) ==
    /\ request[q].at \in {"claiming", "failed", "stored"}
    /\ failures < MaxFailures
    /\ failures' = failures + 1
    /\ \E late \in {{}} \cup {{f} : f \in request[q].todo \ keys} :
          /\ keys' = keys \cup late
          /\ doubted' = doubted \cup Orphans(q) \cup late
    /\ Set(q, [request[q] EXCEPT !.at = "error", !.todo = {}, !.mine = {}])
    /\ UNCHANGED <<phone, uploader, log, live>>

\* The insert or its commit fails and is rolled back.
StoreFails(q) ==
    /\ Claimed(q) /\ request[q].mine # {}
    /\ failures < MaxFailures
    /\ failures' = failures + 1
    /\ Set(q, [request[q] EXCEPT !.at = "failed"])
    /\ UNCHANGED <<phone, uploader, keys, log, live, doubted>>

\* Mutant: a failed insert leaves its keys behind.
KeepKeys(q) ==
    /\ request[q].at = "failed"
    /\ Set(q, [request[q] EXCEPT !.at = "error", !.mine = {}])
    /\ UNCHANGED <<phone, uploader, keys, log, live, doubted, failures>>

\* Mutant: the keys of the whole batch are released.
ReleaseBatch(q) ==
    /\ request[q].at = "failed"
    /\ keys' = keys \ UNION {uploader[u].batch : u \in request[q].for}
    /\ Set(q, [request[q] EXCEPT !.at = "error", !.mine = {}])
    /\ UNCHANGED <<phone, uploader, log, live, doubted, failures>>

\* The keys of a failed insert are released, and the error is raised.
Release(q) ==
    /\ request[q].at = "failed"
    /\ keys' = keys \ request[q].mine
    /\ Set(q, [request[q] EXCEPT !.at = "error", !.mine = {}])
    /\ UNCHANGED <<phone, uploader, log, live, doubted, failures>>

\* _update_live_cache with the newest of the batch
WriteLive(q) ==
    /\ request[q].at = "stored"
    /\ live' = CHOOSE f \in request[q].mine : \A g \in request[q].mine : g <= f
    /\ Set(q, [request[q] EXCEPT !.at = "done", !.mine = {}])
    /\ UNCHANGED <<phone, uploader, keys, log, doubted, failures>>

\* The response to a client that is gone.
Vanish(q) ==
    /\ request[q].at \in {"done", "error"} /\ request[q].for = {}
    /\ Set(q, Free)
    /\ UNCHANGED <<phone, uploader, keys, log, live, doubted, failures>>

\* The worker dies; what it claimed in Redis stays.
WorkerDies(q) ==
    /\ Crashes
    /\ request[q].at # "free"
    /\ failures < MaxFailures
    /\ failures' = failures + 1
    /\ uploader' = [u \in Uploaders |-> IF Serves(q, u) THEN Resting ELSE uploader[u]]
    /\ Set(q, Free)
    /\ doubted' = doubted \cup Orphans(q)
    /\ UNCHANGED <<phone, keys, log, live>>

\* DEDUP_TTL_SECONDS after the claim
Expire(f) ==
    /\ f \in Expiring
    /\ f \in keys /\ \A q \in Requests : f \notin request[q].mine
    /\ keys' = keys \ {f}
    /\ UNCHANGED <<phone, uploader, request, log, live, doubted, failures>>

-----------------------------------------------------------------------------
(* The specification                                                        *)

Init ==
    /\ phone = [f \in Fixes |-> "none"]
    /\ uploader = [u \in Uploaders |-> Resting]
    /\ request = [q \in Requests |-> Free]
    /\ keys = {}
    /\ log = [f \in Fixes |-> 0]
    /\ live = 0 /\ doubted = {}
    /\ failures = 0

\* What an uploader does once it has read a batch, and the server with its
\* request.
Upload(u) == \E q \in Requests : Send(u, q) \/ MarkSynced(u, q) \/ KeepPending(u, q)

Work(q) ==
    \/ \E f \in Fixes : Claim(q, f)
    \/ Store(q)
    \/ Release(q)
    \/ WriteLive(q)
    \/ Vanish(q)

Next ==
    \/ \E f \in Fixes : Record(f) \/ Expire(f)
    \/ \E u \in Uploaders : ReadBatch(u) \/ Upload(u) \/ \E q \in Requests : GiveUp(u, q)
    \/ \E q \in Requests : Work(q) \/ StoreFails(q) \/ Breaks(q) \/ WorkerDies(q)

Spec == Init /\ [][Next]_vars

\* The engine's heartbeat reads the table again and again, an upload that was
\* begun goes on, and the server works off its requests.  Nothing is assumed of
\* when the flush runs.
FairSpec ==
    /\ Spec
    /\ WF_vars(ReadBatch(Engine))
    /\ \A u \in Uploaders : WF_vars(Upload(u))
    /\ \A q \in Requests : WF_vars(Work(q))

-----------------------------------------------------------------------------
(* Properties                                                               *)

\* Every variable holds what the code can put in it, an uploader waits as long
\* as the server works for it, and what a request claimed is its own.
TypeOK ==
    /\ phone \in [Fixes -> {"none", "pending", "synced"}]
    /\ uploader \in [Uploaders -> [at : {"idle", "read", "waits"}, batch : SUBSET Fixes]]
    /\ request \in [Requests ->
                      [at : {"free", "claiming", "stored", "failed", "done", "error"},
                       for : SUBSET Uploaders, todo : SUBSET Fixes, mine : SUBSET Fixes]]
    /\ keys \subseteq Fixes
    /\ log \in [Fixes -> Nat]
    /\ live \in Fixes \cup {0}
    /\ doubted \subseteq Fixes /\ failures \in 0..MaxFailures
    /\ \A u \in Uploaders : uploader[u].at = "waits" <=> \E q \in Requests : Serves(q, u)
    /\ \A p, q \in Requests : p # q => request[p].mine \cap request[q].mine = {}

\* location_service.py, dedup: "the same fix must not insert twice", "race-free
\* across both uvicorn workers": through overlapping uploads, lost responses,
\* failed inserts and dead workers, as long as the fix's key does not expire.
InsertedOnce == \A f \in Fixes \ Expiring : log[f] <= 1

\* A fix that the phone gives up as uploaded is in location_logs, unless the
\* request that claimed it was broken off outside the guarded insert, or it was
\* skipped while another request had only claimed it: for the insert itself
\* ingest_batch releases the keys of a failed insert, "otherwise the device's
\* retry of this batch is skipped as "duplicate" and the fixes are lost forever".
SyncedIsStored == \A f \in Fixes \ doubted : phone[f] = "synced" => log[f] > 0

\* Every fix that was recorded is uploaded in the end.
AllUploaded == \A f \in Fixes : phone[f] = "pending" ~> phone[f] = "synced"

===============================================================================
