# FieldTrack CRM: verification project

FieldTrack CRM (Samarth Sathi in the app) is a field-force system: employees track their
attendance and position, visit customers, capture orders and plan their days on a phone that
is often offline; managers watch, correct and approve. The server is FastAPI over PostgreSQL
and Redis with an APScheduler in every worker (`src/app`), the client is Flutter with an SQLite
queue (`src/mobile`), and a React application serves the administrators (`src/admin-web`).

This directory holds TLA+ modules that model the server's services and the phone's offline
machinery, TLC configurations that check them on small instances, and TLAPS proofs of the
properties that matter most. Paths below are relative to the repository.

Contents

1. Inventory: the components and what makes each correct
2. The modules and how they correspond to the code
3. The runs: what is checked, with which bounds and which fairness
4. The theorems: what is proved, and along which argument
5. Where code and documentation disagree
6. Plan: what is done, what comes next
7. Not modelled

## 1. Inventory

| component | state it keeps | operations | hard behaviour | correct when |
|---|---|---|---|---|
| **Attendance day** `attendance_service.py`, `sync_service.py` | `attendance` (UNIQUE user, date), `attendance_sessions`, Redis hash `attendance:state` | START, BREAK, RESUME, END, RE_CHECKIN, mark and revoke leave, automatic checkout, override, manual session, offline replay | requests of one employee overlap at every await; Redis is written before COMMIT; transactions fail; corrections come out of order | one START and first; every session justified by an earlier one; leave excludes work; totals come from the log; nothing recorded is lost |
| **Offline visit upload** `sync_engine.dart`, `visit_repository.dart` | one `pending_visits` row: a column per step, a list of orders; `id_mappings`; the mutex `_running` | save a step, sync pass, watchdog, retry | lost responses, app kills at every await, two passes after the watchdog, read-modify-write of the order list | nothing saved is lost, completion lands last, the customer stays resolvable, the queue drains |
| **Offline queue** `sync_engine.dart`, `database_helper.dart`, `needs_attention_repository.dart` | eight tables of rows with status and retry count | the pass over all tables, edit, save again, save online, retry, discard | one error ends the pass; batches; stale payloads; retries used up | rows leave only when landed; customers come before what refers to them; everything settles |
| **Location pipeline** `location_sync_service.dart`, `location_service.py` | `pending_locations`, dedup keys in Redis (6 h), `location_logs`, the live hash | record, two uploaders, claim, insert, release | two uploaders, requests that outlive their client, inserts and other calls that fail, dying workers, expiring keys | each fix inserted once; what is marked synced is stored; everything is uploaded |
| **Sessions of users** `auth_service.py`, `core/redis.py`, `api_client.dart`, `client.js` | refresh fingerprint, token blacklist, what each client holds | login, refresh, logout, reset, deactivation, deletion | read-compare-write in Redis without a transaction; lost responses; tabs that share a cookie | one session per user; the reuse alarm means something; an ended session stays ended; who is deactivated is logged out |
| **Field work** `visit_plan_service.py`, `visit_service.py`, `follow_up_service.py`, `lead_service.py` | plans and items, visits, leads, follow-ups | plan, edit, move, carry over, check in, complete, acknowledge | check-then-act against leave; delete-and-reinsert; statuses set by hand; completion repeated, and two at once | no planned stop on a leave day; a visited stop is not planned; a follow-up is made once and kept |
| **A visit's record** `visit_service.py`, `order_service.py`, `vet_service.py` | notes, answers, livestock, vet request, orders, photos | save, review, upload, delete | overlapping saves and reviews; two stores (rows and objects); dying workers | the last save shows; a verdict stands; a shown photo exists |
| **Reminders, scheduler** `core/scheduler.py` | claims in Redis (300 s), flags of rows | 15 cron jobs in each worker | crash after the claim, Redis down, misfires longer than the claim; windows of time | each reminder once, in time; only a run overtakes |
| **Daily report** `dsr_service.py` | `daily_reports` | generate, submit, mark late | tap, job and checkout at once; background tasks that fail; two calendars (UTC and business day) | submitted once, late exactly if late |
| **Employees, teams, customers** `employee_service.py`, `team_service.py`, `farmer_service.py` | `users`, `teams`, `farmers` | hire, assign, join, leave, deactivate, delete, found, manage, dissolve, create, import, move | requests that check and later write; seven lists and as many access checks that compute a scope | nobody in a deleted team; what is listed can be opened |
| **Geofencing** `geofence_service.py` | zones, events | draw, rescope, redraw, delete; ENTER and EXIT per pair of points | batches that overtake each other; five readings of the same events | events tell where a person is; the readings agree |
| **Reports** `report_service.py` | job status in Redis, file in storage | ask, build, poll, download, retain; weekly and monthly | authorised now, built later; two stores that expire apart | shows what the screens show; READY has a file |
| **Notifications, devices; GPS configuration; live views, WebSocket; retention; villages** | rows, a cache, connections | send, register, configure, push, archive | best effort | not modelled (section 7) |

How they interact: the phone's repositories write the queue and read caches; the sync engine
(timer, connectivity listener, app resume, manual) drains the queue through the API; the API
handlers run one SQLAlchemy transaction each, with Redis calls in between that no transaction
covers; visit check-in asks the attendance day for its state; marking leave asks the visit plans,
and planning asks for leave; a completed visit closes follow-ups and makes one; the checkout job
ends days and submits their reports; ingestion feeds the live position and the geofences; every
list and report takes its scope from users, teams and customers. `PROJECT.json` lists every
component with its files, and under `hazards` each place in the code where one of these
interactions can go wrong.

## 2. The modules

| module | models | extends / instance |
|---|---|---|
| `AttendanceStates` | the states, session kinds and transition table (`_ALLOWED_FROM`) | |
| `DayMachine` | abstract: a day as the documented state machine | `AttendanceStates` |
| `AttendanceDay` | the rows, Redis and every request, await by await | `AttendanceStates` |
| `MCAttendanceDay`, `MCAttendanceDays` | groups of operations for TLC; one request at a time, where `AttendanceDay` implements `DayMachine` | `AttendanceDay`, `DayMachine` |
| `VisitSync` | one offline visit and its customer, await by await | |
| `SyncQueue`, `MCSyncQueue` | all tables of the queue, one pass at a time; a small queue | |
| `LocationPipeline` | fixes from SQLite through Redis to PostgreSQL | |
| `AuthSession`, `MCAuthSession` | the refresh session of an account and its clients; a phone and a browser | |
| `FieldWork` | plans, leave, visits, leads, follow-ups of one employee | |
| `VisitRecord` | what is recorded of one visit, and the reviews | |
| `Reminders` | the reminder and escalation jobs, in slots of half an hour | |
| `DailyReport` | a daily report and the jobs that close a day | |
| `Staff` | people, teams, customers, and every list and access check over them | |
| `Zones` | geofences, their events and the readings of them, composed with `Staff` | `Staff` |
| `Reports`, `MCBackOffice` | report jobs, composed with `Zones` and `Staff`; a small office | `Zones` |
| `...Proofs` | theorems about the module they extend | `TLAPS` |

**AttendanceDay.** One employee, several dates. `rows` is the committed table by date with the
session log as a set; `redis` the state key; `req[h]` a request in flight, with what it read
(`seen`), what it will insert (`add`) and where it is. A request is split where its code awaits
something others can see: the SELECT with the checks (`Begin...`), the deletion of a stale Redis
key, the INSERTs (`Flush...`, which take the locks of the unique index and of the foreign key),
the Redis write (`WriteRedis`, before the commit as in the code), and the `Commit`. Transactions
run at READ COMMITTED. `Fail` rolls a transaction back but not Redis. `total` stands for
`total_duration_minutes` as the set of sessions it was computed from: that tells a fresh total
from a stale one without the arithmetic. The statuses are PRESENT (for ABSENT and HALF_DAY too)
and ON_LEAVE. The planned visits that make `mark_leave` refuse are a choice here; `FieldWork` has
them. Positions, distances and notes are left out.

**DayMachine** is the state machine of the docstring of `attendance_service.py`, with the re-check-in
the transition table has in addition: a tap moves the state along the table, leave comes from
nothing, the checkout closes an open day.

**VisitSync.** A visit checked in offline against a customer created offline. `row` is the queue
row (the number of the save each column came from, the order list), `server` what was committed,
`saved` what the user was told. Each await of `_runSequence`, `_syncVisits` and
`_syncVisitSubActions` ends a step: read, send, serve, reply, write. The mutex, the 45 s watchdog
that frees it under a running pass, saves of the user between any two steps (`BeginSave`,
`ReadOrders`, `WriteOrders`), `Lose` (request or response) and `Kill` are actions. The customer and
the visit have a status and a count of failures each: past the cap either is set aside for the user,
and a visit waits behind a customer who was. Remark,
organisation answers and vet request take the same path as the notes, which stand for them. A
response that comes after the client's timeout is a lost one; that the server may still be
working then is not modelled here (it is in `LocationPipeline`, where it matters).

**SyncQueue.** The other dimension: many rows, one pass. A row has a status, a retry count and a
payload - the version the user saved and what the server will say of it (`ok`, `invalid` = 422,
`refused` = any other error). `pass.rest` are the rows the pass read for its stage, `Batch` what it
posts next: a single row, a Farmer Meet's attendees together, or the locations. `Land` notes what was
accepted, a meet's attendees one by one, so that a pass may end between two of them; `SetAside` and
`Abort` are the two error paths. A visit is one post here. The table of attendance sessions is
left out because nothing in the app inserts into it (`insertPendingSession` has no caller), and
`online` is abstracted to whether passes start.

**LocationPipeline.** `phone` is the SQLite table, `uploader` the sync engine and the flush that
`LocationSyncService` makes at app start and at the end of a shift, `request` what the server works
on - it outlives its client when that gives up. `Claim` is SET NX per fix, `Store` the insert,
`StoreFails` and `Release` its error path, `Breaks` an error anywhere else in the request (a later
claim, the last position, the release, the live position), which releases nothing, `WorkerDies` a
crash, `Expire` the 6 h of a key. `doubted` notes the two sorts of fixes the code may lose: those whose
request broke off or whose worker died between claim and commit, and those that were skipped while
another request had only claimed them. 422 and
future timestamps are left out (the first is in `SyncQueue`); the geofence check is in `Zones`.

**AuthSession.** One account. Tokens are numbered as they are issued; `session` is the fingerprint
in Redis, `jar[j]` the token in a phone's storage or a browser's cookie (which tabs share),
`request[q]` a login or refresh on the server with the step it has reached: a refresh reads the
fingerprint, decides, and rotates, each with an await before it. `GiveUp` is a client that stops
waiting (the phone logs out on any exception, the server goes on). `admin` is a deactivation or
deletion whose Redis delete has happened and whose commit has not. Left out: the OTP's attempts
and the login rate limit.

**FieldWork.** One employee and a manager who may edit the plan. `planning` and `leaving` are the
requests that plan and those that mark leave: each reads the other's table, and writes later.
`completing` are completions: `CheckFollowUps` flushes the visit and the due follow-ups, whose rows are
locked from then on, and looks for the follow-up that it would repeat; `CompleteVisit` adds its own and
commits. A second completion of the same visit therefore waits for the first; only one of another
visit to the same customer can look at the same time. `items` are the stops (`day` 0 for the item of an
ad hoc visit), of whichever customer: a check-in takes the item it is told. `visits` are the check-ins
and completions, `followUps` what completions and hand-recorded leads schedule. `UpdateItemStatus` sets
any status, PLANNED too. Three history variables say where the code promises less: `overtaken` (days on
which a planning and a leave request both passed their check, or on which a stop was set back
to PLANNED), `reopened` (stops that were set back after their visit) and `contested` (follow-ups that
two completions were after at once). All other handlers are one step.

**VisitRecord.** One visit. A handler reads, waits and commits later; SQLAlchemy writes only the
columns that differ from what it loaded, which `Commit` actions say with the row as it is now, not
as it was. `crossed` notes what two overlapping requests wrote. Photos are objects in storage and
rows that name them: upload before insert, delete after the row.

**Reminders.** `due` are follow-ups with and without a time and stops; a job has the slots it fires
in, the rows its query selects and the flag it sets. A run is claimed (`Claim`), or fires without
its lock (`ClaimInVain`: Redis is down, or the worker is minutes late), pushes one row after the
other, and commits; `Die` loses its flags but not its pushes.

**DailyReport.** `attendance` is of UTC days, `report` of business days, which begin 5:30 earlier;
`part` is where the business clock stands. END makes a background task that generates, and submits
when it is the END of a logout; a generation and a submission read and later write (`op`). Any of
them may fail or die before it writes (`FailRequest`), a submission also after the COMMIT of the
generation it follows, and a task before it begins (`LoseTask`); the error is only logged. `broken`
notes the days of which what was to submit the report failed. `auto_checkout_job` and
`late_dsr_check_job` are split where they select, close and commit.

**Staff.** `user`, `team` and `customer` are the columns that scopes depend on; `request[r]` what a
request has loaded and checked. The operators `FarmersListed`, `CanView`, `CanWorkOn`, `MyLeads`,
`TeamsListed`, `EmployeesListed`, `PendingOrders`, `TeamPlans`, `TeamDsrs`, `ManagersOf`, ... are the
scopes of the lists and the access checks, each translated from its own query or function.
`raced` notes an assignment that overlapped the deletion of its team. Joining a team is three steps:
the checks, `AttachCustomers` (the person's row and those of his customers are flushed, and locked) and
`CommitJoin`. `strays` notes the customers who cannot come along: those whose creation overlapped a
join of their creator, and those whom somebody took out of their team.

**Zones.** A position is the set of the zones that cover it: PostGIS decides which, and the model
lets it be any set. `ReceiveBatch`, `StoreBatch` and `CheckZones` are an upload: deduplicated, its
newest fix stored and the previous position read, ENTER and EXIT computed against the zones that
concern the person. `Presence`, `EmployeeVisits`, `ZoneDay`, `ZoneDurations` and `Dwell` are the
readings of the events on five screens. `EndDay` is an END of the person's attendance, which
`ZoneDurations` takes as the end of a stay that is still open; the others do not. `blurred` notes
whom the events need not tell about: overlapping or late uploads, a failed check, a zone drawn or
rescoped under him.

**Reports.** `job[j]` is a report: what was asked for, the owner it was authorised for, where the
background job stands, its Redis hash and its file. Members are read before rows. `still` notes
whether what the owner's screens show has stayed as it was while the report was in work - and, for
compliance, which members are active: its screen shows nobody while no zone concerns the team, and
the report has by then read whom it will list; for the reports of zones, in which zones days have ended.
A status outlives every job (an hour or more against minutes); all have an attendance row in the range.

`PROJECT.json` maps every definition to its lines.

## 3. The runs

All pass unless marked. Deadlock is not checked anywhere: each instance stops when its bounds
(clock, ids, saves, failures) are used up, and the phone and the server may be idle for good.

| run | question | bounds |
|---|---|---|
| `attendance_race` | Two requests, the checkout job and failures in any interleaving: `StartIsFirst`, `LeaveHasNoWork`, `EverySessionJustified`, `TotalFromLog` | 2 handlers, 1 date, 5 clock readings, 3 ids, symmetric handlers |
| `attendance_days` | One request at a time. On a day that only its employee uses: the rows implement `DayMachine` (`ImplementsDayMachine`), Redis agrees (`RedisTellsTheDay`). On days with overrides, manual sessions and replays: `EndedTotalIsFresh`, `WorkLostOnlyWithLeave` | 6 clock readings, 4 on corrected days; 2 dates; duplicates within 1 reading |
| `visit_sync_uploads` | Saves between passes, lost messages, kills at any await, a visit and a customer that are set aside: `NothingSavedIsLost`, `CompleteComesLast`, `OnceUnlessLost`, `CustomerStaysResolvable`, and under fairness `Drains` | 1 pass at a time, 2 saves of the notes, 2 orders, 2 failures, 2 retries |
| `visit_sync_orders` (violation) | Does an order leave the queue only once it landed, when passes overlap? | 2 passes, no failures |
| `sync_queue_day` | A profile edit, a Farmer Meet of two, a plan for one of them and an action on another plan's item; the server may refuse the edit, the meet and the plan: `LeavesOnceLanded`, `CustomerComesFirst`, and under fairness every row is uploaded, set aside or given up, but for the code's two gaps (`Settles`) | 5 rows, 1 failure, 1 touch, 2 retries |
| `location_uploads` | Two uploaders, requests that outlive their client, inserts and other calls that fail, crashes, an expiring key: `InsertedOnce`, `SyncedIsStored`, and under fairness `AllUploaded` | 2 fixes, 2 uploaders, 2 requests, 2 failures |
| `auth_session` | A phone and a tab, lost answers, logout, reset, deactivation: `AlarmIsExplained`, `OnlyALoginTakesOver`, and under fairness `DeactivatedLogsOut` | 2 clients, 2 requests, 3 tokens |
| `field_work` | Every order of planning, moving, carrying over, setting back, visiting, completing and leave, two of them in flight: `LeaveStrandsNothing`, `VisitedIsNotPlanned`, `NoDuplicateFollowUp`, `WarmVisitIsFollowedUp` | 1 customer, 2 days, 3 rows, 2 requests in flight, completions apart from plans and leave |
| `reminders` | Two workers, a run that dies, a lock that fails, a stop that moves: `RemindedOnce`, `RemindedInAdvance`, `OnlyARunOvertakes` | 1 follow-up or stop, 2 days of 8 slots, 1 death |
| `daily_report` | Generations, submissions, the late check and the checkout overlap, and may fail: `DraftPastCutoffIsLate`, `SubmittedOnce`, `UnattendedEndIsSubmitted` | 2 requests (symmetric), a day and the dawn after it, 1 visit, 1 task |
| `visit_record` | Overlapping saves, reviews and photo uploads with dying workers: `LastSaveShows`, `VerdictStands`, `VetRequestStartsOver`, `PhotosAreStored` | 4 requests, 2 at a time, 1 order, 1 photo at most |
| `back_office` | People, teams, customers, zones, uploads, days that end and reports in any order: `MembersHaveATeam`, `OfferedIsAllowed`, `PresenceIsTrue`, `ReportsMatchScreens` | a manager, an employee, one to hire; 2 teams, customers, zones, requests, uploads, report jobs; 3 changes, 3 fixes |

Why the bounds are enough: each property relates at most two requests, rows or passes, so two of
each let every pair meet; one or two failures put one in every place, and a second one behind it;
retry caps of 2 reach both sides of the cap (20 in the code changes nothing but length). Eight slots
of half an hour keep the distances the reminder windows are made of (an hour, two hours, a day) and
a midnight in between. A completion meets a plan or a leave in one place only, the stop: a stop that
is deleted waits for the completion that locked its visit, and the completion writes COMPLETED
whatever the others did to the item, so the run keeps the two kinds of requests apart (`Apart`) and
the theorems do not. Three tokens are a login, its rotation, and one more that makes an old one a
reuse. Three changes of the office are enough to hire, assign and dissolve, or to change a manager
between the question and the report. Where a theorem exists, it removes the bound.

What the passing runs leave out on purpose, because the code breaks it, is always a named
parameter or a named part of the property:

* `visit_sync_uploads` has one pass at a time (`Passes`) and a user who saves while no pass runs
  (`Quiet`); `attendance_days` has one request at a time, and no transaction that fails;
* `Drains` lets a visit wait for ever behind a customer who was set aside;
* `Settles` lets a failed action on a plan's item stay where it is (`OutOfSight`), and everything
  while a refused profile edit is queued (`Starved`);
* `SyncedIsStored` excepts the fixes in `doubted`, and `InsertedOnce` those in `Expiring`;
* `LastSaveShows`, `VerdictStands`, `SubmittedOnce`, `DraftPastCutoffIsLate`, `MembersHaveATeam`,
  `PresenceIsTrue` and `NoDuplicateFollowUp` except what two overlapping requests did (`crossed`,
  `twice`, `slow`, `raced`, `blurred`, `contested`), and `RemindedOnce` a run that died (`excused`);
* `LeaveStrandsNothing` excepts what overlapping requests did and days on which a stop was set back to
  PLANNED (`overtaken`), `VisitedIsNotPlanned` the stops that were set back (`reopened`);
* `UnattendedEndIsSubmitted` excepts the days of which what was to submit the report failed (`broken`);
* `OfferedIsAllowed` excepts, of the customers of who joined a team, those whose creation overlapped the
  join or who were taken out of it (`strays`);
* `ReportsMatchScreens` says of a zone in which the day has ended that the report counts the last
  stay up to the END (`EndedIn`), which the screens do not.

The lower-case names are history variables: they constrain no step, and say exactly where the code
promises less. Section 5 says what happens otherwise.

Every property has a mutant in `PROJECT.json`: a plausible bug in a mapped definition (a dropped
guard, a lost reset, a swapped order) that makes TLC refute it.

Fairness:

* `VisitSync`: weak for the steps of a pass and for a save that began (async functions go on);
  strong for `StartPass`, since the 60 s heartbeat and the connectivity listener call `syncNow`
  each time the phone is online again, and `[]<>online`. Nothing makes messages arrive: failures
  are bounded instead.
* `SyncQueue`: weak for `StartPass` (connectivity is abstracted) and for the steps of a pass.
* `LocationPipeline`: weak for the engine's reading of the table, for an upload that began and for
  a request on the server. Nothing is assumed of the flush, which only runs at certain moments.
* `AuthSession`: weak for a request on the server, for hearing its answer and for the expiry of an
  access token; strong for a refresh of a client, which a phone in use starts whenever its access
  token is refused.
* The other modules state safety only: nothing in them makes a person act, and the scheduler's
  progress (`Tick` waits for the jobs of its slot) is part of what they model.

## 4. The theorems

| module | theorem | states |
|---|---|---|
| `AttendanceDayProofs` | `TypeCorrect` | `Spec => []TypeOK` |
| | `TotalsCountTheLog` | `Spec => []TotalFromLog` |
| | `LogIsAppendOnly` | `Spec => LogAppendOnly` |
| | `OnlyLeaveLosesWork` | `Spec => WorkLostOnlyWithLeave` |
| | `OneStart`, `LeaveExcludesWork`, `SessionsAreJustified` | `StartIsFirst`, `LeaveHasNoWork`, `EverySessionJustified`, without corrections (`Uncorrected`) |
| | `DayMachineIsImplemented`, `RedisIsRight`, `EndedTotalsAreFresh` | `ImplementsDayMachine`, `RedisTellsTheDay`, `EndedTotalIsFresh`, for one request at a time (`OneAtATime`) |
| `VisitSyncProofs` | `TypeCorrect` | `Spec => []TypeOK` |
| | `CustomersStayResolvable` | `Spec => []CustomerStaysResolvable` |
| | `SavedIsKept`, `CompleteIsLast`, `InsertedOnceUnlessLost` | `NothingSavedIsLost`, `CompleteComesLast`, `OnceUnlessLost`, for one pass at a time (`Alone`) |
| `SyncQueueProofs` | `QueueTypeCorrect` | `Spec => []TypeOK` |
| | `RowsLeaveOnceLanded` | `Spec => []LeavesOnceLanded` |
| | `CustomersComeFirst` | `Spec => []CustomerComesFirst` |
| `LocationPipelineProofs` | `PipelineTypeCorrect` | `Spec => []TypeOK` |
| | `FixesAreInsertedOnce` | `Spec => []InsertedOnce` |
| | `FixesAreNotLost` | `Spec => []SyncedIsStored` |
| `AuthSessionProofs` | `AlarmsAreExplained` | `Spec => []AlarmIsExplained` |
| | `SessionsAreTakenByLogin` | `Spec => OnlyALoginTakesOver` |
| | `SessionTypeCorrect` | `Spec => []TypeOK`, with the bound on tokens |
| `FieldProofs` | `FieldTypeCorrect` | `Spec => []TypeOK`, of `FieldWork` |
| | `LeaveAndPlansExclude` | `Spec => []LeaveStrandsNothing` |
| | `VisitedStaysVisited`, `OneFollowUp` | `Spec => []VisitedIsNotPlanned`, `Spec => []NoDuplicateFollowUp` |
| | `WarmLeadIsFollowedUp` | `Spec => WarmVisitIsFollowedUp` |
| | `RecordTypeCorrect` | `RecordSpec => []RecordTypeOK`, of `VisitRecord` |
| | `LastSaveIsShown`, `VerdictIsToldOnce` | `RecordSpec => []LastSaveShows`, `RecordSpec => []VerdictStands` |
| | `VetStartsOver`, `ShownPhotosAreStored` | `RecordSpec => []VetRequestStartsOver`, `RecordSpec => []PhotosAreStored` |
| `SchedulerProofs` | `ReportsTypeCorrect` | `ReportSpec => []ReportTypeOK`, of `DailyReport` |
| | `LateDraftsAreLate` | `ReportSpec => []DraftPastCutoffIsLate` |
| | `ReportsAreSubmittedOnce`, `NoDraftIsLeft` | `ReportSpec => []SubmittedOnce`, `ReportSpec => []UnattendedEndIsSubmitted` |
| | `RemindersTypeCorrect` | `Spec => []TypeOK`, of `Reminders` |
| | `NobodyIsRemindedTwice`, `RemindedInTime` | `Spec => []RemindedOnce`, `Spec => []RemindedInAdvance` |
| | `EscalationIsEarned` | `Spec => OnlyARunOvertakes` |
| `StaffProofs` | `NobodyIsLeftBehind`, `ListedIsAllowed` | `Spec => []MembersHaveATeam`, `Spec => []OfferedIsAllowed`, of `Reports` |
| | `ZonesTypeCorrect`, `WhoIsInsideIsTold` | `Spec => []ZonesTypeOK`, `Spec => []PresenceIsTrue`, of `Reports` |
| | `ReportsShowTheScreens` | reports of people, customers and leads show what the screens show |
| | `ReadyReportsHaveAFile` | `Spec => []ReadyHasAFile`, a conjunct of the next |
| | `ReportsMatchTheScreens` | `Spec => []ReportsMatchScreens`: readings, rows of every kind, files |
| | `StaffTypeCorrect`, `ReportsTypeCorrect` | `Spec => []StaffTypeOK`, `Spec => []ReportsTypeOK`, of `Reports` |

They hold for every value of the constants that satisfies the named assumptions of the modules
(bounds are numbers, tables and verdicts have their types, the clients are finitely many and not
none, zones are finitely many and `None` is not one of them, phones are of people, the clock of
`DailyReport` starts before it stops, an order is not one of the other things of a visit): any
number of requests, dates, passes, rows, clients, people, teams, zones, workers, failures. None of
them is more than the code has by its tables and its calendar. The exceptions that section 3 lists
are part of the properties, and so of the theorems.

**Attendance.** `TypeOK` is not inductive: a commit could extend a row that a revocation deleted.
`IInv` adds what a handler may still believe of the row it read (`Believes`: an id is given out
once, so a row with the id a handler saw is the row it saw, with a log that can only have grown),
what the locks of an uncommitted insert keep true (`Holds`: the inserted row is still missing, or
the extended one still there), and that an id in flight is nobody else's (`NewIds`). The action
properties follow from it. A second part strengthens it by `LogInv`: the shape of the log
of each row, and that a handler's decision is still backed by a session in the log (`Decided`),
which is why `EverySessionJustified` asks for an earlier session and not for the last one. Its
hypothesis `Uncorrected` excludes overrides, manual sessions and replays: an administrator may
correct a log into any shape.

**One request at a time.** With overlapping taps the code leaves the documented machine (section 5),
so `OneAtATime` says what the run says: there is one handler, and no transaction fails. What the request
read is then still so when it writes (`Knows`), no session is later than the clock, and where nobody
corrects the day Redis tells the committed state or nothing, or the one that the request is about
to commit (`Published`). A tap is thus permitted by the table for the state that is committed, and
the session it inserts is the last one, so the committed state moves as the abstract machine
does; every other step is a stutter. `[][DayUses]_vars` says which of the two kinds of
day it is: one that only its employee uses, or one with corrections.

**VisitSync.** For the customer: `setIdMapping` comes before `deletePendingFarmer`, so a pass
between the two has the mapping behind it (`HasMapped`), and no pass undoes another's mapping. The
theorem covers overlapping passes and saves during a pass, which the run does not.

**What the user saved.** This part is about the upload's steps: what a pass has posted is
what the row still holds, what was served is on the server, and the steps behind the pass are
cleared (`Keeps`); what is saved is in the row or on the server (`Stored`); a completed visit has
everything (`Whole`). Its hypothesis `Alone` is the run's: one pass is alive at a time and the user
saves while none is. With two passes, or with a save in the middle of one, the code promises less:
see `visit_sync_orders` and `sync_engine.dart:514` in section 5.

**SyncQueue.** A pass carries payloads of rows that were saved (so their version is not 0); an
answer `ok` means the server has the whole batch; a customer is mapped only by such an answer; a
row is posted only when its customer is mapped, and mappings and the server only grow
(`Monotonic`). `TypeOK` bounds the retry counts and is not inductive: what waits
has an attempt left, counting those the user asked for (`Fit`), and what a pass has read and not
yet posted is pending unless the user deleted it (`Awake`), so that a failure never counts past the
cap.

**LocationPipeline.** A request owns the keys it claimed: no other request claimed them, and they
are not stored unless the request stored them; a fix that is stored and may not expire has its key
(`Keyed`). Release gives back owned keys only, and only of an insert that failed; a request that breaks
off gives back none, so it cannot make an insert happen twice. For the second
theorem: a key that is not in doubt is of a fix that is stored or that a request holds, since a request
that breaks off or dies puts in doubt what it has claimed and not stored (`Orphans`); what an
uploader waits for is stored, held, still to be claimed or in doubt; and an uploader has one
request. The type invariant needs that whoever waits is served by a request (`Heard`), and that
there is a newest fix in what a request has stored (`Announced`): the live position is chosen from
it, which takes well-foundedness since the fixes may be infinitely many.

**AuthSession.** A refresh that rotates had read its own token as the current one (`Numbered`). For
the alarm: a client has one request at a time (`OneEach`), and the session is the newest token or
none. So as long as a jar has one client, no answer is lost and nobody else logs in (`Clean`), the
token this client presents is the newest one, or the newest is on its way to the jar
(`JarOK`, `Coming`) and the client waits for it; what it reads in Redis is that token or none. A
token below the one that is read is therefore shared, lost or overtaken by another jar's. `TypeOK`
bounds the tokens and is not inductive: a request begins when there is room for one token more than
those in flight may get (`Room`), and `Bounded` says that this stays so. It counts two sets: the
requests that will issue a token (`Musts`), and, while the account is active, those that will unless
another comes first (`Mays`). A step moves one request, so each count changes by one at most.

**Staff.** A deletion of a team in flight has loaded every member of it, or the member's assignment
overlapped it; an assignment in flight is to an active team, or its team's deletion overlapped it.
For the lists: each scope is contained in what its access checks let pass, from the definitions;
what needs the invariant is that whoever joined a team through its page has a team, as have the
customers he created and those that he is about to create, but for `strays` (`Placed`); between the
UPDATE and the COMMIT of a join the customers it has found may be without one, and nobody else
touches them, since their rows are locked (`Joiner`). The theorems are about `Reports`'
specification, so they hold with zones, uploads and reports in flight.

**Zones.** The zones that list a person as inside are those whose last event of his is an ENTER.
`PresenceIsKnown` says of everybody who is not `blurred` that they are those that concern him and
cover the position his last checked upload was compared with, and that an upload in work has read
the position before it, and stored the one after it, as they are. Checking an upload appends one
event per zone that differs; the lemmas on `CurrentlyInside` say what appended events do to the
last event of each zone.

**The readings of the events.** Two reports sum the minutes of a zone in one pass over the events
(`FoldLeft`), the two pages sum them stay by stay (`FoldSet`), and the notice of an EXIT subtracts
two times. What a fold computes takes an induction over data, and the library's theorems for that
cannot be instantiated; but a fold of this library is a recursive function over the subsets of a
finite set, and of the subsets where it differs from another function there would be a smallest. The
minutes are the number of times that some stay covers (`Covered`, a set): `StepByStep` shows, by
that smallest subset, that a function which takes the fold's step on each element is the fold,
`TallyStep` that counting those sets takes the step of `Pair`, and `OneMoreStay` that it takes the
step of `Minutes`, since the stays of a zone do not overlap (`Follow`). So both are the cardinality
of one set (`PairedIs`, `MinutesAre`), whatever order the set's fold chooses, and `ReadingsOf`
compares the readings. What the report adds is the stay that is still open: a zone has one if its
last event is an ENTER (`OpenTells`), and the END closes it there (`DurationsAre`).

**Reports.** A report in work whose owner's screens stand still (`still`) was asked for by somebody
who may ask for it, has read members that are in the team - for compliance, those that are active -
and once built has the rows of the screen (`Faithful`); a key says READY only after the file was
stored (`Filed`). `ReportsShowTheScreens` says of the kinds without zones that the rows are equal;
`ReportsMatchTheScreens` says of every kind what the run says, the zone lines compared through the
readings above. For the types: a report in work is its owner's and is of one of the kinds, a
customer's of a customer (`Owned`), so what `Build` lists is of people, customers and zones there
are.

**Field work.** The check-then-act between plans and leave is in `Checked`: a planning request in
flight has found no leave on its day, a leave request no planned stop, and this is still so on
every day that was not `overtaken`. The one between completions is in `Looked`: a completion that found
no follow-up that it would repeat still has none but those it closes, unless two were after the same
one (`contested`): whoever adds one in between is a completion for the same customer and day. The
other invariants are inductive with these two once a visit's stop is a row of the table (`Referenced`).

**A visit's record.** A request that is alone with a thing - the notes, an order, the photos - still
sees what it has read of it. `Alone` says that there is one such request for each thing that is not
in `crossed`; then one invariant for each thing says what that request has read and how far it has
come (`NotesAreOneRow`, `FarmerIsNewest`, `VetIsSeen`, `ReviewFollowed`, `KeysKept`, `Counted`).
That of the photos has no exception for overlapping requests, since a key belongs to one upload: the
row names an object that is stored, whoever dies.

**The daily report.** A submission in flight has a report, still a draft unless two of them
overlapped (`SubmissionsHaveDrafts`); a promise to submit is taken away by its fulfilment or by a
failure that `broken` notes (`PromisesKept`); the closing job knows its day (`ClosingKnows`); and a
draft past its cutoff is late since the late check does not let the clock go on before it has run.

**Reminders.** A row that a job pushed is flagged, or held by a run that has pushed it and will flag
it, or that died (`PushedIsFlagged`, `FlagsTellTheTruth`, `HeldOnce`). For `RemindedInAdvance` the
window of the hourly job is two slots wide, so every time has two chances: `Chance` says that after
the first slot of the window the row is told, or used up, or one run has died, or a run that will
tell it is in flight; and after the second that a second run would have had to die. The arithmetic
is in the lemmas about slots of a day, for any length of the day over two hours.

Only model-checked:

* liveness (`Drains`, `Settles`, `AllUploaded`, `DeactivatedLogsOut`): fairness and ENABLED are out of
  the prover's reach;
* that two passes may lose an order (`visit_sync_orders`): a violation is a behaviour, found by TLC.

## 5. Where code and documentation disagree

One run shows it:

* `visit_sync_orders`: `removeSyncedVisitOrders` drops the first N of the list as it is by then; of
  two overlapping passes the second removes an order that nobody posted (`sync_engine.dart:561`
  against 551; the overlap is possible by line 161 against 32-34).

Met while modelling, most of them reproduced with the same modules under other constants or a
property of their own, and not kept as runs:

* Attendance: a START that loses the race on the unique index is answered 500, not 409
  (`attendance_service.py:281`, flush outside the try of 254). Two taps that read the same state
  leave the documented machine (205). A tap that read the open day before the automatic checkout
  commits after it and reopens it (340). Overlapping replays insert near-duplicates
  (`sync_service.py:76`). The total that a replay stores leaves the replayed sessions out, since
  `get_by_id` returns the identity-mapped row whose sessions were loaded before the insert
  (`sync_service.py:103-105` against 19). A manual correction of another day overwrites today's
  Redis key (593). A leave that an administrator overrides to PRESENT leaves a row without sessions
  that makes every START fail (543); work that is added to such a row while a revocation that saw it as
  leave is in flight is deleted with it (465). BREAK and END are accepted after RE_CHECKIN (65);
  `tests/test_core_logic.py:59-61` asserts that they are not.
* Visit upload: a save made while its column is in flight is cleared with it
  (`database_helper.dart:967` against 937-938; `sync_engine.dart:514`). A livestock profile is
  appended again when its response was lost (`visit_service.py:332` against
  `visit_repository.dart:37-38`), and so is a lead (487). A customer whose retries are used up is set
  aside, and his visit then waits for ever without a word to the user: it is neither counted nor set
  aside itself (`sync_engine.dart:431`, `database_helper.dart:663-679`).
* Queue: a profile edit that is refused with 409 ends every pass before anything else is posted
  (`sync_engine.dart:694` against 39-40). `requeueFailedPlanItemActions` has no caller, so a plan
  action that failed once never runs again (`database_helper.dart:1288`). A customer's edit made
  while the row is in flight is deleted with it (`sync_engine.dart:336` against
  `farmer_repository.dart:536-538`). An older queued profile overwrites a newer one saved online
  (`auth_repository.dart:155`). A change whose answer was lost can be set aside and discarded
  although the server has it (`needs_attention_repository.dart:157`). A visit whose customer was
  discarded waits for ever (`sync_engine.dart:431` against 467-468).
* Location: a fix whose key another request has only claimed is answered as skipped and marked as
  synced; when that other insert fails, the fix is nowhere (`location_service.py:180` against
  `sync_engine.dart:47-49`). Only the insert is inside the `try` that releases the keys (205-219): a
  request that fails in a later claim (174), in `latest_for_user` (202), or in the release itself
  (218), or whose worker dies, keeps its keys for 6 h, and the phone's retry is answered as skipped
  (against 209-212, "we must release them"). The live position can go back in time (251 against
  13-14). A phone that retries after more than 6 h inserts twice (129 against 6-10).
* Sessions: of two refreshes with one token both may rotate, and a refresh that had read the
  fingerprint before a logout stores a new one after it (`auth_service.py:116`):
  `OnlyALoginTakesOver` says which. A lost answer makes the phone's next refresh look like theft
  (119). `employee_service.py` deletes the fingerprint before it commits the deactivation, so a
  login between the two survives it until the next refresh.
* Plans and visits: a carry-over repeated after a lost response plans the visit twice, having no
  guard on the item's status (`visit_plan_service.py:444`). A plan that is saved again deletes the
  stops that were visited and inserts them anew as PLANNED, and their visits lose their stop (214;
  SET NULL, `crm.py:180`). The API lets a stop be set back to PLANNED, whatever its visit is and
  whether or not its day is leave (254; `schemas/crm.py:544-545`; the app itself never sends
  PLANNED). A check-in takes the plan item it is told, of whichever customer
  (`visit_service.py:222-225`). Two visits to one customer that are completed at once both find no
  follow-up and both add one (516-529 against 586); of two completions of the same visit the second
  waits for the row that the first has flushed, and finds it. An overdue follow-up is not in today's
  plan, where a comment has it "re-appear ... forever" (`visit_service.py:496-499`). A manager who
  completes a visit gets its follow-up and lead himself. `upload_profile_photo` deletes the old
  object before the new one is stored; `notes_for` takes one row without an order, and nothing makes
  it the only one; the docstring of `upsert_org_answers` says that Q5 "creates a REAL visit_orders
  row", which it does not (`visit_service.py:430`); check-ins are documented to warn at 200 m (6)
  and warn at 100 (72).
* Daily reports: what generates and submits after an END without a summary, or after the automatic
  checkout, may fail or die behind the COMMIT of the DRAFT (`dsr_service.py:343`); the error is only
  logged (`scheduler.py:490`) and nobody tries again, so the day keeps a DRAFT, although the same
  session does both "so there's no gap where a client could observe a DRAFT that never gets
  submitted" (`dsr_service.py:131-133`). Two submissions at once both see DRAFT and both notify
  (371), as do two reviews of an order (`order_service.py:81`).
* Reminders and reports: a stop that is moved after its reminder is not reminded of again; the
  first slots of a day are not reminded of an hour ahead. An escalation overtakes an
  acknowledgement that came after its query (`scheduler.py:435`). The late check and `_today_utc`
  differ from the business date between midnight and 5:30.
* Scopes: the employee list is documented as a keyset page by id but is ordered by name, with the id
  as cursor, so that pages skip and repeat; its comment says "never other managers" but it leaves
  out only the one who asks. A manager without a `team_id` of his own, as the admin API makes them
  (`dsr_service.py:503-511`), has an empty visit summary, export and vet list, and universal zones
  only; a vet update of an employee without a team passes for him all the same. Setting `team_id` in
  an employee update does not bring his customers along as adding him on the team's page does; an
  employee who joins a team no longer sees customers he created elsewhere, and one whom he was
  creating while an administrator added him stays without a team: the UPDATE does not find it
  (`team_service.py:260` against 272, "Attach any previously unassigned farmers", 258). A manager
  can view the customers of his own `team_id`, but not export them. Managers who were demoted or
  deactivated are still told of reports (`_manager_for`).
* Zones: `_zone_durations` lists zones that were only left ("every zone the employee actually
  entered"). The reports of zones count a stay that was open when the day ended up to the END
  (`report_service.py:573-574`, 986-987, 1389-1392); the pages, the compliance report and the EXIT
  that may still come do not, or count it longer. A late batch is compared with a later position
  ("the user's actual prior ping"). New coordinates leave a circle's centre and radius as they were.
  No EXIT is written when a zone is deleted or rescoped, or when a person changes his team.
* Reports: a report is authorised when it is asked for, and shows what its scope has become when it
  is built; a compliance report lists who was active when its members were read, whoever was deactivated
  before its rows were. A worker that dies leaves PROCESSING until the key expires; the retention may
  prune the object shortly before the key ("a stale status never points at a deleted object").

## 6. Plan

Done: the attendance day with its abstract machine, the upload of visits, the queue, the location
pipeline, sessions of users, field work composed with leave, the record of a visit, reminders and
their scheduler, the daily report, and people, teams and customers composed with geofences and
reports. Every safety invariant and action property of a passing run is a theorem, and so is every type
invariant.

Next, in this order:

1. A server for `VisitSync` out of `VisitRecord` and `FieldWork`: an abstract idempotent step, which
   check-in and orders implement and livestock and leads do not.
2. The device registry and the GPS configuration's cache, as modules of their own.
3. The upload with two passes (`VisitSync` without `Alone`): what is still true of what the user
   saved once a save in the middle of a pass, and the orders of `visit_sync_orders`, are excepted by
   history variables as elsewhere.

## 7. Not modelled

* Notifications and devices: best effort after the transaction; what the rest rests on is only that
  they never fail a request. Where their order matters (reminders, verdicts, late reports) they are in
  the module that sends them.
* GPS configuration: one row per team behind a cache.
* Live updates (WebSocket): pushes what Redis holds; no state but connections.
* Data retention: SQL statements; the retention of report files is in `Reports`.
* Villages: a read-only register and a text search.
* Mobile screens and providers, the admin web application: rendering. The repositories that write
  the queue, and both clients' handling of tokens, are modelled.
* Configuration, storage, telemetry, seed data, schemas, migrations, scripts: I/O and declarations;
  the constraints the properties rest on (UNIQUE indexes, cascades) are part of the modules.
* Outside this code: PostGIS geometry, GPS filtering, Firebase, the platform's background execution.
* Inside modelled components: distances and positions, search, the figures in reports, the OTP and
  the login rate limit, permissions of administrators (who see everything).

`PROJECT.json` gives the reason for each.
