------------------------------ MODULE DailyReport ------------------------------
(***************************************************************************)
(* The daily sales report of one employee, and the jobs that close a day   *)
(* (app/services/dsr_service.py, app/api/v1/daily_reports.py, /end of      *)
(* api/v1/attendance.py, auto_checkout_job and late_dsr_check_job of       *)
(* core/scheduler.py, auto_checkout of attendance_service.py).             *)
(*                                                                         *)
(* A report is of a business day, an attendance row of a UTC day, which    *)
(* begins 5:30 later.  A business day has four parts: DAWN, when the UTC   *)
(* date is still yesterday's, MORNING, until check-in closes at noon,      *)
(* AFTERNOON, and EVENING from 19:30 on.  A generation reads the day and   *)
(* the clock and writes the report later, a submission reads the report's  *)
(* status and writes later: requests, background tasks and the job at      *)
(* 23:59:59 overlap.  Any of them may fail, or die with the worker, before *)
(* it writes; nobody tries again.                                          *)
(***************************************************************************)
EXTENDS Naturals, FiniteSets, TLC

CONSTANTS
    Requests,    \* generations and submissions in flight
    LastDay, LastPart, \* the last day, and its last part
    MaxVisits,   \* visits of a day
    MaxTasks     \* background tasks that wait

ASSUME DailyReportAssumption ==
    /\ LastDay \in Nat \ {0} /\ LastPart \in 1..4 /\ {MaxVisits, MaxTasks} \subseteq Nat
    /\ LastDay = 1 => LastPart > 1 \* the clock starts in the morning of day 1

VARIABLES
    day, part,   \* the business clock
    attendance,  \* the row of each UTC day: its state
    visits,      \* visits of each day that are completed
    report,      \* daily_reports
    tasks,       \* background tasks of the ENDs
    op,          \* each request in flight
    closing,     \* auto_checkout_job: the UTC day it closes, and the report's day
    closed,      \* UTC days whose job has begun
    checked,     \* days of which late_dsr_check_job has run
    twice,       \* reports two submissions of which overlapped
    unattended,  \* days of an END that promises a submission
    broken,      \* days for which one that was to submit failed since that END
    slow         \* reports first written after the late check, but with a clock out of it

ghosts == <<twice, slow, unattended, broken>>
jobs == <<closing, closed, checked>>
reportVars == <<day, part, attendance, visits, report, tasks, op, jobs, ghosts>>

-----------------------------------------------------------------------------
Days == 1..LastDay
UtcDays == 0..LastDay
Parts == <<"DAWN", "MORNING", "AFTERNOON", "EVENING">>
Utc == IF part = 1 THEN day - 1 ELSE day
LateNow == part = 4                 \* _is_late_now

NoReport == [status |-> "MISSING"]
Report == [status : {"DRAFT", "SUBMITTED"}, late : BOOLEAN,
           visits : 0..MaxVisits, told : 0..2]
Task == [of : UtcDays, day : Days, submit : BOOLEAN]
Generation == [kind : {"GENERATE"}, day : Days, visits : 0..MaxVisits, late : BOOLEAN,
               submit : BOOLEAN]
Submission == [kind : {"SUBMIT"}, day : Days, submit : BOOLEAN] \* for an END, or by hand
FreeRequest == [kind |-> "IDLE"]
NoJob == [of |-> 0, day |-> 0, stage |-> "NONE"]

ReportTypeOK ==
    /\ day \in Days /\ part \in DOMAIN Parts
    /\ attendance \in [UtcDays -> {"NONE", "OPEN", "ENDED"}]
    /\ visits \in [Days -> 0..MaxVisits]
    /\ report \in [Days -> Report \cup {NoReport}]
    /\ tasks \subseteq Task /\ Cardinality(tasks) <= MaxTasks
    /\ op \in [Requests -> Generation \cup Submission \cup {FreeRequest}]
    /\ closing \in [of : UtcDays, day : 0..LastDay, stage : {"NONE", "DATE", "END"}]
    /\ closed \cup checked \cup twice \cup slow \cup unattended \cup broken \subseteq Days

ReportInit ==
    /\ day = 1 /\ part = 2
    /\ attendance = [u \in UtcDays |-> "NONE"]
    /\ visits = [d \in Days |-> 0]
    /\ report = [d \in Days |-> NoReport]
    /\ tasks = {} /\ op = [r \in Requests |-> FreeRequest]
    /\ closing = NoJob /\ closed = {} /\ checked = {}
    /\ twice = {} /\ slow = {} /\ unattended = {} /\ broken = {}

Generated(d) == report[d] # NoReport
InFlight(kind, d) == {r \in Requests : op[r] # FreeRequest /\ op[r].kind = kind /\ op[r].day = d}

-----------------------------------------------------------------------------
(* The employee's day                                                       *)

\* START makes the row, RE_CHECKIN opens it again; both close at noon.
CheckIn ==
    /\ part < 3 /\ attendance[Utc] \in {"NONE", "ENDED"}
    /\ attendance' = [attendance EXCEPT ![Utc] = "OPEN"]
    /\ UNCHANGED <<day, part, visits, report, tasks, op, jobs, ghosts>>

\* The report is of the business day of the END.  Without a work summary it is
\* the END of a logout, and the report is submitted too.
End(submit) ==
    /\ attendance[Utc] = "OPEN"
    /\ Cardinality(tasks) < MaxTasks
    /\ attendance' = [attendance EXCEPT ![Utc] = "ENDED"]
    /\ tasks' = tasks \cup {[of |-> Utc, day |-> day, submit |-> submit]}
    /\ unattended' = IF submit THEN unattended \cup {day} ELSE unattended
    /\ broken' = IF submit THEN broken \ {day} ELSE broken
    /\ UNCHANGED <<day, part, visits, report, op, jobs, twice, slow>>

CompleteVisit ==
    /\ visits[day] < MaxVisits
    /\ visits' = [visits EXCEPT ![day] = @ + 1]
    /\ UNCHANGED <<day, part, attendance, report, tasks, op, jobs, ghosts>>

-----------------------------------------------------------------------------
(* Generation: _generate_in_session                                         *)

\* A day without an attendance row is reported too.
Read(r, d, submit) ==
    /\ op[r] = FreeRequest
    /\ op' = [op EXCEPT ![r] =
                [kind |-> "GENERATE", day |-> d, visits |-> visits[d], late |-> LateNow,
                 submit |-> submit]]

RunTask(r) ==
    /\ \E t \in tasks : /\ Read(r, t.day, t.submit)
                        /\ tasks' = tasks \ {t}
    /\ UNCHANGED <<day, part, attendance, visits, report, jobs, ghosts>>

\* "Today's Summary" is opened, of today or an earlier day, and makes the
\* report it does not find.
OpenSummary(r, d) ==
    /\ d <= day /\ ~Generated(d)
    /\ Read(r, d, FALSE)
    /\ UNCHANGED <<day, part, attendance, visits, report, tasks, jobs, ghosts>>

New(g) == [status |-> "DRAFT", late |-> g.late, visits |-> g.visits, told |-> 0]

\* Mutants: an upsert that sets the status; one that takes lateness from the
\* new row.
DraftAgain(g) == IF Generated(g.day) THEN [New(g) EXCEPT !.told = report[g.day].told] ELSE New(g)
LateAnew(g) == IF Generated(g.day) THEN [report[g.day] EXCEPT !.visits = g.visits, !.late = g.late]
               ELSE New(g)

\* INSERT ... ON CONFLICT DO UPDATE: status and submitted_at are not in its
\* set_, and a late report stays late.
Upserted(g) ==
    IF Generated(g.day)
    THEN [report[g.day] EXCEPT !.visits = g.visits, !.late = @ \/ g.late]
    ELSE New(g)

\* Mutant: an END of a logout is like any other.
DropSubmission(r) ==
    /\ op[r].kind = "GENERATE"
    /\ report' = [report EXCEPT ![op[r].day] = Upserted(op[r])]
    /\ op' = [op EXCEPT ![r] = FreeRequest]
    /\ UNCHANGED <<day, part, attendance, visits, tasks, jobs, ghosts>>

\* Generate and submit: the report is committed, the submission follows in the
\* same session.
Upsert(r) ==
    /\ op[r].kind = "GENERATE"
    /\ report' = [report EXCEPT ![op[r].day] = Upserted(op[r])]
    /\ LET next == op[r].submit /\ report'[op[r].day].status = "DRAFT" IN
       /\ op' = [op EXCEPT ![r] = IF next THEN [kind |-> "SUBMIT", day |-> op[r].day, submit |-> TRUE]
                                          ELSE FreeRequest]
       /\ twice' = IF next /\ InFlight("SUBMIT", op[r].day) # {}
                   THEN twice \cup {op[r].day} ELSE twice
    /\ slow' = IF ~op[r].late /\ op[r].day \in checked /\ ~Generated(op[r].day)
               THEN slow \cup {op[r].day} ELSE slow
    /\ UNCHANGED <<day, part, attendance, visits, tasks, jobs, unattended, broken>>

-----------------------------------------------------------------------------
(* Submission: submit_dsr                                                   *)

Submit(r, d) ==
    /\ op[r] = FreeRequest /\ Generated(d) /\ report[d].status = "DRAFT"
    /\ op' = [op EXCEPT ![r] = [kind |-> "SUBMIT", day |-> d, submit |-> FALSE]]
    /\ twice' = IF InFlight("SUBMIT", d) # {} THEN twice \cup {d} ELSE twice
    /\ UNCHANGED <<day, part, attendance, visits, report, tasks, jobs, slow, unattended, broken>>

\* The managers are told in the same transaction.
Submitted(row) == [row EXCEPT !.status = "SUBMITTED", !.late = @ \/ LateNow,
                              !.told = IF @ < 2 THEN @ + 1 ELSE 2]

FinishSubmit(r) ==
    /\ op[r].kind = "SUBMIT"
    /\ report' = [report EXCEPT ![op[r].day] = Submitted(@)]
    /\ op' = [op EXCEPT ![r] = FreeRequest]
    /\ UNCHANGED <<day, part, attendance, visits, tasks, jobs, ghosts>>

-----------------------------------------------------------------------------
(* Failure: an error is only logged                                         *)

Promised(t) == {d \in {t.day} : t.submit}

\* Before its COMMIT; a submission, after that of the generation it follows.
FailRequest(r) ==
    /\ op[r] # FreeRequest
    /\ op' = [op EXCEPT ![r] = FreeRequest]
    /\ broken' = broken \cup Promised(op[r])
    /\ UNCHANGED <<day, part, attendance, visits, report, tasks, jobs, twice, slow, unattended>>

\* The worker dies with a task that has not begun.
LoseTask ==
    /\ \E t \in tasks : /\ tasks' = tasks \ {t}
                        /\ broken' = broken \cup Promised(t)
    /\ UNCHANGED <<day, part, attendance, visits, report, op, jobs, twice, slow, unattended>>

-----------------------------------------------------------------------------
(* The jobs                                                                 *)

\* 19:30: drafts of today are late.
LateCheck ==
    /\ part = 4 /\ day \notin checked
    /\ checked' = checked \cup {day}
    /\ report' = IF Generated(day) /\ report[day].status = "DRAFT"
                 THEN [report EXCEPT ![day].late = TRUE] ELSE report
    /\ UNCHANGED <<day, part, attendance, visits, tasks, op, closing, closed, ghosts>>

\* 23:59:59: whoever's last session is no END.
BeginClosing ==
    /\ part = 4 /\ day \in checked \ closed
    /\ closed' = closed \cup {day}
    /\ closing' = IF attendance[day] = "OPEN"
                  THEN [of |-> day, day |-> 0, stage |-> "DATE"] ELSE closing
    /\ UNCHANGED <<day, part, attendance, visits, report, tasks, op, checked, ghosts>>

\* business_today() after the query: midnight may have passed.
DateClosing ==
    /\ closing.stage = "DATE"
    /\ closing' = [closing EXCEPT !.day = day, !.stage = "END"]
    /\ UNCHANGED <<day, part, attendance, visits, report, tasks, op, closed, checked, ghosts>>

\* auto_checkout: a row that has ended meanwhile is left alone.
EndClosing ==
    /\ closing.stage = "END" /\ Cardinality(tasks) < MaxTasks
    /\ IF attendance[closing.of] = "OPEN"
       THEN /\ attendance' = [attendance EXCEPT ![closing.of] = "ENDED"]
            /\ tasks' = tasks \cup {[of |-> closing.of, day |-> closing.day, submit |-> TRUE]}
            /\ unattended' = unattended \cup {closing.day} /\ broken' = broken \ {closing.day}
       ELSE UNCHANGED <<attendance, tasks, unattended, broken>>
    /\ closing' = NoJob
    /\ UNCHANGED <<day, part, visits, report, op, closed, checked, twice, slow>>

\* Past midnight only when the day's jobs have fired.  The job at 23:59:59
\* takes seconds; a request, less than the night.
Clock ==
    /\ ~(day = LastDay /\ part = LastPart)
    /\ IF part < 4 THEN day' = day /\ part' = part + 1
       ELSE day \in closed /\ day' = day + 1 /\ part' = 1
    /\ part = 1 => closing = NoJob
    /\ part = 2 => op = [r \in Requests |-> FreeRequest] /\ tasks = {}
    /\ UNCHANGED <<attendance, visits, report, tasks, op, jobs, ghosts>>

-----------------------------------------------------------------------------
Employee == CheckIn \/ CompleteVisit \/ \E submit \in BOOLEAN : End(submit)
Ask == \E r \in Requests, d \in Days : OpenSummary(r, d) \/ Submit(r, d)
Serve == LoseTask \/ \E r \in Requests : RunTask(r) \/ Upsert(r) \/ FinishSubmit(r) \/ FailRequest(r)
EveningJobs == LateCheck \/ BeginClosing \/ DateClosing \/ EndClosing
ReportNext == Employee \/ Ask \/ Serve \/ EveningJobs \/ Clock

ReportSpec == ReportInit /\ [][ReportNext]_reportVars

Symmetry == Permutations(Requests)

-----------------------------------------------------------------------------
(* Properties                                                               *)

\* A draft is late once its day's check has run, and stays late whatever is
\* generated later, unless a generation that had read another clock wrote it
\* first only then (_is_late_now, mark_late_reports).
DraftPastCutoffIsLate ==
    \A d \in checked \ slow :
       (Generated(d) /\ report[d].status = "DRAFT") => report[d].late

\* A report is submitted for good, and the managers are told of it once,
\* unless two submissions overlapped: whatever generations come later (a
\* second END, an auto-checkout).
SubmittedOnce ==
    \A d \in Days : (Generated(d) /\ d \notin twice) =>
       report[d].told = (IF report[d].status = "SUBMITTED" THEN 1 ELSE 0)

\* The END of a logout and the auto-checkout leave a report that is submitted,
\* or a task or request in flight that will submit it, unless what was to do so
\* failed: nothing else that is generated or submitted meanwhile takes the
\* promise away ("no gap where a client could observe a DRAFT that never gets
\* submitted", which a failure after the report's COMMIT does leave).
UnattendedEndIsSubmitted ==
    \A d \in unattended \ broken :
       \/ \E t \in tasks : t.day = d /\ t.submit
       \/ \E r \in Requests : op[r] # FreeRequest /\ op[r].day = d /\ op[r].submit
       \/ Generated(d) /\ report[d].status = "SUBMITTED"

===============================================================================
