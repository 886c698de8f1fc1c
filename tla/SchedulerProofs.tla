---------------------------- MODULE SchedulerProofs ----------------------------
(***************************************************************************)
(* Proofs about what the scheduler's jobs and the requests do to the same  *)
(* rows: the daily report (DailyReport), for any number of requests, days  *)
(* and tasks, and the reminders (Reminders), for any number of workers and *)
(* rows and any schedule.                                                  *)
(***************************************************************************)
EXTENDS DailyReport, Reminders, FiniteSetTheorems, TLAPS

-----------------------------------------------------------------------------
(* The daily report: what keeps the properties                              *)

\* A submission in flight has a report, and one that no other overlapped
\* still finds it a draft.
SubmissionsHaveDrafts ==
    /\ \A d \in Days : InFlight("SUBMIT", d) # {} => Generated(d)
    /\ \A d \in Days \ twice :
          /\ InFlight("SUBMIT", d) # {} => report[d].status = "DRAFT"
          /\ \A r, s \in InFlight("SUBMIT", d) : r = s

\* A request that is to submit the report of day d.
Owes(r, d) == op[r] # FreeRequest /\ op[r].day = d /\ op[r].submit

\* The job at 23:59:59 knows the day that it closes.
ClosingKnows ==
    /\ closing.stage # "NONE" => closing.of \in Days
    /\ closing.stage = "END" => closing.day \in Days

\* The clock stops in the last part of the last day.
ClockStops == day = LastDay => part <= LastPart

ReportInv ==
    /\ ReportTypeOK /\ IsFiniteSet(tasks)
    /\ ClosingKnows /\ ClockStops
    /\ SubmissionsHaveDrafts
    /\ DraftPastCutoffIsLate /\ SubmittedOnce /\ UnattendedEndIsSubmitted

LEMMA Numbers ==
    /\ LastDay \in Nat /\ LastDay > 0 /\ MaxVisits \in Nat /\ MaxTasks \in Nat
    /\ Days = 1..LastDay /\ UtcDays = 0..LastDay /\ Days \subseteq UtcDays
    /\ LastPart \in {1, 2, 3, 4} /\ (LastDay = 1 => LastPart > 1)
  BY DailyReportAssumption DEF Days, UtcDays

LEMMA ClockType ==
    ASSUME ReportTypeOK
    PROVE  /\ day \in Days /\ day \in Nat /\ part \in {1, 2, 3, 4} /\ Utc \in UtcDays
           /\ LateNow \in BOOLEAN /\ (part = 4 => Utc = day)
  BY Numbers DEF ReportTypeOK, Parts, Utc, LateNow

LEMMA KindOfOp ==
    ASSUME ReportTypeOK, NEW r \in Requests
    PROVE  /\ op[r] = FreeRequest <=> op[r].kind = "IDLE"
           /\ op[r].kind = "GENERATE" => op[r] \in Generation
           /\ op[r].kind = "SUBMIT" => op[r] \in Submission
           /\ op[r].kind \in {"IDLE", "GENERATE", "SUBMIT"}
  <1>1. op[r] \in Generation \cup Submission \cup {FreeRequest}
    BY DEF ReportTypeOK
  <1>2. CASE op[r] = FreeRequest
    BY <1>2 DEF FreeRequest
  <1>3. CASE op[r] \in Generation
    BY <1>3 DEF FreeRequest, Generation
  <1>4. CASE op[r] \in Submission
    BY <1>4 DEF FreeRequest, Submission
  <1> QED BY <1>1, <1>2, <1>3, <1>4

LEMMA ReportOfDay ==
    ASSUME ReportTypeOK, NEW d \in Days
    PROVE  /\ Generated(d) => report[d] \in Report
           /\ report[d].status = "MISSING" <=> ~Generated(d)
           /\ report[d].status \in {"MISSING", "DRAFT", "SUBMITTED"}
  <1>1. report[d] \in Report \cup {NoReport}
    BY DEF ReportTypeOK
  <1> QED BY <1>1 DEF Generated, Report, NoReport

LEMMA ReportInitially == ReportInit => ReportInv
  <1> SUFFICES ASSUME ReportInit PROVE ReportInv
    OBVIOUS
  <1>1. IsFiniteSet(tasks) /\ Cardinality(tasks) = 0
    BY FS_EmptySet DEF ReportInit
  <1>2. closing \in [of : UtcDays, day : 0..LastDay, stage : {"NONE", "DATE", "END"}]
    BY Numbers DEF ReportInit, NoJob
  <1>3. ReportTypeOK
    BY <1>1, <1>2, Numbers DEF ReportInit, ReportTypeOK, Parts
  <1>4. ClosingKnows /\ ClockStops
    BY Numbers DEF ReportInit, ClosingKnows, ClockStops, NoJob
  <1>5. \A d \in Days : InFlight("SUBMIT", d) = {} /\ ~Generated(d)
    BY DEF ReportInit, InFlight, Generated
  <1>6. SubmissionsHaveDrafts /\ DraftPastCutoffIsLate /\ SubmittedOnce /\ UnattendedEndIsSubmitted
    BY <1>5 DEF ReportInit, SubmissionsHaveDrafts, DraftPastCutoffIsLate, SubmittedOnce,
                UnattendedEndIsSubmitted
  <1> QED BY <1>1, <1>3, <1>4, <1>6 DEF ReportInv

\* Neither a report nor a request changes.
LEMMA ReportsUntouched ==
    ASSUME SubmissionsHaveDrafts, DraftPastCutoffIsLate, SubmittedOnce,
           UNCHANGED <<report, op, checked, slow, twice>>
    PROVE  SubmissionsHaveDrafts' /\ DraftPastCutoffIsLate' /\ SubmittedOnce'
  BY DEF SubmissionsHaveDrafts, DraftPastCutoffIsLate, SubmittedOnce, InFlight, Generated

\* A new promise to submit has its task.
LEMMA PromisesKept ==
    ASSUME UnattendedEndIsSubmitted, UNCHANGED <<report, op>>, tasks \subseteq tasks',
           \A d \in (unattended' \ broken') \ (unattended \ broken) :
              \E t \in tasks' : t.day = d /\ t.submit
    PROVE  UnattendedEndIsSubmitted'
  BY DEF UnattendedEndIsSubmitted, Generated

LEMMA TaskAdded ==
    ASSUME ReportTypeOK, IsFiniteSet(tasks), Cardinality(tasks) < MaxTasks, NEW t \in Task,
           tasks' = tasks \cup {t}
    PROVE  tasks' \subseteq Task /\ IsFiniteSet(tasks') /\ Cardinality(tasks') <= MaxTasks
  <1>1. /\ IsFiniteSet(tasks \cup {t}) /\ Cardinality(tasks) \in Nat
        /\ Cardinality(tasks \cup {t}) = IF t \in tasks THEN Cardinality(tasks) ELSE Cardinality(tasks) + 1
    BY FS_AddElement, FS_CardinalityType
  <1>2. Cardinality(tasks \cup {t}) <= MaxTasks
    BY <1>1, Numbers
  <1> QED BY <1>1, <1>2 DEF ReportTypeOK

LEMMA ClockStays == ClockStops /\ UNCHANGED <<day, part>> => ClockStops'
  BY DEF ClockStops

-----------------------------------------------------------------------------
(* The employee's day and the jobs                                          *)

LEMMA EmployeeStep == ASSUME ReportInv, Employee PROVE ReportInv'
  <1> USE DEF ReportInv
  <1>1. CASE CheckIn
    <2>1. ReportTypeOK'
      BY <1>1, ClockType DEF CheckIn, ReportTypeOK, jobs, ghosts
    <2>2. ClosingKnows' /\ IsFiniteSet(tasks')
      BY <1>1 DEF CheckIn, ClosingKnows, jobs
    <2> QED BY <1>1, <2>1, <2>2, ReportsUntouched, PromisesKept, ClockStays DEF CheckIn, jobs, ghosts
  <1>2. CASE CompleteVisit
    <2>1. ReportTypeOK'
      <3>1. visits[day] + 1 \in 0..MaxVisits
        BY <1>2, ClockType, Numbers DEF CompleteVisit, ReportTypeOK
      <3> QED BY <1>2, <3>1, ClockType DEF CompleteVisit, ReportTypeOK, jobs, ghosts
    <2>2. ClosingKnows' /\ IsFiniteSet(tasks')
      BY <1>2 DEF CompleteVisit, ClosingKnows, jobs
    <2> QED BY <1>2, <2>1, <2>2, ReportsUntouched, PromisesKept, ClockStays DEF CompleteVisit, jobs, ghosts
  <1>3. ASSUME NEW submit \in BOOLEAN, End(submit) PROVE ReportInv'
    <2> DEFINE t == [of |-> Utc, day |-> day, submit |-> submit]
    <2>1. t \in Task /\ t.day = day /\ t.submit = submit /\ tasks' = tasks \cup {t}
      BY <1>3, ClockType DEF Task, End
    <2> HIDE DEF t
    <2>2. tasks' \subseteq Task /\ IsFiniteSet(tasks') /\ Cardinality(tasks') <= MaxTasks
      BY <1>3, <2>1, TaskAdded DEF End
    <2>3. ReportTypeOK'
      BY <1>3, <2>2, ClockType DEF End, ReportTypeOK, jobs
    <2>4. ClosingKnows'
      BY <1>3 DEF End, ClosingKnows, jobs
    <2>5. UnattendedEndIsSubmitted'
      BY <1>3, <2>1, PromisesKept DEF End
    <2> QED BY <1>3, <2>2, <2>3, <2>4, <2>5, ReportsUntouched, ClockStays DEF End, jobs
  <1> QED BY <1>1, <1>2, <1>3 DEF Employee

LEMMA LateCheckStep == ASSUME ReportInv, LateCheck PROVE ReportInv'
  <1> USE DEF ReportInv
  <1>1. day \in Days
    BY ClockType
  <1>2. \A d \in Days \ {day} : report'[d] = report[d]
    BY DEF LateCheck, ReportTypeOK
  <1>3. /\ report'[day].status = report[day].status
        /\ report'[day] \in Report \cup {NoReport}
        /\ (report'[day] # NoReport) = Generated(day)
        /\ report'[day].told = report[day].told
        /\ Generated(day) /\ report[day].status = "DRAFT" => report'[day].late
    <2>1. CASE Generated(day) /\ report[day].status = "DRAFT"
      <3>1. report[day] \in Report
        BY <2>1, <1>1, ReportOfDay
      <3>2. report'[day] = [report[day] EXCEPT !.late = TRUE]
        BY <2>1, <1>1 DEF LateCheck, ReportTypeOK
      <3>3. report'[day] \in Report /\ report'[day].status = report[day].status
            /\ report'[day].told = report[day].told /\ report'[day].late
        BY <3>1, <3>2 DEF Report
      <3>4. report'[day] # NoReport
        BY <3>3 DEF Report, NoReport
      <3> QED BY <2>1, <3>3, <3>4 DEF Generated
    <2>2. CASE ~(Generated(day) /\ report[day].status = "DRAFT")
      BY <2>2, <1>1 DEF LateCheck, ReportTypeOK, Generated
    <2> QED BY <2>1, <2>2
  <1>4. /\ \A d \in Days : Generated(d)' = Generated(d) /\ report'[d].status = report[d].status
                           /\ report'[d].told = report[d].told
        /\ op' = op /\ tasks' = tasks /\ UNCHANGED ghosts /\ checked' = checked \cup {day}
    BY <1>2, <1>3 DEF LateCheck, Generated
  <1>5. ReportTypeOK'
    <2>1. report' \in [Days -> Report \cup {NoReport}]
      BY <1>1, <1>2, <1>3 DEF LateCheck, ReportTypeOK
    <2> QED BY <1>1, <2>1 DEF LateCheck, ReportTypeOK, ghosts
  <1>6. ClosingKnows' /\ IsFiniteSet(tasks')
    BY <1>4 DEF LateCheck, ClosingKnows
  <1>7. SubmissionsHaveDrafts' /\ SubmittedOnce'
    BY <1>4 DEF SubmissionsHaveDrafts, SubmittedOnce, InFlight, ghosts
  <1>8. DraftPastCutoffIsLate'
    BY <1>1, <1>2, <1>3, <1>4 DEF DraftPastCutoffIsLate, ghosts, Generated, ReportTypeOK
  <1>9. UnattendedEndIsSubmitted'
    <2>1. unattended \subseteq Days
      BY DEF ReportTypeOK
    <2> QED BY <2>1, <1>4 DEF UnattendedEndIsSubmitted, ghosts
  <1> QED BY <1>5, <1>6, <1>7, <1>8, <1>9, ClockStays DEF LateCheck

LEMMA ClosingStep ==
    ASSUME ReportInv, BeginClosing \/ DateClosing \/ EndClosing PROVE ReportInv'
  <1> USE DEF ReportInv
  <1>1. CASE BeginClosing
    <2>1. ClosingKnows' /\ closing' \in [of : UtcDays, day : 0..LastDay, stage : {"NONE", "DATE", "END"}]
      BY <1>1, ClockType, Numbers DEF BeginClosing, ClosingKnows, ReportTypeOK
    <2>2. ReportTypeOK'
      BY <1>1, <2>1, ClockType DEF BeginClosing, ReportTypeOK, ghosts
    <2> QED BY <1>1, <2>1, <2>2, ReportsUntouched, PromisesKept, ClockStays DEF BeginClosing, ghosts
  <1>2. CASE DateClosing
    <2>1. ClosingKnows' /\ closing' \in [of : UtcDays, day : 0..LastDay, stage : {"NONE", "DATE", "END"}]
      <3>1. day \in 0..LastDay
        BY ClockType, Numbers
      <3> QED BY <1>2, <3>1, ClockType DEF DateClosing, ClosingKnows, ReportTypeOK
    <2>2. ReportTypeOK'
      BY <1>2, <2>1 DEF DateClosing, ReportTypeOK, ghosts
    <2> QED BY <1>2, <2>1, <2>2, ReportsUntouched, PromisesKept, ClockStays DEF DateClosing, ghosts
  <1>3. CASE EndClosing
    <2> DEFINE t == [of |-> closing.of, day |-> closing.day, submit |-> TRUE]
    <2>1. closing.of \in UtcDays /\ closing.day \in Days
      BY <1>3 DEF EndClosing, ClosingKnows, ReportTypeOK
    <2>2. t \in Task /\ t.day = closing.day /\ t.submit
      BY <2>1 DEF Task
    <2>3. ClosingKnows' /\ closing' \in [of : UtcDays, day : 0..LastDay, stage : {"NONE", "DATE", "END"}]
      BY <1>3, Numbers DEF EndClosing, ClosingKnows, NoJob
    <2>4. CASE attendance[closing.of] = "OPEN"
      <3>1. tasks' = tasks \cup {t} /\ unattended' = unattended \cup {closing.day}
        BY <1>3, <2>4 DEF EndClosing
      <3>a. broken' = broken \ {closing.day}
        BY <1>3, <2>4 DEF EndClosing
      <3> HIDE DEF t
      <3>2. tasks' \subseteq Task /\ IsFiniteSet(tasks') /\ Cardinality(tasks') <= MaxTasks
        BY <1>3, <2>2, <3>1, TaskAdded DEF EndClosing
      <3>3. ReportTypeOK'
        BY <1>3, <2>1, <2>3, <2>4, <3>2, <3>a DEF EndClosing, ReportTypeOK
      <3>4. UnattendedEndIsSubmitted'
        BY <1>3, <2>2, <3>1, <3>a, PromisesKept DEF EndClosing
      <3> QED BY <1>3, <2>3, <3>2, <3>3, <3>4, ReportsUntouched, ClockStays DEF EndClosing
    <2>5. CASE attendance[closing.of] # "OPEN"
      <3>1. ReportTypeOK'
        BY <1>3, <2>3, <2>5 DEF EndClosing, ReportTypeOK
      <3>2. UNCHANGED <<report, op, tasks, unattended, broken, checked, slow, twice>>
        BY <1>3, <2>5 DEF EndClosing
      <3> QED BY <1>3, <2>3, <3>1, <3>2, ReportsUntouched, PromisesKept, ClockStays DEF EndClosing
    <2> QED BY <2>4, <2>5
  <1> QED BY <1>1, <1>2, <1>3

LEMMA ClockStep == ASSUME ReportInv, Clock PROVE ReportInv'
  <1> USE DEF ReportInv
  <1>1. day' \in Days /\ part' \in DOMAIN Parts /\ ClockStops'
    <2>1. /\ day \in 1..LastDay /\ part \in {1, 2, 3, 4} /\ DOMAIN Parts = {1, 2, 3, 4}
          /\ Days = 1..LastDay /\ LastDay \in Nat /\ LastPart \in {1, 2, 3, 4}
          /\ ~(day = LastDay /\ part = LastPart) /\ (day = LastDay => part <= LastPart)
      BY ClockType, Numbers DEF Parts, Clock, ClockStops
    <2>2. CASE part < 4
      <3>1. day' = day /\ part' = part + 1
        BY <2>2 DEF Clock
      <3>2. part' \in {1, 2, 3, 4} /\ (day = LastDay => part + 1 <= LastPart)
        BY <2>1, <2>2, <3>1
      <3> QED BY <2>1, <3>1, <3>2 DEF ClockStops
    <2>3. CASE ~(part < 4)
      <3>1. day' = day + 1 /\ part' = 1
        BY <2>3 DEF Clock
      <3>2. day # LastDay
        BY <2>1, <2>3
      <3> QED BY <2>1, <3>1, <3>2 DEF ClockStops
    <2> QED BY <2>2, <2>3
  <1>2. ReportTypeOK'
    BY <1>1 DEF Clock, ReportTypeOK, jobs, ghosts
  <1>3. ClosingKnows' /\ IsFiniteSet(tasks')
    BY DEF Clock, ClosingKnows, jobs
  <1> QED BY <1>1, <1>2, <1>3, ReportsUntouched, PromisesKept DEF Clock, jobs, ghosts

-----------------------------------------------------------------------------
(* Generations and submissions                                              *)

\* A generation begins: nothing is submitted by it yet.
LEMMA ReadStep ==
    ASSUME ReportInv, NEW r \in Requests, NEW d \in Days, NEW submit \in BOOLEAN,
           Read(r, d, submit), tasks' \subseteq tasks,
           UNCHANGED <<day, part, attendance, visits, report, jobs, ghosts>>,
           \A t \in tasks \ tasks' : t.day = d /\ t.submit = submit
    PROVE  ReportInv'
  <1> USE DEF ReportInv
  <1> DEFINE g == [kind |-> "GENERATE", day |-> d, visits |-> visits[d], late |-> LateNow,
                   submit |-> submit]
  <1>1. g \in Generation
    BY ClockType DEF Generation, ReportTypeOK
  <1>2. /\ op[r] = FreeRequest /\ op' = [op EXCEPT ![r] = g]
        /\ g.kind = "GENERATE" /\ g.day = d /\ g.submit = submit /\ g # FreeRequest
    BY DEF Read, FreeRequest
  <1> HIDE DEF g
  <1>3. op'[r] = g /\ \A s \in Requests \ {r} : op'[s] = op[s]
    BY <1>2 DEF ReportTypeOK
  <1>4. IsFiniteSet(tasks') /\ Cardinality(tasks') <= MaxTasks
    <2>1. IsFiniteSet(tasks') /\ Cardinality(tasks') <= Cardinality(tasks)
      BY FS_Subset
    <2> QED BY <2>1, FS_CardinalityType, Numbers DEF ReportTypeOK
  <1>5. ReportTypeOK'
    BY <1>1, <1>2, <1>4 DEF ReportTypeOK, jobs, ghosts
  <1>6. ClosingKnows' /\ ClockStops'
    BY ClockStays DEF ClosingKnows, jobs
  <1>7. \A e \in Days : InFlight("SUBMIT", e)' = InFlight("SUBMIT", e)
    BY <1>2, <1>3 DEF InFlight
  <1>8. SubmissionsHaveDrafts' /\ DraftPastCutoffIsLate' /\ SubmittedOnce'
    BY <1>7 DEF SubmissionsHaveDrafts, DraftPastCutoffIsLate, SubmittedOnce, Generated, jobs, ghosts
  <1>9. UnattendedEndIsSubmitted'
    <2>1. ASSUME NEW e \in unattended \ broken
          PROVE  \/ \E t \in tasks' : t.day = e /\ t.submit
                 \/ \E s \in Requests : Owes(s, e)'
                 \/ Generated(e)' /\ report'[e].status = "SUBMITTED"
      <3>1. CASE \E t \in tasks : t.day = e /\ t.submit
        BY <3>1, <1>2, <1>3 DEF Owes
      <3>2. CASE \E s \in Requests : Owes(s, e)
        BY <3>2, <1>2, <1>3 DEF Owes
      <3>3. CASE Generated(e) /\ report[e].status = "SUBMITTED"
        BY <3>3 DEF Generated
      <3> QED BY <3>1, <3>2, <3>3 DEF UnattendedEndIsSubmitted, Owes
    <2> QED BY <2>1 DEF UnattendedEndIsSubmitted, Owes, ghosts
  <1> QED BY <1>4, <1>5, <1>6, <1>8, <1>9

LEMMA RunTaskStep == ASSUME ReportInv, NEW r \in Requests, RunTask(r) PROVE ReportInv'
  <1>1. PICK t \in tasks : Read(r, t.day, t.submit) /\ tasks' = tasks \ {t}
    BY DEF RunTask
  <1>2. t.day \in Days /\ t.submit \in BOOLEAN
    BY DEF ReportInv, ReportTypeOK, Task
  <1> QED BY <1>1, <1>2, ReadStep DEF RunTask

LEMMA OpenSummaryStep ==
    ASSUME ReportInv, NEW r \in Requests, NEW d \in Days, OpenSummary(r, d) PROVE ReportInv'
  BY ReadStep DEF OpenSummary

\* The rows that a generation leaves.
LEMMA UpsertedRow ==
    ASSUME ReportTypeOK, NEW g \in Generation
    PROVE  /\ Upserted(g) \in Report
           /\ Upserted(g).status = IF Generated(g.day) THEN report[g.day].status ELSE "DRAFT"
           /\ Upserted(g).told = IF Generated(g.day) THEN report[g.day].told ELSE 0
           /\ Generated(g.day) => Upserted(g).late = (report[g.day].late \/ g.late)
           /\ ~Generated(g.day) => Upserted(g).late = g.late
           /\ g.day \in Days /\ g.late \in BOOLEAN /\ g.submit \in BOOLEAN
  <1>1. /\ g.day \in Days /\ g.late \in BOOLEAN /\ g.visits \in 0..MaxVisits
        /\ g.submit \in BOOLEAN
    BY DEF Generation
  <1>2. CASE Generated(g.day)
    <2>1. report[g.day] \in Report
      BY <1>1, <1>2, ReportOfDay
    <2>2. Upserted(g) = [report[g.day] EXCEPT !.visits = g.visits, !.late = @ \/ g.late]
      BY <1>2 DEF Upserted
    <2> QED BY <1>1, <1>2, <2>1, <2>2 DEF Report
  <1>3. CASE ~Generated(g.day)
    BY <1>1, <1>3 DEF Upserted, New, Report
  <1> QED BY <1>1, <1>2, <1>3

LEMMA UpsertStep == ASSUME ReportInv, NEW r \in Requests, Upsert(r) PROVE ReportInv'
  <1> USE DEF ReportInv
  <1>0. op[r] \in Generation /\ op[r].kind = "GENERATE" /\ op[r] # FreeRequest
    <2>1. op[r].kind = "GENERATE"
      BY DEF Upsert
    <2> QED BY <2>1, KindOfOp DEF FreeRequest
  <1>1. PICK g \in Generation : g = op[r] /\ g.kind = "GENERATE"
    BY <1>0
  <1>2. PICK d \in Days, row \in Report :
           /\ d = g.day /\ row = Upserted(g) /\ g.late \in BOOLEAN /\ g.submit \in BOOLEAN
           /\ row.status = IF Generated(d) THEN report[d].status ELSE "DRAFT"
           /\ row.told = IF Generated(d) THEN report[d].told ELSE 0
           /\ Generated(d) => row.late = (report[d].late \/ g.late)
           /\ ~Generated(d) => row.late = g.late
    BY UpsertedRow
  <1>3. /\ report' = [report EXCEPT ![d] = row]
        /\ report'[d] = row /\ \A e \in Days \ {d} : report'[e] = report[e]
    BY <1>1, <1>2 DEF Upsert, ReportTypeOK
  <1>a. PICK next \in BOOLEAN : next <=> g.submit /\ row.status = "DRAFT"
    BY <1>2
  <1>5. PICK x \in Generation \cup Submission \cup {FreeRequest} :
           /\ x = IF next THEN [kind |-> "SUBMIT", day |-> d, submit |-> TRUE] ELSE FreeRequest
           /\ next => x.kind = "SUBMIT" /\ x.day = d /\ x.submit /\ x # FreeRequest
           /\ ~next => x = FreeRequest
    <2>1. CASE next
      <3>1. [kind |-> "SUBMIT", day |-> d, submit |-> TRUE] \in Submission
        BY DEF Submission
      <3>2. [kind |-> "SUBMIT", day |-> d, submit |-> TRUE] # FreeRequest
        BY DEF FreeRequest
      <3> QED BY <2>1, <3>1, <3>2
    <2>2. CASE ~next
      BY <2>2
    <2> QED BY <2>1, <2>2
  <1>4. /\ op' = [op EXCEPT ![r] = x]
        /\ twice' = IF next /\ InFlight("SUBMIT", d) # {} THEN twice \cup {d} ELSE twice
        /\ slow' = IF ~g.late /\ d \in checked /\ ~Generated(d) THEN slow \cup {d} ELSE slow
        /\ UNCHANGED <<day, part, attendance, visits, tasks, jobs, unattended, broken>>
    BY <1>1, <1>2, <1>3, <1>5, <1>a DEF Upsert
  <1>6. op'[r] = x /\ \A s \in Requests \ {r} : op'[s] = op[s]
    BY <1>4 DEF ReportTypeOK
  <1>7. /\ \A e \in Days \ {d} : InFlight("SUBMIT", e)' = InFlight("SUBMIT", e)
        /\ InFlight("SUBMIT", d)' = IF next THEN InFlight("SUBMIT", d) \cup {r}
                                    ELSE InFlight("SUBMIT", d)
        /\ r \notin InFlight("SUBMIT", d)
    <2>1. ASSUME NEW e \in Days, NEW s \in Requests
          PROVE  s \in InFlight("SUBMIT", e)' <=>
                    s \in InFlight("SUBMIT", e) \/ (s = r /\ next /\ e = d)
      <3>1. CASE s = r
        BY <3>1, <1>0, <1>5, <1>6 DEF InFlight
      <3>2. CASE s # r
        BY <3>2, <1>6 DEF InFlight
      <3> QED BY <3>1, <3>2
    <2>2. r \notin InFlight("SUBMIT", d)
      BY <1>0 DEF InFlight
    <2>3. \A e \in Days : InFlight("SUBMIT", e) \subseteq Requests /\ InFlight("SUBMIT", e)' \subseteq Requests
      BY DEF InFlight
    <2> QED BY <1>2, <2>1, <2>2, <2>3
  <1>8. Generated(d)' /\ \A e \in Days \ {d} : Generated(e)' = Generated(e)
    BY <1>2, <1>3 DEF Generated, Report, NoReport
  <1>9. ReportTypeOK'
    <2>1. report' \in [Days -> Report \cup {NoReport}]
      BY <1>2, <1>3 DEF ReportTypeOK
    <2>2. op' \in [Requests -> Generation \cup Submission \cup {FreeRequest}]
      BY <1>4, <1>5 DEF ReportTypeOK
    <2> QED BY <1>2, <1>4, <2>1, <2>2 DEF ReportTypeOK, jobs
  <1>10. ClosingKnows' /\ ClockStops' /\ IsFiniteSet(tasks')
    BY <1>4, ClockStays DEF ClosingKnows, jobs
  <1>11. SubmissionsHaveDrafts'
    <2>1. \A e \in Days : InFlight("SUBMIT", e)' # {} => Generated(e)'
      BY <1>7, <1>8 DEF SubmissionsHaveDrafts
    <2>2. ASSUME NEW e \in Days \ twice'
          PROVE  /\ InFlight("SUBMIT", e)' # {} => report'[e].status = "DRAFT"
                 /\ \A p, s \in InFlight("SUBMIT", e)' : p = s
      <3>1. CASE e # d
        BY <3>1, <2>2, <1>3, <1>4, <1>7 DEF SubmissionsHaveDrafts
      <3>2. CASE e = d /\ next
        <4>1. InFlight("SUBMIT", d) = {}
          BY <3>2, <2>2, <1>4
        <4>2. InFlight("SUBMIT", e)' = {r} /\ report'[e].status = "DRAFT"
          BY <3>2, <4>1, <1>3, <1>7, <1>a
        <4> QED BY <4>2
      <3>3. CASE e = d /\ ~next
        <4>1. e \in Days \ twice /\ InFlight("SUBMIT", e)' = InFlight("SUBMIT", e)
          BY <3>3, <2>2, <1>4, <1>7
        <4>2. InFlight("SUBMIT", e) # {} => Generated(e) /\ report[e].status = "DRAFT"
          BY <4>1 DEF SubmissionsHaveDrafts
        <4> QED BY <3>3, <4>1, <4>2, <1>2, <1>3 DEF SubmissionsHaveDrafts
      <3> QED BY <3>1, <3>2, <3>3
    <2> QED BY <2>1, <2>2 DEF SubmissionsHaveDrafts
  <1>12. DraftPastCutoffIsLate'
    <2>1. ASSUME NEW e \in checked \ slow', e # d, Generated(e)', report'[e].status = "DRAFT"
          PROVE  report'[e].late
      BY <2>1, <1>3, <1>4, <1>8 DEF DraftPastCutoffIsLate, ReportTypeOK
    <2>2. ASSUME d \in checked \ slow', report'[d].status = "DRAFT"
          PROVE  report'[d].late
      <3>1. CASE Generated(d)
        BY <3>1, <2>2, <1>2, <1>3, <1>4 DEF DraftPastCutoffIsLate
      <3>2. CASE ~Generated(d)
        BY <3>2, <2>2, <1>2, <1>3, <1>4
      <3> QED BY <3>1, <3>2
    <2>3. checked' = checked
      BY <1>4 DEF jobs
    <2> QED BY <2>1, <2>2, <2>3 DEF DraftPastCutoffIsLate
  <1>13. SubmittedOnce'
    <2>1. \A e \in Days \ {d} : Generated(e)' /\ e \notin twice' =>
             report'[e].told = (IF report'[e].status = "SUBMITTED" THEN 1 ELSE 0)
      BY <1>3, <1>4, <1>8 DEF SubmittedOnce
    <2>2. d \notin twice' => report'[d].told = (IF report'[d].status = "SUBMITTED" THEN 1 ELSE 0)
      BY <1>2, <1>3, <1>4 DEF SubmittedOnce
    <2> QED BY <2>1, <2>2 DEF SubmittedOnce
  <1>14. UnattendedEndIsSubmitted'
    <2>1. ASSUME NEW e \in unattended \ broken
          PROVE  \/ \E t \in tasks' : t.day = e /\ t.submit
                 \/ \E s \in Requests : Owes(s, e)'
                 \/ Generated(e)' /\ report'[e].status = "SUBMITTED"
      <3>1. e \in Days
        BY DEF ReportTypeOK
      <3>2. CASE \E t \in tasks : t.day = e /\ t.submit
        BY <3>2, <1>4
      <3>3. ASSUME NEW s \in Requests, Owes(s, e)
            PROVE  Owes(s, e)' \/ (Generated(e)' /\ report'[e].status = "SUBMITTED")
        <4>1. CASE s # r
          BY <3>3, <4>1, <1>6 DEF Owes
        <4>2. CASE s = r
          <5>1. e = d /\ g.submit
            BY <3>3, <4>2, <1>1, <1>2 DEF Owes
          <5>2. CASE next
            BY <4>2, <5>1, <5>2, <1>5, <1>6 DEF Owes
          <5>3. CASE ~next
            BY <5>1, <5>3, <1>2, <1>3, <1>8, <1>a DEF Report
          <5> QED BY <5>2, <5>3
        <4> QED BY <4>1, <4>2
      <3>4. CASE Generated(e) /\ report[e].status = "SUBMITTED"
        BY <3>1, <3>4, <1>2, <1>3, <1>8
      <3> QED BY <3>2, <3>3, <3>4 DEF UnattendedEndIsSubmitted, Owes
    <2> QED BY <2>1, <1>4 DEF UnattendedEndIsSubmitted, Owes
  <1> QED BY <1>9, <1>10, <1>11, <1>12, <1>13, <1>14

\* A submission that begins: none is in flight, or the two overlap.
LEMMA SubmitStep ==
    ASSUME ReportInv, NEW r \in Requests, NEW d \in Days, Submit(r, d) PROVE ReportInv'
  <1> USE DEF ReportInv
  <1>1. PICK x \in Submission : x = [kind |-> "SUBMIT", day |-> d, submit |-> FALSE]
    BY DEF Submission
  <1>2. /\ x.kind = "SUBMIT" /\ x.day = d /\ x # FreeRequest /\ op[r] = FreeRequest
        /\ op' = [op EXCEPT ![r] = x]
        /\ op'[r] = x /\ \A s \in Requests \ {r} : op'[s] = op[s]
    BY <1>1 DEF Submit, FreeRequest, ReportTypeOK
  <1>3. /\ twice' = IF InFlight("SUBMIT", d) # {} THEN twice \cup {d} ELSE twice
        /\ Generated(d) /\ report[d].status = "DRAFT"
        /\ UNCHANGED <<day, part, attendance, visits, report, tasks, jobs, slow, unattended, broken>>
    BY DEF Submit
  <1>4. ASSUME NEW e \in Days, NEW s \in Requests
        PROVE  /\ s \in InFlight("SUBMIT", e)' <=> s \in InFlight("SUBMIT", e) \/ (s = r /\ e = d)
               /\ s \in InFlight("GENERATE", e)' <=> s \in InFlight("GENERATE", e)
    <2>1. CASE s = r
      BY <2>1, <1>2 DEF InFlight
    <2>2. CASE s # r
      BY <2>2, <1>2 DEF InFlight
    <2> QED BY <2>1, <2>2
  <1>5. \A kind \in {"SUBMIT", "GENERATE"}, e \in Days :
           InFlight(kind, e) \subseteq Requests /\ InFlight(kind, e)' \subseteq Requests
    BY DEF InFlight
  <1>6. /\ \A e \in Days \ {d} : InFlight("SUBMIT", e)' = InFlight("SUBMIT", e)
        /\ InFlight("SUBMIT", d)' = InFlight("SUBMIT", d) \cup {r}
        /\ \A e \in Days : InFlight("GENERATE", e)' = InFlight("GENERATE", e)
    BY <1>4, <1>5
  <1>7. ReportTypeOK'
    BY <1>2, <1>3 DEF ReportTypeOK, jobs
  <1>8. ClosingKnows' /\ ClockStops' /\ IsFiniteSet(tasks')
    BY <1>3, ClockStays DEF ClosingKnows, jobs
  <1>9. SubmissionsHaveDrafts'
    <2>1. \A e \in Days : InFlight("SUBMIT", e)' # {} => Generated(e)'
      BY <1>3, <1>6 DEF SubmissionsHaveDrafts, Generated
    <2>2. ASSUME NEW e \in Days \ twice'
          PROVE  /\ InFlight("SUBMIT", e)' # {} => report'[e].status = "DRAFT"
                 /\ \A p, s \in InFlight("SUBMIT", e)' : p = s
      <3>1. CASE e # d
        BY <3>1, <2>2, <1>3, <1>6 DEF SubmissionsHaveDrafts
      <3>2. CASE e = d
        BY <3>2, <2>2, <1>3, <1>6
      <3> QED BY <3>1, <3>2
    <2> QED BY <2>1, <2>2 DEF SubmissionsHaveDrafts
  <1>10. DraftPastCutoffIsLate' /\ SubmittedOnce'
    BY <1>3 DEF DraftPastCutoffIsLate, SubmittedOnce, Generated, jobs
  <1>11. UnattendedEndIsSubmitted'
    <2>1. ASSUME NEW e \in unattended \ broken
          PROVE  \/ \E t \in tasks : t.day = e /\ t.submit
                 \/ \E s \in Requests : Owes(s, e)'
                 \/ Generated(e) /\ report[e].status = "SUBMITTED"
      <3>1. \A s \in Requests : Owes(s, e) => Owes(s, e)'
        BY <1>2 DEF Owes
      <3> QED BY <3>1 DEF UnattendedEndIsSubmitted, Owes
    <2> QED BY <2>1, <1>3 DEF UnattendedEndIsSubmitted, Owes, Generated
  <1> QED BY <1>7, <1>8, <1>9, <1>10, <1>11

\* A submission that ends: unless two overlapped, it found a draft that nobody
\* had been told of.
LEMMA FinishSubmitStep ==
    ASSUME ReportInv, NEW r \in Requests, FinishSubmit(r) PROVE ReportInv'
  <1> USE DEF ReportInv
  <1>0. op[r] \in Submission /\ op[r].kind = "SUBMIT" /\ op[r] # FreeRequest
    <2>1. op[r].kind = "SUBMIT"
      BY DEF FinishSubmit
    <2> QED BY <2>1, KindOfOp DEF FreeRequest
  <1>1. PICK d \in Days : d = op[r].day
    BY <1>0 DEF Submission
  <1>2. r \in InFlight("SUBMIT", d) /\ Generated(d) /\ report[d] \in Report
    <2>1. r \in InFlight("SUBMIT", d)
      BY <1>0, <1>1 DEF InFlight
    <2>2. Generated(d)
      BY <2>1 DEF SubmissionsHaveDrafts
    <2> QED BY <2>1, <2>2, ReportOfDay
  <1>3. PICK row \in Report :
           /\ row = Submitted(report[d])
           /\ row.status = "SUBMITTED" /\ (report[d].late => row.late)
           /\ (report[d].told = 0 => row.told = 1) /\ row # NoReport
    <2> DEFINE told == IF report[d].told < 2 THEN report[d].told + 1 ELSE 2
               late == report[d].late \/ LateNow
               row == Submitted(report[d])
    <2>1. told \in 0..2 /\ (report[d].told = 0 => told = 1)
      BY <1>2 DEF Report
    <2>2. late \in BOOLEAN /\ (report[d].late => late)
      BY <1>2, ClockType DEF Report
    <2>3. row = [report[d] EXCEPT !.status = "SUBMITTED", !.late = late, !.told = told]
      BY DEF Submitted
    <2> HIDE DEF told, late, row
    <2>4. row \in Report /\ row.status = "SUBMITTED" /\ row.late = late /\ row.told = told
      BY <2>1, <2>2, <2>3, <1>2 DEF Report
    <2>5. row # NoReport
      BY <2>4 DEF NoReport
    <2>6. row = Submitted(report[d])
      BY DEF row
    <2> QED BY <2>1, <2>2, <2>4, <2>5, <2>6
  <1>4. /\ report' = [report EXCEPT ![d] = row] /\ op' = [op EXCEPT ![r] = FreeRequest]
        /\ UNCHANGED <<day, part, attendance, visits, tasks, jobs, ghosts>>
    BY <1>1, <1>3 DEF FinishSubmit
  <1>5. /\ report'[d] = row /\ \A e \in Days \ {d} : report'[e] = report[e]
        /\ op'[r] = FreeRequest /\ \A s \in Requests \ {r} : op'[s] = op[s]
    BY <1>4 DEF ReportTypeOK
  <1>6. /\ \A e \in Days \ {d} : InFlight("SUBMIT", e)' = InFlight("SUBMIT", e)
        /\ InFlight("SUBMIT", d)' = InFlight("SUBMIT", d) \ {r}
    <2>1. ASSUME NEW e \in Days, NEW s \in Requests
          PROVE  s \in InFlight("SUBMIT", e)' <=> s \in InFlight("SUBMIT", e) /\ s # r
      BY <1>5 DEF InFlight
    <2>2. \A e \in Days \ {d} : r \notin InFlight("SUBMIT", e)
      BY <1>1 DEF InFlight
    <2>3. \A e \in Days : InFlight("SUBMIT", e) \subseteq Requests /\ InFlight("SUBMIT", e)' \subseteq Requests
      BY DEF InFlight
    <2> QED BY <2>1, <2>2, <2>3
  <1>7. \A e \in Days : Generated(e)' = Generated(e)
    BY <1>2, <1>3, <1>5 DEF Generated
  <1>8. ReportTypeOK'
    <2>1. report' \in [Days -> Report \cup {NoReport}]
      BY <1>4 DEF ReportTypeOK
    <2>2. op' \in [Requests -> Generation \cup Submission \cup {FreeRequest}]
      BY <1>4 DEF ReportTypeOK
    <2> QED BY <1>4, <2>1, <2>2 DEF ReportTypeOK, jobs, ghosts
  <1>9. ClosingKnows' /\ ClockStops' /\ IsFiniteSet(tasks')
    BY <1>4, ClockStays DEF ClosingKnows, jobs
  <1>10. /\ twice' = twice /\ checked' = checked /\ slow' = slow
        /\ unattended' = unattended /\ broken' = broken /\ tasks' = tasks
    BY <1>4 DEF jobs, ghosts
  <1>11. SubmissionsHaveDrafts'
    <2>1. \A e \in Days : InFlight("SUBMIT", e)' # {} => Generated(e)'
      BY <1>6, <1>7 DEF SubmissionsHaveDrafts
    <2>2. ASSUME NEW e \in Days \ twice
          PROVE  /\ InFlight("SUBMIT", e)' # {} => report'[e].status = "DRAFT"
                 /\ \A p, s \in InFlight("SUBMIT", e)' : p = s
      <3>1. CASE e # d
        BY <3>1, <1>5, <1>6 DEF SubmissionsHaveDrafts
      <3>2. CASE e = d
        <4>1. InFlight("SUBMIT", d)' = {}
          BY <3>2, <1>2, <1>6 DEF SubmissionsHaveDrafts
        <4> QED BY <3>2, <4>1
      <3> QED BY <3>1, <3>2
    <2> QED BY <2>1, <2>2, <1>10 DEF SubmissionsHaveDrafts
  <1>12. DraftPastCutoffIsLate'
    BY <1>3, <1>5, <1>7, <1>10 DEF DraftPastCutoffIsLate, ReportTypeOK
  <1>13. SubmittedOnce'
    <2>1. ASSUME d \notin twice
          PROVE  report'[d].told = (IF report'[d].status = "SUBMITTED" THEN 1 ELSE 0)
      <3>1. report[d].status = "DRAFT"
        BY <2>1, <1>2 DEF SubmissionsHaveDrafts
      <3>2. report[d].told = 0
        BY <2>1, <3>1, <1>2 DEF SubmittedOnce
      <3> QED BY <3>2, <1>3, <1>5
    <2>2. ASSUME NEW e \in Days \ {d}, Generated(e)', e \notin twice
          PROVE  report'[e].told = (IF report'[e].status = "SUBMITTED" THEN 1 ELSE 0)
      BY <2>2, <1>5, <1>7 DEF SubmittedOnce
    <2> QED BY <2>1, <2>2, <1>10 DEF SubmittedOnce
  <1>14. UnattendedEndIsSubmitted'
    <2>1. ASSUME NEW e \in unattended \ broken
          PROVE  \/ \E t \in tasks : t.day = e /\ t.submit
                 \/ \E s \in Requests : Owes(s, e)'
                 \/ Generated(e)' /\ report'[e].status = "SUBMITTED"
      <3>1. e \in Days
        BY DEF ReportTypeOK
      <3>2. CASE e = d
        BY <3>2, <1>2, <1>3, <1>5, <1>7
      <3>3. CASE e # d
        <4>1. \A s \in Requests : Owes(s, e) => Owes(s, e)'
          BY <3>3, <1>1, <1>5 DEF Owes
        <4> QED BY <4>1, <3>1, <3>3, <1>5, <1>7 DEF UnattendedEndIsSubmitted, Owes
      <3> QED BY <3>2, <3>3
    <2> QED BY <2>1, <1>10 DEF UnattendedEndIsSubmitted, Owes
  <1> QED BY <1>8, <1>9, <1>11, <1>12, <1>13, <1>14

\* What fails leaves no more in flight than there was.
LEMMA FailRequestStep ==
    ASSUME ReportInv, NEW r \in Requests, FailRequest(r) PROVE ReportInv'
  <1> USE DEF ReportInv
  <1>1. /\ op[r] # FreeRequest /\ op' = [op EXCEPT ![r] = FreeRequest]
        /\ op'[r] = FreeRequest /\ \A s \in Requests \ {r} : op'[s] = op[s]
        /\ UNCHANGED <<day, part, attendance, visits, report, tasks, jobs, twice, slow, unattended>>
    BY DEF FailRequest, ReportTypeOK
  <1>2. op[r].day \in Days
    BY <1>1 DEF ReportTypeOK, Generation, Submission
  <1>3. broken' = broken \cup {d \in {op[r].day} : op[r].submit}
    BY DEF FailRequest, Promised
  <1>4. ReportTypeOK'
    BY <1>1, <1>2, <1>3 DEF ReportTypeOK, jobs
  <1>5. ClosingKnows' /\ ClockStops' /\ IsFiniteSet(tasks')
    BY <1>1, ClockStays DEF ClosingKnows, jobs
  <1>6. \A e \in Days : InFlight("SUBMIT", e)' \subseteq InFlight("SUBMIT", e)
    BY <1>1 DEF InFlight
  <1>7. SubmissionsHaveDrafts'
    BY <1>1, <1>6 DEF SubmissionsHaveDrafts, Generated
  <1>8. DraftPastCutoffIsLate' /\ SubmittedOnce'
    BY <1>1 DEF DraftPastCutoffIsLate, SubmittedOnce, Generated, jobs
  <1>9. UnattendedEndIsSubmitted'
    <2>1. ASSUME NEW e \in unattended \ broken', NEW s \in Requests, Owes(s, e)
          PROVE  Owes(s, e)'
      <3>1. s # r
        BY <2>1, <1>3 DEF Owes
      <3> QED BY <2>1, <3>1, <1>1 DEF Owes
    <2>2. broken \subseteq broken'
      BY <1>3
    <2> QED BY <2>1, <2>2, <1>1 DEF UnattendedEndIsSubmitted, Owes, Generated
  <1> QED BY <1>4, <1>5, <1>7, <1>8, <1>9

LEMMA LoseTaskStep == ASSUME ReportInv, LoseTask PROVE ReportInv'
  <1> USE DEF ReportInv
  <1>1. PICK t \in tasks : tasks' = tasks \ {t} /\ broken' = broken \cup Promised(t)
    BY DEF LoseTask
  <1>2. UNCHANGED <<day, part, attendance, visits, report, op, jobs, twice, slow, unattended>>
    BY DEF LoseTask
  <1>3. IsFiniteSet(tasks') /\ Cardinality(tasks') <= MaxTasks
    <2>1. tasks' \subseteq tasks
      BY <1>1
    <2>2. IsFiniteSet(tasks') /\ Cardinality(tasks') <= Cardinality(tasks)
      BY <2>1, FS_Subset
    <2> QED BY <2>2, FS_CardinalityType, Numbers DEF ReportTypeOK
  <1>4. t \in Task /\ Promised(t) \subseteq Days
    BY DEF ReportTypeOK, Task, Promised
  <1>5. ReportTypeOK'
    BY <1>1, <1>2, <1>3, <1>4 DEF ReportTypeOK, jobs
  <1>6. ClosingKnows' /\ ClockStops'
    BY <1>2, ClockStays DEF ClosingKnows, jobs
  <1>7. UnattendedEndIsSubmitted'
    <2>1. ASSUME NEW e \in unattended \ broken', NEW u \in tasks, u.day = e, u.submit
          PROVE  u \in tasks'
      BY <2>1, <1>1 DEF Promised
    <2> QED BY <2>1, <1>1, <1>2 DEF UnattendedEndIsSubmitted, Generated
  <1> QED BY <1>2, <1>3, <1>5, <1>6, <1>7, ReportsUntouched DEF jobs

-----------------------------------------------------------------------------
(* The daily report: the results                                            *)

LEMMA ReportStep == ASSUME ReportInv, [ReportNext]_reportVars PROVE ReportInv'
  <1>1. CASE Ask
    BY <1>1, OpenSummaryStep, SubmitStep DEF Ask
  <1>2. CASE Serve
    BY <1>2, RunTaskStep, UpsertStep, FinishSubmitStep, FailRequestStep, LoseTaskStep DEF Serve
  <1>3. CASE EveningJobs
    BY <1>3, LateCheckStep, ClosingStep DEF EveningJobs
  <1>4. CASE UNCHANGED reportVars
    <2>1. ReportTypeOK' /\ ClosingKnows' /\ ClockStops' /\ IsFiniteSet(tasks')
      BY <1>4 DEF reportVars, jobs, ghosts, ReportInv, ReportTypeOK, ClosingKnows, ClockStops
    <2> QED BY <1>4, <2>1, ReportsUntouched, PromisesKept DEF ReportInv, reportVars, jobs, ghosts
  <1> QED BY <1>1, <1>2, <1>3, <1>4, EmployeeStep, ClockStep DEF ReportNext

LEMMA ReportAlways == ReportSpec => []ReportInv
  <1> QED BY ReportInitially, ReportStep, PTL DEF ReportSpec

\* Every variable of the reports keeps its type: no clock runs past the last
\* part of the last day, no queue of tasks over its bound (dsr_service.py).
THEOREM ReportsTypeCorrect == ReportSpec => []ReportTypeOK
  <1>1. ReportInv => ReportTypeOK
    BY DEF ReportInv
  <1> QED BY <1>1, ReportAlways, PTL

\* Whatever generations, submissions and jobs overlap, a draft whose late check
\* has run is late, and stays it (mark_late_reports, the upsert's OR).
THEOREM LateDraftsAreLate == ReportSpec => []DraftPastCutoffIsLate
  <1>1. ReportInv => DraftPastCutoffIsLate
    BY DEF ReportInv
  <1> QED BY <1>1, ReportAlways, PTL

\* The managers are told of a report once, whichever of the logout, the
\* auto-checkout and the employee submits it, and later generations leave it
\* submitted (submit_dsr, upsert).
THEOREM ReportsAreSubmittedOnce == ReportSpec => []SubmittedOnce
  <1>1. ReportInv => SubmittedOnce
    BY DEF ReportInv
  <1> QED BY <1>1, ReportAlways, PTL

\* A day closed by a logout or by the auto-checkout loses the submission that it
\* was promised only if what was to submit it fails, whatever else is generated
\* or submitted meanwhile (generate_and_submit_dsr).
THEOREM NoDraftIsLeft == ReportSpec => []UnattendedEndIsSubmitted
  <1>1. ReportInv => UnattendedEndIsSubmitted
    BY DEF ReportInv
  <1> QED BY <1>1, ReportAlways, PTL

-----------------------------------------------------------------------------
(* The reminders: what keeps the properties                                 *)

\* What a job sets, and the rows that it is for.
FlagOf(job) == IF job \in {"fu_24h", "fu_24h_precise"} THEN "24h"
               ELSE IF job = "fu_escalate" THEN "status" ELSE "1h"
KindOf(job) == IF job = "fu_24h" THEN "UNTIMED"
               ELSE IF job = "visit_reminder" THEN "STOP" ELSE "FOLLOW_UP"

Flags == {"24h", "1h"}
IsFlagged(d, f) == Exists(d) /\ ((f = "24h" /\ due[d].sent24) \/ (f = "1h" /\ due[d].sent1))
Holds(w, d, f) == d \in run[w].rows /\ FlagOf(run[w].job) = f
HasPushed(w, d, f) == d \in run[w].pushed /\ FlagOf(run[w].job) = f

\* A run holds rows of its job's kind, and what escalates was reminded of and
\* is two hours past.
RunsHoldTheirKind ==
    \A w \in Workers :
       /\ run[w].job = "NONE" => run[w] = Idle
       /\ \A d \in run[w].rows : Exists(d) /\ due[d].kind = KindOf(run[w].job)
       /\ run[w].job = "fu_escalate" =>
             \A d \in run[w].rows : due[d].sent24 /\ due[d].at <= now - 4

\* A flag is set for, and a run remembers, what has been pushed.
FlagsTellTheTruth ==
    \A d \in Dues, f \in Flags :
       (IsFlagged(d, f) \/ \E w \in Workers : HasPushed(w, d, f)) => pushes[d][f] > 0

\* Two runs of one job share no row.
HeldOnce ==
    \A v, w \in Workers : \A d \in run[v].rows \cap run[w].rows :
       run[v].job = run[w].job => v = w \/ d \in excused

\* A row that a run holds is not flagged yet, and what was pushed is flagged or
\* will be.
PushedIsFlagged ==
    \A d \in Dues \ excused, f \in Flags :
       /\ \A w \in Workers : Holds(w, d, f) => ~IsFlagged(d, f)
       /\ pushes[d][f] > 0 => IsFlagged(d, f) \/ \E w \in Workers : HasPushed(w, d, f)

RemindersInv ==
    /\ TypeOK /\ RunsHoldTheirKind /\ FlagsTellTheTruth
    /\ HeldOnce /\ PushedIsFlagged /\ RemindedOnce

LEMMA JobsAre ==
    /\ Jobs = {"fu_24h", "fu_24h_precise", "fu_1h", "visit_reminder", "fu_escalate"}
    /\ \A n \in 1..Len(Order) : Order[n] \in Jobs
  <1>1. Len(Order) = 5
    BY DEF Order
  <1> QED BY <1>1 DEF Jobs, Order

LEMMA SlotsAreNumbers == LastSlot \in Nat /\ Slots = 0..LastSlot /\ Slots \subseteq Nat
  BY ReminderAssumption DEF Slots

LEMMA JobSets == ASSUME NEW job \in Jobs PROVE Schedule(job).sets = FlagOf(job)
  BY JobsAre DEF Schedule, FlagOf, send_24h_followup_reminders, send_24h_followup_reminders_precise,
                 send_1h_followup_reminders, send_visit_reminders, escalate_unacknowledged_followups

LEMMA JobReads ==
    ASSUME TypeOK, NEW job \in Jobs
    PROVE  /\ Rows(job) \subseteq Dues
           /\ \A d \in Rows(job) :
                 /\ Exists(d) /\ due[d].kind = KindOf(job)
                 /\ \A f \in Flags : FlagOf(job) = f => ~IsFlagged(d, f)
                 /\ job = "fu_escalate" =>
                       due[d].sent24 /\ due[d].status = "PENDING" /\ due[d].at <= now - 4
  <1>1. CASE job = "fu_24h"
    <2>1. Rows(job) = due_24h
      BY <1>1 DEF Rows, Schedule, send_24h_followup_reminders
    <2> QED BY <1>1, <2>1 DEF due_24h, Awaits, KindOf, FlagOf, Flags, IsFlagged
  <1>2. CASE job = "fu_24h_precise"
    <2>1. Rows(job) = due_24h_precise
      BY <1>2 DEF Rows, Schedule, send_24h_followup_reminders_precise
    <2> QED BY <1>2, <2>1 DEF due_24h_precise, Awaits, KindOf, FlagOf, Flags, IsFlagged
  <1>3. CASE job = "fu_1h"
    <2>1. Rows(job) = due_1h
      BY <1>3 DEF Rows, Schedule, send_1h_followup_reminders
    <2> QED BY <1>3, <2>1 DEF due_1h, Awaits, KindOf, FlagOf, Flags, IsFlagged
  <1>4. CASE job = "visit_reminder"
    <2>1. Rows(job) = due_visit_reminders
      BY <1>4 DEF Rows, Schedule, send_visit_reminders
    <2> QED BY <1>4, <2>1 DEF due_visit_reminders, Awaits, KindOf, FlagOf, Flags, IsFlagged
  <1>5. CASE job = "fu_escalate"
    <2>1. Rows(job) = escalation_candidates
      BY <1>5 DEF Rows, Schedule, escalate_unacknowledged_followups
    <2> QED BY <1>5, <2>1 DEF escalation_candidates, KindOf, FlagOf, Flags
  <1> QED BY <1>1, <1>2, <1>3, <1>4, <1>5, JobsAre

\* A row of one kind is for one job of each flag.
LEMMA OneJobPerFlag ==
    ASSUME NEW j \in Jobs, NEW k \in Jobs, KindOf(j) = KindOf(k), FlagOf(j) = FlagOf(k)
    PROVE  j = k
  BY JobsAre DEF KindOf, FlagOf

\* Hence the runs that hold a row for one flag are one.
LEMMA OneHolder ==
    ASSUME TypeOK, RunsHoldTheirKind, HeldOnce, NEW d \in Dues \ excused, NEW f \in Flags,
           NEW v \in Workers, NEW w \in Workers, Holds(v, d, f), Holds(w, d, f)
    PROVE  v = w
  <1>1. /\ d \in run[v].rows \cap run[w].rows /\ FlagOf(run[v].job) = FlagOf(run[w].job)
        /\ KindOf(run[v].job) = KindOf(run[w].job)
    BY DEF Holds, RunsHoldTheirKind
  <1>2. run[v].job \in Jobs /\ run[w].job \in Jobs
    <2>1. run[v].job \in Jobs \cup {"NONE"} /\ run[w].job \in Jobs \cup {"NONE"}
      BY DEF TypeOK
    <2>2. run[v].rows # {} /\ run[w].rows # {}
      BY <1>1
    <2> QED BY <2>1, <2>2 DEF RunsHoldTheirKind, Idle
  <1> QED BY <1>1, <1>2, OneJobPerFlag DEF HeldOnce

LEMMA RunType ==
    ASSUME TypeOK, NEW w \in Workers
    PROVE  /\ run[w].job \in Jobs \cup {"NONE"} /\ run[w].rows \subseteq Dues
           /\ run[w].pushed \subseteq run[w].rows
           /\ Idle \in [job : Jobs \cup {"NONE"}, rows : SUBSET Dues, pushed : SUBSET Dues]
           /\ Idle.job = "NONE" /\ Idle.rows = {} /\ Idle.pushed = {}
           /\ RunsHoldTheirKind /\ run[w] # Idle => run[w].job \in Jobs
  BY DEF TypeOK, RunsHoldTheirKind, Idle

LEMMA RowType ==
    ASSUME TypeOK, NEW d \in Dues, Exists(d)
    PROVE  due[d] \in Row /\ NoRow \notin Row
  <1>1. NoRow \notin Row
    BY DEF Row, NoRow, Kinds
  <1> QED BY <1>1 DEF TypeOK, Exists

LEMMA RemindersInitially == Init => RemindersInv
  <1> SUFFICES ASSUME Init PROVE RemindersInv
    OBVIOUS
  <1>1. \A w \in Workers : run[w] = Idle /\ Idle.rows = {} /\ Idle.pushed = {} /\ Idle.job = "NONE"
    BY DEF Init, Idle
  <1>2. \A d \in Dues : ~Exists(d) /\ \A f \in Flags : pushes[d][f] = 0
    BY DEF Init, Exists, Flags
  <1>3. TypeOK
    BY <1>1, <1>2, ReminderAssumption, SlotsAreNumbers DEF Init, TypeOK, Idle
  <1> QED BY <1>1, <1>2, <1>3 DEF RemindersInv, RunsHoldTheirKind, FlagsTellTheTruth, HeldOnce,
       PushedIsFlagged, RemindedOnce, IsFlagged, Holds, HasPushed, Flags

-----------------------------------------------------------------------------
(* What the employee and the manager do                                     *)

\* Whatever becomes of a row, its kind and its flags stay, and a follow-up's time.
LEMMA RowsKept ==
    ASSUME RemindersInv, TypeOK', UNCHANGED <<now, run, pushes, excused>>,
           NEW d \in Dues, \A e \in Dues \ {d} : due'[e] = due[e], Exists(d)',
           Exists(d) => /\ due'[d].kind = due[d].kind
                        /\ due'[d].sent24 = due[d].sent24 /\ due'[d].sent1 = due[d].sent1
                        /\ due[d].kind = "FOLLOW_UP" => due'[d].at = due[d].at,
           ~Exists(d) => ~due'[d].sent24 /\ ~due'[d].sent1
    PROVE  RemindersInv'
  <1> USE DEF RemindersInv
  <1>1. \A e \in Dues, f \in Flags : IsFlagged(e, f)' <=> IsFlagged(e, f)
    BY DEF IsFlagged, Exists, Flags
  <1>2. \A w \in Workers, e \in Dues, f \in Flags :
           (HasPushed(w, e, f)' <=> HasPushed(w, e, f)) /\ (Holds(w, e, f)' <=> Holds(w, e, f))
    BY DEF HasPushed, Holds
  <1>3. RunsHoldTheirKind'
    <2>1. ASSUME NEW w \in Workers, NEW e \in run[w].rows
          PROVE  /\ Exists(e)' /\ due'[e].kind = KindOf(run[w].job)
                 /\ run[w].job = "fu_escalate" => due'[e].sent24 /\ due'[e].at <= now - 4
      <3>1. e \in Dues
        BY RunType
      <3>2. /\ Exists(e) /\ due[e].kind = KindOf(run[w].job)
            /\ run[w].job = "fu_escalate" => due[e].sent24 /\ due[e].at <= now - 4
        BY DEF RunsHoldTheirKind
      <3>3. run[w].job = "fu_escalate" => KindOf(run[w].job) = "FOLLOW_UP"
        BY DEF KindOf
      <3> QED BY <3>1, <3>2, <3>3 DEF Exists
    <2> QED BY <2>1 DEF RunsHoldTheirKind
  <1>4. FlagsTellTheTruth' /\ PushedIsFlagged'
    BY <1>1, <1>2 DEF FlagsTellTheTruth, PushedIsFlagged
  <1>5. HeldOnce' /\ RemindedOnce'
    BY DEF HeldOnce, RemindedOnce
  <1> QED BY <1>3, <1>4, <1>5

LEMMA PlanStep ==
    ASSUME RemindersInv, NEW d \in Dues, NEW kind \in Kinds, NEW t \in Slots, Plan(d, kind, t)
    PROVE  RemindersInv'
  <1> USE DEF RemindersInv
  <1>1. PICK row \in Row : /\ ~row.sent24 /\ ~row.sent1 /\ row # NoRow
                           /\ due' = [due EXCEPT ![d] = row]
    <2> DEFINE row == [kind |-> kind, at |-> t, since |-> now, told |-> FALSE, used |-> FALSE,
                       status |-> "PENDING", sent24 |-> FALSE, sent1 |-> FALSE]
    <2>1. row \in Row /\ ~row.sent24 /\ ~row.sent1
      BY DEF Row, TypeOK
    <2>2. row # NoRow /\ due' = [due EXCEPT ![d] = row]
      BY DEF NoRow, Plan
    <2> QED BY <2>1, <2>2
  <1>2. TypeOK' /\ Exists(d)' /\ ~due'[d].sent24 /\ ~due'[d].sent1
        /\ \A e \in Dues \ {d} : due'[e] = due[e]
    BY <1>1 DEF TypeOK, Plan, Unrun, Exists
  <1> QED BY <1>2, RowsKept DEF Plan, Unrun

\* A row that is there is given other values.
LEMMA RowChanged ==
    ASSUME RemindersInv, NEW d \in Dues, Exists(d), Unrun, NEW row \in Row,
           due' = [due EXCEPT ![d] = row],
           row.kind = due[d].kind, row.sent24 = due[d].sent24, row.sent1 = due[d].sent1,
           row.kind = "FOLLOW_UP" => row.at = due[d].at
    PROVE  RemindersInv'
  <1> USE DEF RemindersInv
  <1>1. row # NoRow
    BY RowType
  <1>2. due'[d] = row /\ \A e \in Dues \ {d} : due'[e] = due[e]
    BY DEF TypeOK
  <1>3. TypeOK' /\ Exists(d)'
    BY <1>1, <1>2 DEF TypeOK, Unrun, Exists
  <1> QED BY <1>2, <1>3, RowsKept DEF Unrun

LEMMA UseStep == ASSUME RemindersInv, Use PROVE RemindersInv'
  <1>1. PICK d \in Dues : \/ Acknowledge(d) \/ Finish(d)
                          \/ \E t \in Slots : MoveStop(d, t) \/ \E kind \in Kinds : Plan(d, kind, t)
    BY DEF Use
  <1>2. ASSUME NEW status \in {"ACKNOWLEDGED", "DONE"}, Exists(d), Unrun,
               due' = [due EXCEPT ![d].status = status]
        PROVE  RemindersInv'
    <2>1. due[d] \in Row
      BY <1>2, RowType DEF RemindersInv
    <2>2. PICK row \in Row : /\ row = [due[d] EXCEPT !.status = status]
                             /\ row.kind = due[d].kind /\ row.at = due[d].at
                             /\ row.sent24 = due[d].sent24 /\ row.sent1 = due[d].sent1
      <3> DEFINE row == [due[d] EXCEPT !.status = status]
      <3>1. row \in Row /\ row.kind = due[d].kind /\ row.at = due[d].at
            /\ row.sent24 = due[d].sent24 /\ row.sent1 = due[d].sent1
        BY <2>1 DEF Row
      <3> QED BY <3>1
    <2>3. due' = [due EXCEPT ![d] = row]
      BY <1>2, <2>2
    <2> QED BY <1>2, <2>2, <2>3, RowChanged
  <1>3. CASE Acknowledge(d) \/ Finish(d)
    BY <1>2, <1>3 DEF Acknowledge, Finish
  <1>4. ASSUME NEW t \in Slots, MoveStop(d, t)
        PROVE  RemindersInv'
    <2>1. due[d] \in Row /\ due[d].kind = "STOP" /\ Exists(d) /\ Unrun
      BY <1>4, RowType DEF RemindersInv, MoveStop
    <2>2. PICK used \in BOOLEAN : used = (due[d].sent1 \/ d \in Held)
      BY <2>1 DEF Row
    <2>3. PICK row \in Row :
             /\ row = [due[d] EXCEPT !.at = t, !.since = now, !.told = FALSE, !.used = used]
             /\ row.kind = due[d].kind
             /\ row.sent24 = due[d].sent24 /\ row.sent1 = due[d].sent1
      <3> DEFINE row == [due[d] EXCEPT !.at = t, !.since = now, !.told = FALSE, !.used = used]
      <3>1. now \in Slots
        BY DEF RemindersInv, TypeOK
      <3>2. row \in Row /\ row.kind = due[d].kind
            /\ row.sent24 = due[d].sent24 /\ row.sent1 = due[d].sent1
        BY <2>1, <3>1 DEF Row
      <3> QED BY <3>2
    <2>4. due' = [due EXCEPT ![d] = row]
      BY <1>4, <2>2, <2>3 DEF MoveStop, RemindersInv, TypeOK
    <2> QED BY <2>1, <2>3, <2>4, RowChanged
  <1> QED BY <1>1, <1>3, <1>4, PlanStep

-----------------------------------------------------------------------------
(* The runs                                                                 *)

LEMMA BeginStep ==
    ASSUME RemindersInv, NEW w \in Workers, NEW job \in Jobs, Begin(w, job) PROVE RemindersInv'
  <1> USE DEF RemindersInv
  <1>1. /\ run[w] = Idle /\ UNCHANGED <<now, due, pushes, deaths>>
        /\ excused \subseteq excused' /\ Rows(job) \subseteq Dues
    BY JobReads DEF Begin
  <1>2. CASE Rows(job) = {}
    <2>1. UNCHANGED <<run, excused>>
      BY <1>2 DEF Begin
    <2>2. TypeOK'
      BY <1>1, <2>1 DEF TypeOK, Begin
    <2> QED BY <1>1, <2>1, <2>2 DEF RunsHoldTheirKind, FlagsTellTheTruth, HeldOnce,
         PushedIsFlagged, RemindedOnce, IsFlagged, Holds, HasPushed, Exists
  <1>3. CASE Rows(job) # {}
    <2>1. PICK r \in [job : Jobs \cup {"NONE"}, rows : SUBSET Dues, pushed : SUBSET Dues] :
             /\ r.job = job /\ r.rows = Rows(job) /\ r.pushed = {}
             /\ run' = [run EXCEPT ![w] = r]
      <3> DEFINE r == [job |-> job, rows |-> Rows(job), pushed |-> {}]
      <3>1. /\ r \in [job : Jobs \cup {"NONE"}, rows : SUBSET Dues, pushed : SUBSET Dues]
            /\ r.job = job /\ r.rows = Rows(job) /\ r.pushed = {}
        BY <1>1
      <3>2. run' = [run EXCEPT ![w] = r]
        BY <1>3 DEF Begin
      <3> QED BY <3>1, <3>2
    <2>2. run'[w] = r /\ \A v \in Workers \ {w} : run'[v] = run[v]
      BY <2>1 DEF TypeOK
    <2>3. TypeOK'
      <3>1. excused' \subseteq Dues
        BY <1>1 DEF Begin, TypeOK
      <3>2. \A v \in Workers : run'[v].pushed \subseteq run'[v].rows
        BY <2>1, <2>2 DEF TypeOK
      <3> QED BY <1>1, <2>1, <3>1, <3>2 DEF TypeOK, Begin
    <2>4. RunsHoldTheirKind'
      <3>1. job # "NONE"
        BY JobsAre
      <3>2. \A d \in Rows(job) :
               /\ Exists(d) /\ due[d].kind = KindOf(job)
               /\ job = "fu_escalate" => due[d].sent24 /\ due[d].at <= now - 4
        BY JobReads
      <3> QED BY <1>1, <2>1, <2>2, <3>1, <3>2 DEF RunsHoldTheirKind, Exists
    <2>5. ASSUME NEW v \in Workers, NEW d \in Dues, NEW f \in Flags
          PROVE  /\ HasPushed(v, d, f)' <=> HasPushed(v, d, f)
                 /\ Holds(v, d, f)' <=> \/ Holds(v, d, f)
                                        \/ v = w /\ d \in Rows(job) /\ FlagOf(job) = f
                 /\ IsFlagged(d, f)' <=> IsFlagged(d, f)
      <3>1. Idle.rows = {} /\ Idle.pushed = {}
        BY DEF Idle
      <3> QED BY <1>1, <2>1, <2>2, <3>1 DEF HasPushed, Holds, IsFlagged, Exists
    <2>6. FlagsTellTheTruth'
      BY <1>1, <2>5 DEF FlagsTellTheTruth
    <2>7. HeldOnce'
      <3>1. \A v \in Workers \ {w}, d \in Rows(job) :
               d \in run[v].rows /\ run[v].job = job => d \in excused'
        BY DEF Begin
      <3> QED BY <1>1, <2>1, <2>2, <3>1 DEF HeldOnce
    <2>8. PushedIsFlagged'
      <3>1. \A d \in Rows(job), f \in Flags : FlagOf(job) = f => ~IsFlagged(d, f)
        BY JobReads
      <3> QED BY <1>1, <2>5, <3>1 DEF PushedIsFlagged
    <2>9. RemindedOnce'
      BY <1>1 DEF RemindedOnce
    <2> QED BY <2>3, <2>4, <2>6, <2>7, <2>8, <2>9
  <1> QED BY <1>2, <1>3

LEMMA PushStep ==
    ASSUME RemindersInv, NEW w \in Workers, NEW d \in Dues, Push(w, d) PROVE RemindersInv'
  <1> USE DEF RemindersInv
  <1>1. /\ d \in run[w].rows /\ d \notin run[w].pushed
        /\ UNCHANGED <<now, ran, excused, deaths>>
    BY DEF Push
  <1>2. run[w].job \in Jobs /\ Sets(w) = FlagOf(run[w].job) /\ FlagOf(run[w].job) \in Flags \cup {"status"}
    <2>1. run[w].job \in Jobs
      BY <1>1, RunType DEF Idle
    <2> QED BY <2>1, JobSets DEF Sets, FlagOf, Flags
  <1>3. PICK r \in [job : Jobs \cup {"NONE"}, rows : SUBSET Dues, pushed : SUBSET Dues] :
           /\ r.job = run[w].job /\ r.rows = run[w].rows /\ r.pushed = run[w].pushed \cup {d}
           /\ run' = [run EXCEPT ![w] = r]
    <2> DEFINE r == [run[w] EXCEPT !.pushed = run[w].pushed \cup {d}]
    <2>1. run[w] \in [job : Jobs \cup {"NONE"}, rows : SUBSET Dues, pushed : SUBSET Dues]
      BY DEF TypeOK
    <2>2. /\ r \in [job : Jobs \cup {"NONE"}, rows : SUBSET Dues, pushed : SUBSET Dues]
          /\ r.job = run[w].job /\ r.rows = run[w].rows /\ r.pushed = run[w].pushed \cup {d}
      BY <2>1
    <2>3. run' = [run EXCEPT ![w] = r]
      BY DEF Push
    <2> QED BY <2>2, <2>3
  <1>4. run'[w] = r /\ \A v \in Workers \ {w} : run'[v] = run[v]
    BY <1>3 DEF TypeOK
  <1>5. /\ Exists(d) /\ due[d] \in Row /\ NoRow \notin Row
    BY <1>1, RowType DEF RunsHoldTheirKind
  <1>6. PICK row \in Row : /\ row = [due[d] EXCEPT !.told = TRUE]
                           /\ row.kind = due[d].kind /\ row.at = due[d].at
                           /\ row.sent24 = due[d].sent24 /\ row.sent1 = due[d].sent1
    <2> DEFINE row == [due[d] EXCEPT !.told = TRUE]
    <2>1. row \in Row /\ row.kind = due[d].kind /\ row.at = due[d].at
          /\ row.sent24 = due[d].sent24 /\ row.sent1 = due[d].sent1
      BY <1>5 DEF Row
    <2> QED BY <2>1
  <1>7. /\ due' = [due EXCEPT ![d] = row]
        /\ due'[d] = row /\ row # NoRow /\ \A e \in Dues \ {d} : due'[e] = due[e]
    BY <1>5, <1>6 DEF Push, TypeOK
  <1>8. \A e \in Dues : /\ Exists(e)' <=> Exists(e)
                        /\ due'[e].kind = due[e].kind /\ due'[e].at = due[e].at
                        /\ due'[e].sent24 = due[e].sent24 /\ due'[e].sent1 = due[e].sent1
    BY <1>5, <1>6, <1>7 DEF Exists
  <1>9. ASSUME NEW v \in Workers, NEW e \in Dues, NEW f \in Flags
        PROVE  /\ HasPushed(v, e, f)' <=> \/ HasPushed(v, e, f)
                                          \/ v = w /\ e = d /\ FlagOf(run[w].job) = f
               /\ Holds(v, e, f)' <=> Holds(v, e, f)
               /\ IsFlagged(e, f)' <=> IsFlagged(e, f)
    <2>1. IsFlagged(e, f)' <=> IsFlagged(e, f)
      BY <1>8 DEF IsFlagged
    <2>2. CASE v = w
      BY <2>1, <2>2, <1>3, <1>4 DEF HasPushed, Holds
    <2>3. CASE v # w
      BY <2>1, <2>3, <1>4 DEF HasPushed, Holds
    <2> QED BY <2>2, <2>3
  \* The push is counted.
  <1>10. ASSUME NEW e \in Dues, NEW f \in Flags
         PROVE  /\ pushes[e][f] \in 0..2 /\ pushes'[e][f] \in 0..2
                /\ e = d /\ FlagOf(run[w].job) = f => pushes'[e][f] > 0
                /\ e = d /\ FlagOf(run[w].job) = f /\ pushes[e][f] = 0 => pushes'[e][f] = 1
                /\ ~(e = d /\ FlagOf(run[w].job) = f) => pushes'[e][f] = pushes[e][f]
    <2>1. pushes[e][f] \in 0..2 /\ f # "status"
      BY DEF TypeOK, Flags
    <2>2. CASE FlagOf(run[w].job) = "status"
      BY <2>1, <2>2, <1>2 DEF Push
    <2>3. CASE FlagOf(run[w].job) \in Flags
      <3>1. PICK g \in Flags : g = FlagOf(run[w].job)
        BY <2>3
      <3>2. pushes[d][g] \in 0..2
        BY DEF TypeOK, Flags
      <3>3. PICK n \in 0..2 : /\ n = AtMost2(pushes[d][g] + 1) /\ n > 0
                              /\ pushes[d][g] = 0 => n = 1
        BY <3>2 DEF AtMost2
      <3>4. pushes' = [pushes EXCEPT ![d][g] = n]
        BY <3>1, <3>3, <1>2 DEF Push, Flags
      <3> QED BY <2>1, <3>1, <3>3, <3>4 DEF TypeOK, Flags
    <2> QED BY <2>2, <2>3, <1>2
  <1>11. TypeOK'
    <2>1. pushes' \in [Dues -> [{"24h", "1h"} -> 0..2]]
      <3>1. CASE Sets(w) = "status"
        BY <3>1 DEF Push, TypeOK
      <3>2. CASE Sets(w) # "status"
        <4>1. PICK g \in Flags : g = Sets(w)
          BY <3>2, <1>2
        <4>2. AtMost2(pushes[d][g] + 1) \in 0..2
          BY DEF TypeOK, Flags, AtMost2
        <4> QED BY <3>2, <4>1, <4>2 DEF Push, TypeOK, Flags
      <3> QED BY <3>1, <3>2
    <2>2. \A v \in Workers : run'[v].pushed \subseteq run'[v].rows
      BY <1>1, <1>3, <1>4 DEF TypeOK
    <2> QED BY <1>1, <1>3, <1>7, <2>1, <2>2 DEF TypeOK
  <1>12. RunsHoldTheirKind'
    <2>1. ASSUME NEW v \in Workers
          PROVE  /\ run'[v].rows = run[v].rows /\ run'[v].job = run[v].job
                 /\ run'[v].job = "NONE" => run'[v] = run[v] /\ v # w
                 /\ run[v].rows \subseteq Dues
      <3>1. run[w].job # "NONE"
        BY <1>2, JobsAre
      <3> QED BY <3>1, <1>3, <1>4, RunType
    <2> QED BY <2>1, <1>1, <1>8 DEF RunsHoldTheirKind
  <1>13. FlagsTellTheTruth'
    <2>1. ASSUME NEW e \in Dues, NEW f \in Flags,
                 IsFlagged(e, f)' \/ \E v \in Workers : HasPushed(v, e, f)'
          PROVE  pushes'[e][f] > 0
      BY <2>1, <1>9, <1>10 DEF FlagsTellTheTruth
    <2> QED BY <2>1 DEF FlagsTellTheTruth
  <1>14. HeldOnce'
    BY <1>1, <1>3, <1>4 DEF HeldOnce
  <1>15. PushedIsFlagged' /\ RemindedOnce'
    <2>1. ASSUME NEW e \in Dues \ excused, NEW f \in Flags
          PROVE  /\ \A v \in Workers : Holds(v, e, f)' => ~IsFlagged(e, f)'
                 /\ pushes'[e][f] > 0 => IsFlagged(e, f)' \/ \E v \in Workers : HasPushed(v, e, f)'
                 /\ pushes'[e][f] <= 1
      <3>1. \A v \in Workers : Holds(v, e, f)' => ~IsFlagged(e, f)'
        BY <1>9 DEF PushedIsFlagged
      <3>2. CASE e = d /\ FlagOf(run[w].job) = f
        <4>1. Holds(w, e, f) /\ ~HasPushed(w, e, f)
          BY <3>2, <1>1 DEF Holds, HasPushed
        <4>2. \A v \in Workers : ~HasPushed(v, e, f)
          <5>1. \A v \in Workers : HasPushed(v, e, f) => Holds(v, e, f)
            BY RunType DEF HasPushed, Holds
          <5> QED BY <4>1, <5>1, OneHolder
        <4>3. pushes[e][f] = 0
          BY <4>1, <4>2, <1>10 DEF PushedIsFlagged
        <4> QED BY <3>1, <3>2, <4>3, <1>9, <1>10
      <3>3. CASE ~(e = d /\ FlagOf(run[w].job) = f)
        <4>1. pushes[e][f] <= 1
          BY DEF RemindedOnce, Flags
        <4> QED BY <3>1, <3>3, <4>1, <1>9, <1>10 DEF PushedIsFlagged
      <3> QED BY <3>2, <3>3
    <2> QED BY <2>1, <1>1 DEF PushedIsFlagged, RemindedOnce, Flags
  <1> QED BY <1>11, <1>12, <1>13, <1>14, <1>15

\* A run that is over, committed or dead, holds nothing.
LEMMA RunIsOver ==
    ASSUME TypeOK, RunsHoldTheirKind, NEW w \in Workers, run' = [run EXCEPT ![w] = Idle]
    PROVE  /\ run'[w] = Idle /\ \A v \in Workers \ {w} : run'[v] = run[v]
           /\ run' \in [Workers -> [job : Jobs \cup {"NONE"}, rows : SUBSET Dues, pushed : SUBSET Dues]]
           /\ \A v \in Workers : run'[v].pushed \subseteq run'[v].rows
           /\ \A v \in Workers, e \in Dues, f \in Flags :
                 /\ HasPushed(v, e, f)' <=> v # w /\ HasPushed(v, e, f)
                 /\ Holds(v, e, f)' <=> v # w /\ Holds(v, e, f)
  <1>1. run'[w] = Idle /\ \A v \in Workers \ {w} : run'[v] = run[v]
    BY DEF TypeOK
  <1>2. /\ Idle \in [job : Jobs \cup {"NONE"}, rows : SUBSET Dues, pushed : SUBSET Dues]
        /\ Idle.rows = {} /\ Idle.pushed = {}
    BY RunType
  <1> QED BY <1>1, <1>2 DEF TypeOK, HasPushed, Holds

LEMMA DieStep == ASSUME RemindersInv, NEW w \in Workers, Die(w) PROVE RemindersInv'
  <1> USE DEF RemindersInv
  <1>1. /\ run' = [run EXCEPT ![w] = Idle] /\ UNCHANGED <<now, due, ran, pushes>>
        /\ excused' = excused \cup run[w].pushed /\ deaths < MaxDeaths /\ deaths' = deaths + 1
    BY DEF Die
  <1>2. Idle.rows = {} /\ Idle.job = "NONE"
    BY DEF Idle
  <1>3. TypeOK'
    <2>1. deaths' \in 0..MaxDeaths
      BY <1>1, ReminderAssumption DEF TypeOK
    <2>2. excused' \subseteq Dues
      BY <1>1, RunType DEF TypeOK
    <2> QED BY <1>1, <2>1, <2>2, RunIsOver DEF TypeOK
  <1>4. RunsHoldTheirKind'
    BY <1>1, <1>2, RunIsOver DEF RunsHoldTheirKind, Exists
  <1>5. \A e \in Dues, f \in Flags : IsFlagged(e, f)' <=> IsFlagged(e, f)
    BY <1>1 DEF IsFlagged, Exists
  <1>6. FlagsTellTheTruth'
    BY <1>1, <1>5, RunIsOver DEF FlagsTellTheTruth
  <1>7. HeldOnce'
    BY <1>1, <1>2, RunIsOver DEF HeldOnce
  <1>8. PushedIsFlagged'
    <2>1. ASSUME NEW e \in Dues \ excused', NEW f \in Flags
          PROVE  /\ \A v \in Workers : Holds(v, e, f)' => ~IsFlagged(e, f)'
                 /\ pushes'[e][f] > 0 => IsFlagged(e, f)' \/ \E v \in Workers : HasPushed(v, e, f)'
      <3>1. e \notin excused /\ ~HasPushed(w, e, f)
        BY <1>1 DEF HasPushed
      <3>2. \A v \in Workers : Holds(v, e, f)' => Holds(v, e, f)
        BY <1>1, RunIsOver
      <3>3. \A v \in Workers : HasPushed(v, e, f) => HasPushed(v, e, f)'
        BY <3>1, <1>1, RunIsOver
      <3> QED BY <3>1, <3>2, <3>3, <1>1, <1>5 DEF PushedIsFlagged
    <2> QED BY <2>1 DEF PushedIsFlagged
  <1>9. RemindedOnce'
    BY <1>1 DEF RemindedOnce
  <1> QED BY <1>3, <1>4, <1>6, <1>7, <1>8, <1>9

\* The row that a run leaves.
LEMMA FlaggedRow ==
    ASSUME NEW row \in Row, NEW sets \in Flags \cup {"status"}
    PROVE  /\ Flagged(row, sets) \in Row
           /\ Flagged(row, sets).kind = row.kind /\ Flagged(row, sets).at = row.at
           /\ Flagged(row, sets).sent24 = (row.sent24 \/ sets = "24h")
           /\ Flagged(row, sets).sent1 = (row.sent1 \/ sets = "1h")
           /\ Flagged(row, sets).status = IF sets = "status" THEN "ESCALATED" ELSE row.status
  <1>1. (row.sent24 \/ sets = "24h") \in BOOLEAN /\ (row.sent1 \/ sets = "1h") \in BOOLEAN
    BY DEF Row
  <1> QED BY <1>1 DEF Flagged, Row

LEMMA CommitStep == ASSUME RemindersInv, NEW w \in Workers, Commit(w) PROVE RemindersInv'
  <1> USE DEF RemindersInv
  <1>1. /\ run[w] # Idle /\ run[w].pushed = run[w].rows /\ run' = [run EXCEPT ![w] = Idle]
        /\ UNCHANGED <<now, ran, pushes, excused, deaths>>
    BY DEF Commit
  <1>2. run[w].job \in Jobs /\ Sets(w) = FlagOf(run[w].job) /\ FlagOf(run[w].job) \in Flags \cup {"status"}
    <2>1. run[w].job \in Jobs
      BY <1>1, RunType
    <2> QED BY <2>1, JobSets DEF Sets, FlagOf, Flags
  <1>3. PICK sets \in Flags \cup {"status"} : sets = FlagOf(run[w].job)
    BY <1>2
  <1>4. /\ due' = [d \in Dues |-> IF d \in run[w].rows THEN Flagged(due[d], sets) ELSE due[d]]
        /\ \A d \in run[w].rows : d \in Dues /\ Exists(d) /\ due[d] \in Row
        /\ NoRow \notin Row \/ run[w].rows = {}
    BY <1>2, <1>3, RunType, RowType DEF Commit, RunsHoldTheirKind
  <1>5. \A d \in Dues : /\ due'[d] \in Row \cup {NoRow} /\ (Exists(d)' <=> Exists(d))
                        /\ Exists(d) => due'[d].kind = due[d].kind /\ due'[d].at = due[d].at
                                        /\ (due[d].sent24 => due'[d].sent24)
    <2>1. ASSUME NEW d \in run[w].rows
          PROVE  /\ due'[d] \in Row \cup {NoRow} /\ (Exists(d)' <=> Exists(d))
                 /\ Exists(d) => due'[d].kind = due[d].kind /\ due'[d].at = due[d].at
                                 /\ (due[d].sent24 => due'[d].sent24)
      <3>1. due'[d] = Flagged(due[d], sets) /\ NoRow \notin Row /\ due[d] \in Row
        BY <1>4
      <3>2. /\ due'[d] \in Row /\ due'[d].kind = due[d].kind /\ due'[d].at = due[d].at
            /\ due'[d].sent24 = (due[d].sent24 \/ sets = "24h")
        BY <3>1, FlaggedRow
      <3>3. due[d].sent24 \in BOOLEAN /\ due'[d].sent24 \in BOOLEAN
        BY <3>1, <3>2 DEF Row
      <3>4. due[d].sent24 => due'[d].sent24
        BY <3>2, <3>3
      <3>5. Exists(d)' /\ Exists(d)
        BY <3>1, <3>2 DEF Exists
      <3> QED BY <3>2, <3>4, <3>5
    <2>2. ASSUME NEW d \in Dues \ run[w].rows PROVE due'[d] = due[d]
      BY <1>4
    <2> QED BY <2>1, <2>2 DEF Exists, TypeOK
  <1>6. ASSUME NEW d \in Dues, NEW f \in Flags
        PROVE  IsFlagged(d, f)' <=> IsFlagged(d, f) \/ Holds(w, d, f)
    <2>1. CASE d \in run[w].rows
      <3>1. /\ due'[d].sent24 = (due[d].sent24 \/ sets = "24h")
            /\ due'[d].sent1 = (due[d].sent1 \/ sets = "1h") /\ Exists(d)
        BY <2>1, <1>4, FlaggedRow
      <3> QED BY <2>1, <3>1, <1>3, <1>5 DEF IsFlagged, Holds, Flags
    <2>2. CASE d \notin run[w].rows
      <3>1. due'[d] = due[d]
        BY <2>2, <1>4
      <3> QED BY <2>2, <3>1 DEF IsFlagged, Holds, Exists
    <2> QED BY <2>1, <2>2
  <1>7. \A d \in Dues, f \in Flags : HasPushed(w, d, f) <=> Holds(w, d, f)
    BY <1>1 DEF HasPushed, Holds
  <1>8. TypeOK'
    <2>1. due' \in [Dues -> Row \cup {NoRow}]
      BY <1>4, <1>5
    <2> QED BY <1>1, <2>1, RunIsOver DEF TypeOK
  <1>9. RunsHoldTheirKind'
    <2>1. \A v \in Workers : run[v].rows \subseteq Dues
      BY RunType
    <2>2. Idle.rows = {} /\ Idle.job = "NONE"
      BY DEF Idle
    <2> QED BY <2>1, <2>2, <1>1, <1>5, RunIsOver DEF RunsHoldTheirKind
  <1>10. FlagsTellTheTruth'
    BY <1>1, <1>6, <1>7, RunIsOver DEF FlagsTellTheTruth
  <1>11. HeldOnce'
    <2>1. Idle.rows = {}
      BY DEF Idle
    <2> QED BY <2>1, <1>1, RunIsOver DEF HeldOnce
  <1>12. PushedIsFlagged'
    <2>1. ASSUME NEW d \in Dues \ excused, NEW f \in Flags
          PROVE  /\ \A v \in Workers : Holds(v, d, f)' => ~IsFlagged(d, f)'
                 /\ pushes[d][f] > 0 => IsFlagged(d, f)' \/ \E v \in Workers : HasPushed(v, d, f)'
      <3>1. ASSUME NEW v \in Workers, Holds(v, d, f)' PROVE ~IsFlagged(d, f)'
        <4>1. v # w /\ Holds(v, d, f)
          BY <3>1, <1>1, RunIsOver
        <4>2. ~Holds(w, d, f)
          BY <4>1, OneHolder
        <4> QED BY <4>1, <4>2, <1>6 DEF PushedIsFlagged
      <3>2. pushes[d][f] > 0 => IsFlagged(d, f)' \/ \E v \in Workers : HasPushed(v, d, f)'
        <4>1. ASSUME NEW v \in Workers, HasPushed(v, d, f)
              PROVE  IsFlagged(d, f)' \/ HasPushed(v, d, f)'
          BY <4>1, <1>1, <1>6, <1>7, RunIsOver
        <4> QED BY <4>1, <1>6 DEF PushedIsFlagged
      <3> QED BY <3>1, <3>2
    <2> QED BY <2>1, <1>1 DEF PushedIsFlagged
  <1>13. RemindedOnce'
    BY <1>1 DEF RemindedOnce
  <1> QED BY <1>8, <1>9, <1>10, <1>11, <1>12, <1>13

LEMMA TickStep == ASSUME RemindersInv, Tick PROVE RemindersInv'
  <1> USE DEF RemindersInv
  <1>1. now' \in Slots
    BY SlotsAreNumbers DEF Tick, TypeOK
  <1>2. TypeOK'
    BY <1>1 DEF Tick, TypeOK
  <1>3. RunsHoldTheirKind'
    <2>1. Idle.rows = {} /\ Idle.job = "NONE"
      BY DEF Idle
    <2> QED BY <2>1 DEF Tick, RunsHoldTheirKind
  <1>4. FlagsTellTheTruth' /\ HeldOnce' /\ PushedIsFlagged' /\ RemindedOnce'
    BY DEF Tick, FlagsTellTheTruth, HeldOnce, PushedIsFlagged, RemindedOnce, IsFlagged, Holds,
           HasPushed, Exists
  <1> QED BY <1>2, <1>3, <1>4

-----------------------------------------------------------------------------
(* The reminders: the results                                               *)

LEMMA RemindersStep == ASSUME RemindersInv, [Next]_vars PROVE RemindersInv'
  <1>1. CASE Work
    <2>1. PICK w \in Workers :
             \/ \E n \in 1..Len(Order) : Claim(w, n)
             \/ \E job \in Jobs : ClaimInVain(w, job)
             \/ \E d \in Dues : Push(w, d)
             \/ Commit(w) \/ Die(w)
      BY <1>1 DEF Work
    <2>2. CASE \E n \in 1..Len(Order) : Claim(w, n)
      BY <2>2, BeginStep, JobsAre DEF Claim
    <2>3. CASE \E job \in Jobs : ClaimInVain(w, job)
      BY <2>3, BeginStep DEF ClaimInVain
    <2> QED BY <2>1, <2>2, <2>3, PushStep, CommitStep, DieStep
  <1>2. CASE UNCHANGED vars
    BY <1>2 DEF vars, RemindersInv, TypeOK, RunsHoldTheirKind, FlagsTellTheTruth, HeldOnce,
                PushedIsFlagged, RemindedOnce, IsFlagged, Holds, HasPushed, Exists
  <1> QED BY <1>1, <1>2, UseStep, TickStep DEF Next

LEMMA RemindersAlways == Spec => []RemindersInv
  <1> QED BY RemindersInitially, RemindersStep, PTL DEF Spec

\* Every variable of the reminders keeps its type (core/scheduler.py).
THEOREM RemindersTypeCorrect == Spec => []TypeOK
  <1>1. RemindersInv => TypeOK
    BY DEF RemindersInv
  <1> QED BY <1>1, RemindersAlways, PTL

\* However many workers run the jobs, with the lock or without it, a reminder
\* is pushed twice only if a run that had pushed it died, or two runs held the
\* row at once (_claim, the flags of send_*_reminders).
THEOREM NobodyIsRemindedTwice == Spec => []RemindedOnce
  <1>1. RemindersInv => RemindedOnce
    BY DEF RemindersInv
  <1> QED BY <1>1, RemindersAlways, PTL

\* Only a run that read the row before it was acknowledged or completed
\* escalates it after that, and what is escalated was reminded of and is two
\* hours past (escalate_unacknowledged_followups).
THEOREM EscalationIsEarned == Spec => OnlyARunOvertakes
  <1> DEFINE Overtakes ==
        \A d \in Dues : Exists(d) =>
          /\ (due[d].status \in {"ACKNOWLEDGED", "DONE"} /\ ~Escalating(d)) => ~Escalating(d)'
          /\ (due[d].status # "ESCALATED" /\ due'[d].status = "ESCALATED") =>
                Escalating(d) /\ due[d].at <= now - 4 /\ pushes[d]["24h"] > 0
  <1>1. ASSUME RemindersInv, [Next]_vars, NEW d \in Dues, Exists(d)
        PROVE  /\ (due[d].status \in {"ACKNOWLEDGED", "DONE"} /\ ~Escalating(d)) => ~Escalating(d)'
               /\ (due[d].status # "ESCALATED" /\ due'[d].status = "ESCALATED") =>
                     Escalating(d) /\ due[d].at <= now - 4 /\ pushes[d]["24h"] > 0
    <2>0. due[d] \in Row /\ TypeOK
      BY <1>1, RowType DEF RemindersInv
    \* Which actions change what a run holds, and which a row's status.
    <2>1. CASE Use
      <3>1. due'[d].status # "ESCALATED" \/ due'[d].status = due[d].status
        <4>1. PICK e \in Dues : \/ Acknowledge(e) \/ Finish(e)
                                \/ \E t \in Slots : MoveStop(e, t) \/ \E kind \in Kinds : Plan(e, kind, t)
          BY <2>1 DEF Use
        <4>2. CASE Acknowledge(e) \/ Finish(e)
          BY <4>2, <2>0 DEF Acknowledge, Finish, TypeOK, Row
        <4>3. CASE \E t \in Slots : MoveStop(e, t)
          <5>1. PICK t \in Slots : \E used :
                   due' = [due EXCEPT ![e].at = t, ![e].since = now, ![e].told = FALSE, ![e].used = used]
            BY <4>3 DEF MoveStop
          <5> QED BY <5>1, <2>0 DEF TypeOK, Row
        <4>4. CASE \E t \in Slots, kind \in Kinds : Plan(e, kind, t)
          BY <4>4, <2>0, <1>1 DEF Plan, TypeOK
        <4> QED BY <4>1, <4>2, <4>3, <4>4
      <3>2. run' = run
        BY <2>1 DEF Use, Plan, MoveStop, Acknowledge, Finish, Unrun
      <3> QED BY <3>1, <3>2 DEF Escalating
    <2>2. ASSUME NEW w \in Workers, NEW job \in Jobs, Begin(w, job)
          PROVE  /\ due' = due
                 /\ due[d].status # "PENDING" /\ ~Escalating(d) => ~Escalating(d)'
      <3>1. CASE Rows(job) = {}
        BY <3>1, <2>2 DEF Begin, Escalating
      <3>2. CASE Rows(job) # {}
        <4>1. run' = [run EXCEPT ![w] = [job |-> job, rows |-> Rows(job), pushed |-> {}]]
          BY <3>2, <2>2 DEF Begin
        <4>2. /\ run'[w].job = job /\ run'[w].rows = Rows(job)
              /\ \A v \in Workers \ {w} : run'[v] = run[v]
          BY <4>1, <2>0 DEF TypeOK
        <4>3. job = "fu_escalate" /\ d \in Rows(job) => due[d].status = "PENDING"
          BY <2>0, JobReads
        <4> QED BY <4>2, <4>3, <2>2 DEF Begin, Escalating
      <3> QED BY <3>1, <3>2
    <2>3. ASSUME NEW w \in Workers, NEW e \in Dues, Push(w, e)
          PROVE  due'[d].status = due[d].status /\ (Escalating(d)' => Escalating(d))
      <3>1. due'[d].status = due[d].status
        BY <2>0, <2>3 DEF Push, TypeOK, Row
      <3>2. \A v \in Workers : run'[v].job = run[v].job /\ run'[v].rows = run[v].rows
        BY <2>0, <2>3 DEF Push, TypeOK
      <3> QED BY <3>1, <3>2 DEF Escalating
    <2>4. ASSUME NEW w \in Workers, Commit(w) \/ Die(w)
          PROVE  Escalating(d)' => Escalating(d)
      <3>1. run'[w] = Idle /\ \A v \in Workers \ {w} : run'[v] = run[v]
        BY <2>4, <1>1, RunIsOver DEF Commit, Die, RemindersInv
      <3> QED BY <3>1 DEF Escalating, Idle
    <2>5. ASSUME NEW w \in Workers, Commit(w), due[d].status # "ESCALATED",
                 due'[d].status = "ESCALATED"
          PROVE  Escalating(d) /\ due[d].at <= now - 4 /\ pushes[d]["24h"] > 0
      <3>1. run[w].job \in Jobs /\ Sets(w) = FlagOf(run[w].job) /\ FlagOf(run[w].job) \in Flags \cup {"status"}
        <4>1. run[w].job \in Jobs
          BY <2>5, <1>1, RunType DEF Commit, RemindersInv
        <4> QED BY <4>1, JobSets DEF Sets, FlagOf, Flags
      <3>2. d \in run[w].rows /\ Sets(w) = "status"
        <4>1. CASE d \notin run[w].rows
          BY <4>1, <2>5 DEF Commit
        <4>2. CASE d \in run[w].rows
          <5>1. due'[d] = Flagged(due[d], Sets(w))
            BY <4>2, <2>5 DEF Commit
          <5> QED BY <4>2, <5>1, <3>1, <2>0, <2>5, FlaggedRow
        <4> QED BY <4>1, <4>2
      <3>3. run[w].job = "fu_escalate"
        BY <3>1, <3>2, JobsAre DEF FlagOf
      <3>4. Escalating(d) /\ due[d].sent24 /\ due[d].at <= now - 4
        BY <3>2, <3>3, <1>1 DEF Escalating, RemindersInv, RunsHoldTheirKind
      <3>5. pushes[d]["24h"] > 0
        BY <3>4, <1>1 DEF RemindersInv, FlagsTellTheTruth, IsFlagged, Flags
      <3> QED BY <3>4, <3>5
    <2>6. ASSUME NEW w \in Workers, Die(w)
          PROVE  due' = due
      BY <2>6 DEF Die
    <2>7. CASE Work
      <3>1. PICK w \in Workers :
               \/ \E n \in 1..Len(Order) : Claim(w, n)
               \/ \E job \in Jobs : ClaimInVain(w, job)
               \/ \E e \in Dues : Push(w, e)
               \/ Commit(w) \/ Die(w)
        BY <2>7 DEF Work
      <3>2. CASE \/ \E n \in 1..Len(Order) : Claim(w, n)
                 \/ \E job \in Jobs : ClaimInVain(w, job)
        BY <3>2, <2>2, JobsAre DEF Claim, ClaimInVain
      <3>3. CASE \E e \in Dues : Push(w, e)
        BY <3>3, <2>3
      <3>4. CASE Commit(w) \/ Die(w)
        BY <3>4, <2>4, <2>5, <2>6
      <3> QED BY <3>1, <3>2, <3>3, <3>4
    <2>8. CASE Tick \/ UNCHANGED vars
      BY <2>8 DEF Tick, vars, Escalating
    <2> QED BY <2>1, <2>7, <2>8, <1>1 DEF Next
  <1>2. RemindersInv /\ [Next]_vars => [Overtakes]_vars
    BY <1>1
  <1> QED BY <1>2, RemindersAlways, PTL DEF Spec, OnlyARunOvertakes

-----------------------------------------------------------------------------
(* Every time has two chances.  The slots first: those before t, by no more  *)
(* than t's place in its day, are of t's day.                                *)

LEMMA SmallMultiple ==
    ASSUME NEW n \in Nat \ {0}, NEW x \in Int, -n < n * x, n * x < n PROVE x = 0
  <1>1. CASE x >= 1
    <2>1. n * x >= n
      BY <1>1
    <2> QED BY <2>1
  <1>2. CASE x <= -1
    <2>1. n * x <= -n
      BY <1>2
    <2> QED BY <2>1
  <1> QED BY <1>1, <1>2

LEMMA Division ==
    ASSUME NEW n \in Nat \ {0}, NEW t \in Nat
    PROVE  /\ t \div n \in Int /\ t % n \in Int
           /\ t = n * (t \div n) + (t % n) /\ 0 <= t % n /\ t % n < n
  BY Z3

LEMMA SameDay ==
    ASSUME NEW t \in Slots, NEW k \in Nat, k <= t % Day, k <= t PROVE DayOf(t - k) = DayOf(t)
  <1> DEFINE q == t \div Day
             r == t % Day
             u == (t - k) \div Day
             v == (t - k) % Day
  <1>0. Day \in Nat \ {0} /\ t \in Nat /\ t - k \in Nat /\ k <= r
    BY ReminderAssumption, SlotsAreNumbers
  <1>1. q \in Int /\ r \in Int /\ t = Day * q + r /\ 0 <= r /\ r < Day
    BY <1>0, Division
  <1>2. u \in Int /\ v \in Int /\ t - k = Day * u + v /\ 0 <= v /\ v < Day
    BY <1>0, Division
  <1> HIDE DEF q, r, u, v
  <1>3. Day * (u - q) = (r - k) - v
    <2>1. Day * (u - q) = Day * u - Day * q
      BY <1>0, <1>1, <1>2
    <2>2. Day * u \in Int /\ Day * q \in Int
      BY <1>0, <1>1, <1>2
    <2> QED BY <1>0, <1>1, <1>2, <2>1, <2>2
  <1>4. u - q \in Int /\ -Day < Day * (u - q) /\ Day * (u - q) < Day
    BY <1>0, <1>1, <1>2, <1>3
  <1>5. u - q = 0
    BY <1>0, <1>4, SmallMultiple
  <1> QED BY <1>1, <1>2, <1>5 DEF DayOf, q, u

\* The slot two or three before t is followed by an hour in which t lies.
LEMMA HourBefore ==
    ASSUME TypeOK, NEW t \in Slots, t % Day >= 3, now = t - 3 \/ now = t - 2 PROVE NextHour(t)
  <1>1. t \in Nat /\ now \in Nat /\ t >= now + 2
    BY SlotsAreNumbers DEF TypeOK
  <1>2. t % Day \in Int
    BY <1>1, Division, ReminderAssumption
  <1>3. ASSUME NEW k \in 1..3, k <= t PROVE DayOf(t - k) = DayOf(t)
    BY <1>1, <1>2, <1>3, SameDay
  <1>4. DayOf(now) = DayOf(t) /\ DayOf(now + 1) = DayOf(t)
    <2>1. CASE now = t - 3
      <3>1. now + 1 = t - 2 /\ 3 <= t /\ 2 <= t
        BY <1>1, <2>1
      <3> QED BY <1>1, <1>3, <2>1, <3>1
    <2>2. CASE now = t - 2
      <3>1. now + 1 = t - 1 /\ 2 <= t /\ 1 <= t
        BY <1>1, <2>2
      <3> QED BY <1>1, <1>3, <2>2, <3>1
    <2> QED BY <2>1, <2>2
  <1>5. t \in now + 2 .. now + 3
    BY <1>1
  <1> QED BY <1>4, <1>5 DEF NextHour

\* The job that reminds of d within the hour.
RemindsOf(d) == IF due[d].kind = "STOP" THEN "visit_reminder" ELSE "fu_1h"

\* The rows with notice that nobody has been reminded of.
Unreminded(d) ==
    /\ Exists(d) /\ due[d].kind # "UNTIMED" /\ due[d].status \in {"PENDING", "ACKNOWLEDGED"}
    /\ due[d].since + 4 <= due[d].at /\ due[d].at % Day >= 3
    /\ ~due[d].told /\ ~due[d].used

InHand(d) == \E w \in Workers : d \in run[w].rows /\ run[w].job = RemindsOf(d)

\* Each of the two slots has cost a run, or a run of it has the row in hand.
Chance(d) ==
    Unreminded(d) =>
        /\ now > due[d].at - 3 => deaths >= 1
        /\ now > due[d].at - 2 => deaths >= 2
        /\ now = due[d].at - 3 /\ RemindsOf(d) \in ran => deaths >= 1 \/ InHand(d)
        /\ now = due[d].at - 2 /\ RemindsOf(d) \in ran => deaths >= 2 \/ InHand(d)

\* What is pushed, or flagged, was told of; and nobody acknowledges a stop.
ToldRow(d) ==
    /\ \A w \in Workers : d \in run[w].pushed => due[d].told \/ due[d].used
    /\ Exists(d) => /\ due[d].sent1 => due[d].told \/ due[d].used
                    /\ due[d].kind = "STOP" => due[d].status # "ACKNOWLEDGED"

AdvanceInv == \A d \in Dues : ToldRow(d) /\ Chance(d)

\* In its two slots, the job that reminds of a row finds it.
LEMMA JobFinds ==
    ASSUME TypeOK, NEW d \in Dues, ToldRow(d), Unreminded(d),
           now = due[d].at - 3 \/ now = due[d].at - 2
    PROVE  d \in Rows(RemindsOf(d)) /\ RemindsOf(d) \in Jobs
  <1>1. due[d] \in Row /\ Exists(d)
    BY RowType DEF Unreminded
  <1>2. due[d].at \in Slots /\ due[d].kind \in {"FOLLOW_UP", "STOP"} /\ due[d].sent1 \in BOOLEAN
    BY <1>1 DEF Row, Kinds, Unreminded
  <1>3. NextHour(due[d].at) /\ ~due[d].sent1
    BY <1>1, <1>2, HourBefore DEF Unreminded, ToldRow
  <1>4. CASE due[d].kind = "STOP"
    <2>1. Rows(RemindsOf(d)) = due_visit_reminders
      BY <1>4 DEF RemindsOf, Rows, Schedule, send_visit_reminders
    <2>2. d \in due_visit_reminders
      BY <1>1, <1>3, <1>4 DEF due_visit_reminders, Awaits, Unreminded, ToldRow
    <2> QED BY <1>4, <2>1, <2>2, JobsAre DEF RemindsOf
  <1>5. CASE due[d].kind = "FOLLOW_UP"
    <2>1. Rows(RemindsOf(d)) = due_1h
      BY <1>5 DEF RemindsOf, Rows, Schedule, send_1h_followup_reminders
    <2>2. d \in due_1h
      BY <1>1, <1>3, <1>5 DEF due_1h, Awaits, Unreminded
    <2> QED BY <1>5, <2>1, <2>2, JobsAre DEF RemindsOf
  <1> QED BY <1>2, <1>4, <1>5

\* A row that stays where the others are: nothing else may have moved.
LEMMA RowStands ==
    ASSUME NEW d \in Dues, ToldRow(d), Chance(d), due'[d] = due[d],
           UNCHANGED <<now, ran, run, deaths>>
    PROVE  ToldRow(d)' /\ Chance(d)'
  BY DEF ToldRow, Chance, Unreminded, InHand, RemindsOf, Exists

\* A row that is planned, moved, acknowledged or finished.
LEMMA AdvanceRow ==
    ASSUME RemindersInv, AdvanceInv, NEW d \in Dues, Unrun, NEW row \in Row,
           due' = [due EXCEPT ![d] = row],
           \A w \in Workers : d \in run[w].pushed => row.told \/ row.used,
           row.sent1 => row.told \/ row.used,
           row.kind = "STOP" => row.status # "ACKNOWLEDGED",
           \/ row.since = now
           \/ /\ Exists(d) /\ row.kind = due[d].kind /\ row.at = due[d].at /\ row.since = due[d].since
              /\ row.told = due[d].told /\ row.used = due[d].used
              /\ row.status \in {"PENDING", "ACKNOWLEDGED"} => due[d].status \in {"PENDING", "ACKNOWLEDGED"}
    PROVE  AdvanceInv'
  <1>1. due'[d] = row /\ \A e \in Dues \ {d} : due'[e] = due[e]
    BY DEF RemindersInv, TypeOK
  <1>2. UNCHANGED <<now, ran, run, deaths>>
    BY DEF Unrun
  <1>3. ToldRow(d)'
    BY <1>1, <1>2 DEF ToldRow
  <1>4. Chance(d)'
    <2>1. CASE row.since = now
      <3>1. row.at \in Nat /\ now \in Nat
        BY SlotsAreNumbers DEF Row, RemindersInv, TypeOK
      <3>2. Unreminded(d)' => now + 4 <= row.at
        BY <1>1, <1>2, <2>1 DEF Unreminded
      <3> QED BY <1>1, <1>2, <3>1, <3>2 DEF Chance
    <2>2. CASE row.since # now
      <3>1. Unreminded(d)' => Unreminded(d)
        BY <1>1, <2>2 DEF Unreminded
      <3>2. row.at = due[d].at /\ (RemindsOf(d)' = RemindsOf(d)) /\ (InHand(d)' <=> InHand(d))
        BY <1>1, <1>2, <2>2 DEF RemindsOf, InHand
      <3> QED BY <1>1, <1>2, <3>1, <3>2 DEF Chance, AdvanceInv
    <2> QED BY <2>1, <2>2
  <1>5. ASSUME NEW e \in Dues \ {d} PROVE ToldRow(e)' /\ Chance(e)'
    BY <1>1, <1>2, RowStands DEF AdvanceInv
  <1> QED BY <1>3, <1>4, <1>5 DEF AdvanceInv

LEMMA AdvanceUseStep == ASSUME RemindersInv, AdvanceInv, Use PROVE AdvanceInv'
  <1>1. PICK d \in Dues : \/ Acknowledge(d) \/ Finish(d)
                          \/ \E t \in Slots : MoveStop(d, t) \/ \E kind \in Kinds : Plan(d, kind, t)
    BY DEF Use
  <1>2. ASSUME NEW status \in {"ACKNOWLEDGED", "DONE"}, Exists(d), Unrun,
               status = "ACKNOWLEDGED" => due[d].kind # "STOP" /\ due[d].status = "PENDING",
               due' = [due EXCEPT ![d].status = status]
        PROVE  AdvanceInv'
    <2>1. due[d] \in Row
      BY <1>2, RowType DEF RemindersInv
    <2>2. PICK row \in Row : /\ row = [due[d] EXCEPT !.status = status] /\ row.status = status
                             /\ row.kind = due[d].kind /\ row.at = due[d].at
                             /\ row.since = due[d].since /\ row.told = due[d].told
                             /\ row.used = due[d].used /\ row.sent1 = due[d].sent1
      <3> DEFINE row == [due[d] EXCEPT !.status = status]
      <3>1. row \in Row /\ row.status = status /\ row.kind = due[d].kind /\ row.at = due[d].at
            /\ row.since = due[d].since /\ row.told = due[d].told
            /\ row.used = due[d].used /\ row.sent1 = due[d].sent1
        BY <2>1 DEF Row
      <3> QED BY <3>1
    <2>3. due' = [due EXCEPT ![d] = row]
      BY <1>2, <2>2
    <2>4. ToldRow(d)
      BY DEF AdvanceInv
    <2>5. /\ \A w \in Workers : d \in run[w].pushed => row.told \/ row.used
          /\ row.sent1 => row.told \/ row.used
      BY <1>2, <2>2, <2>4 DEF ToldRow
    <2> QED BY <1>2, <2>2, <2>3, <2>5, AdvanceRow
  <1>3. CASE Acknowledge(d) \/ Finish(d)
    BY <1>2, <1>3 DEF Acknowledge, Finish
  <1>4. ASSUME NEW t \in Slots, MoveStop(d, t)
        PROVE  AdvanceInv'
    <2>1. due[d] \in Row /\ due[d].kind = "STOP" /\ due[d].status = "PENDING" /\ Exists(d) /\ Unrun
      BY <1>4, RowType DEF RemindersInv, MoveStop
    <2>2. PICK used \in BOOLEAN : used = (due[d].sent1 \/ d \in Held)
      BY <2>1 DEF Row
    <2>3. PICK row \in Row :
             /\ row = [due[d] EXCEPT !.at = t, !.since = now, !.told = FALSE, !.used = used]
             /\ row.kind = due[d].kind /\ row.since = now /\ row.used = used
             /\ row.status = due[d].status /\ row.sent1 = due[d].sent1
      <3> DEFINE row == [due[d] EXCEPT !.at = t, !.since = now, !.told = FALSE, !.used = used]
      <3>1. now \in Slots
        BY DEF RemindersInv, TypeOK
      <3>2. row \in Row /\ row.kind = due[d].kind /\ row.since = now /\ row.used = used
            /\ row.status = due[d].status /\ row.sent1 = due[d].sent1
        BY <2>1, <3>1 DEF Row
      <3> QED BY <3>2
    <2>4. due' = [due EXCEPT ![d] = row]
      BY <1>4, <2>2, <2>3 DEF MoveStop, RemindersInv, TypeOK
    <2>5. \A w \in Workers : d \in run[w].pushed => row.used
      <3>1. ASSUME NEW w \in Workers, d \in run[w].pushed PROVE d \in Held
        <4>1. d \in run[w].rows
          BY <3>1, RunType DEF RemindersInv
        <4> QED BY <4>1 DEF Held
      <3> QED BY <3>1, <2>2, <2>3
    <2>6. row.sent1 => row.used
      BY <2>2, <2>3
    <2> QED BY <2>1, <2>3, <2>4, <2>5, <2>6, AdvanceRow
  <1>5. ASSUME NEW t \in Slots, NEW kind \in Kinds, Plan(d, kind, t)
        PROVE  AdvanceInv'
    <2> DEFINE row == [kind |-> kind, at |-> t, since |-> now, told |-> FALSE, used |-> FALSE,
                       status |-> "PENDING", sent24 |-> FALSE, sent1 |-> FALSE]
    <2>1. row \in Row /\ row.since = now /\ ~row.sent1 /\ row.status = "PENDING"
      BY DEF Row, RemindersInv, TypeOK
    <2>2. due' = [due EXCEPT ![d] = row] /\ Unrun
      BY <1>5 DEF Plan
    <2>3. \A w \in Workers : d \notin run[w].pushed
      <3>1. ~Exists(d)
        BY <1>5 DEF Plan
      <3> QED BY <3>1, RunType DEF RemindersInv, RunsHoldTheirKind
    <2> HIDE DEF row
    <2> QED BY <2>1, <2>2, <2>3, AdvanceRow
  <1> QED BY <1>1, <1>3, <1>4, <1>5

LEMMA AdvanceBeginStep ==
    ASSUME RemindersInv, AdvanceInv, NEW w \in Workers, NEW job \in Jobs, Begin(w, job)
    PROVE  AdvanceInv'
  <1>1. /\ run[w] = Idle /\ UNCHANGED <<now, due, deaths>> /\ ran' = ran \cup {job}
        /\ Idle.rows = {} /\ Idle.pushed = {}
    BY DEF Begin, Idle
  <1>2. \A v \in Workers \ {w} : run'[v] = run[v]
    BY DEF Begin, RemindersInv, TypeOK
  <1>3. run'[w].pushed = {} /\ (Rows(job) # {} => run'[w].rows = Rows(job) /\ run'[w].job = job)
    BY <1>1 DEF Begin, RemindersInv, TypeOK
  <1>4. ASSUME NEW d \in Dues PROVE ToldRow(d)' /\ Chance(d)'
    <2>1. ToldRow(d) /\ Chance(d)
      BY DEF AdvanceInv
    <2>2. ToldRow(d)'
      BY <1>1, <1>2, <1>3, <2>1 DEF ToldRow, Exists
    <2>3. (Unreminded(d)' <=> Unreminded(d)) /\ RemindsOf(d)' = RemindsOf(d)
      BY <1>1 DEF Unreminded, RemindsOf, Exists
    <2>4. InHand(d) => InHand(d)'
      BY <1>1, <1>2, <2>3 DEF InHand
    <2>5. ASSUME Unreminded(d), now = due[d].at - 3 \/ now = due[d].at - 2, job = RemindsOf(d)
          PROVE  InHand(d)'
      <3>1. d \in Rows(job)
        BY <2>1, <2>5, JobFinds DEF RemindersInv
      <3> QED BY <1>3, <2>3, <2>5, <3>1 DEF InHand
    <2>6. Chance(d)'
      BY <1>1, <2>1, <2>3, <2>4, <2>5 DEF Chance
    <2> QED BY <2>2, <2>6
  <1> QED BY <1>4 DEF AdvanceInv

LEMMA AdvancePushStep ==
    ASSUME RemindersInv, AdvanceInv, NEW w \in Workers, NEW d \in Dues, Push(w, d)
    PROVE  AdvanceInv'
  <1>1. d \in run[w].rows /\ UNCHANGED <<now, ran, deaths>>
    BY DEF Push
  <1>2. due[d] \in Row /\ Exists(d)
    BY <1>1, RowType DEF RemindersInv, RunsHoldTheirKind
  <1>3. /\ due'[d].told /\ due'[d].kind = due[d].kind /\ due'[d].status = due[d].status
        /\ \A e \in Dues \ {d} : due'[e] = due[e]
    BY <1>2 DEF Push, RemindersInv, TypeOK, Row
  <1>4. \A v \in Workers : /\ run'[v].rows = run[v].rows /\ run'[v].job = run[v].job
                           /\ run'[v].pushed \subseteq run[v].pushed \cup {d}
    BY DEF Push, RemindersInv, TypeOK
  <1>5. ASSUME NEW e \in Dues \ {d} PROVE ToldRow(e)' /\ Chance(e)'
    <2>1. ToldRow(e) /\ Chance(e) /\ due'[e] = due[e]
      BY <1>3 DEF AdvanceInv
    <2> QED BY <1>1, <1>4, <2>1 DEF ToldRow, Chance, Unreminded, InHand, RemindsOf, Exists
  <1>6. ToldRow(d)' /\ Chance(d)'
    BY <1>2, <1>3 DEF ToldRow, Chance, Unreminded, AdvanceInv
  <1> QED BY <1>5, <1>6 DEF AdvanceInv

LEMMA AdvanceDieStep ==
    ASSUME RemindersInv, AdvanceInv, NEW w \in Workers, Die(w) PROVE AdvanceInv'
  <1>1. /\ run' = [run EXCEPT ![w] = Idle] /\ UNCHANGED <<now, due, ran>> /\ deaths' = deaths + 1
        /\ deaths \in Nat
    BY ReminderAssumption DEF Die, RemindersInv, TypeOK
  <1>2. run'[w].pushed = {} /\ \A v \in Workers \ {w} : run'[v] = run[v]
    BY <1>1, RunIsOver DEF RemindersInv, Idle
  <1>3. ASSUME NEW d \in Dues PROVE ToldRow(d)' /\ Chance(d)'
    <2>1. ToldRow(d) /\ Chance(d)
      BY DEF AdvanceInv
    <2>2. ToldRow(d)'
      BY <1>1, <1>2, <2>1 DEF ToldRow, Exists
    <2>3. (Unreminded(d)' <=> Unreminded(d)) /\ RemindsOf(d)' = RemindsOf(d)
      BY <1>1 DEF Unreminded, RemindsOf, Exists
    <2>4. Unreminded(d) => due[d].at \in Nat /\ now \in Nat
      BY RowType, SlotsAreNumbers DEF Unreminded, Row, RemindersInv, TypeOK
    <2>5. Chance(d)'
      BY <1>1, <2>1, <2>3, <2>4 DEF Chance
    <2> QED BY <2>2, <2>5
  <1> QED BY <1>3 DEF AdvanceInv

LEMMA AdvanceCommitStep ==
    ASSUME RemindersInv, AdvanceInv, NEW w \in Workers, Commit(w) PROVE AdvanceInv'
  <1>1. /\ run[w] # Idle /\ run[w].pushed = run[w].rows /\ run' = [run EXCEPT ![w] = Idle]
        /\ UNCHANGED <<now, ran, deaths>>
    BY DEF Commit
  <1>2. PICK sets \in Flags \cup {"status"} : sets = Sets(w)
    <2>1. run[w].job \in Jobs
      BY <1>1, RunType DEF RemindersInv
    <2> QED BY <2>1, JobSets DEF Sets, FlagOf, Flags
  <1>3. due' = [d \in Dues |-> IF d \in run[w].rows THEN Flagged(due[d], sets) ELSE due[d]]
    BY <1>2 DEF Commit
  <1>4. run'[w].pushed = {} /\ run'[w].rows = {} /\ \A v \in Workers \ {w} : run'[v] = run[v]
    BY <1>1, RunIsOver DEF RemindersInv, Idle
  <1>5. ASSUME NEW d \in Dues, d \notin run[w].rows PROVE ToldRow(d)' /\ Chance(d)'
    <2>1. ToldRow(d) /\ Chance(d) /\ due'[d] = due[d]
      BY <1>3, <1>5 DEF AdvanceInv
    <2>2. RemindsOf(d)' = RemindsOf(d) /\ (Unreminded(d)' <=> Unreminded(d)) /\ (Exists(d)' <=> Exists(d))
      BY <2>1 DEF RemindsOf, Unreminded, Exists
    <2>3. InHand(d) => InHand(d)'
      BY <1>4, <1>5, <2>2 DEF InHand
    <2>4. ToldRow(d)'
      BY <1>4, <2>1, <2>2 DEF ToldRow
    <2>5. Chance(d)'
      BY <1>1, <2>1, <2>2, <2>3 DEF Chance
    <2> QED BY <2>4, <2>5
  <1>6. ASSUME NEW d \in Dues, d \in run[w].rows PROVE ToldRow(d)' /\ Chance(d)'
    <2>1. due[d] \in Row /\ ToldRow(d) /\ d \in run[w].pushed /\ Exists(d)
      BY <1>1, <1>6, RowType DEF AdvanceInv, RemindersInv, RunsHoldTheirKind
    <2>2. due'[d] = Flagged(due[d], sets)
      BY <1>3, <1>6
    <2>3. /\ due'[d].told = due[d].told /\ due'[d].used = due[d].used /\ due'[d].kind = due[d].kind
          /\ due'[d].status \in {due[d].status, "ESCALATED"}
      BY <2>1, <2>2 DEF Flagged, Row
    <2>4. due[d].told \/ due[d].used
      BY <2>1 DEF ToldRow
    <2>5. due[d].kind = "STOP" => due[d].status # "ACKNOWLEDGED"
      BY <2>1 DEF ToldRow
    <2> QED BY <2>3, <2>4, <2>5 DEF ToldRow, Chance, Unreminded
  <1> QED BY <1>5, <1>6 DEF AdvanceInv

LEMMA AdvanceTickStep == ASSUME RemindersInv, AdvanceInv, Tick PROVE AdvanceInv'
  <1>1. /\ now' = now + 1 /\ ran' = {} /\ UNCHANGED <<due, run, deaths>> /\ now \in Nat /\ deaths \in Nat
        /\ Scheduled \subseteq ran
    BY SlotsAreNumbers, ReminderAssumption DEF Tick, RemindersInv, TypeOK
  <1>2. ASSUME NEW d \in Dues PROVE ToldRow(d)' /\ Chance(d)'
    <2>1. ToldRow(d) /\ Chance(d)
      BY DEF AdvanceInv
    <2>2. ToldRow(d)' /\ (Unreminded(d)' <=> Unreminded(d))
      BY <1>1, <2>1 DEF ToldRow, Unreminded, Exists
    <2>3. ~InHand(d)
      BY DEF Tick, InHand, Idle
    <2>4. RemindsOf(d) \in ran
      BY <1>1, JobsAre DEF RemindsOf, Scheduled, Schedule, send_visit_reminders, send_1h_followup_reminders
    <2>5. Unreminded(d) => due[d].at \in Nat
      BY RowType, SlotsAreNumbers DEF Unreminded, Row, RemindersInv
    <2>6. Chance(d)'
      BY <1>1, <2>1, <2>2, <2>3, <2>4, <2>5 DEF Chance
    <2> QED BY <2>2, <2>6
  <1> QED BY <1>2 DEF AdvanceInv

LEMMA AdvanceStep ==
    ASSUME RemindersInv, AdvanceInv, [Next]_vars PROVE AdvanceInv'
  <1>1. CASE Work
    <2>1. PICK w \in Workers :
             \/ \E n \in 1..Len(Order) : Claim(w, n)
             \/ \E job \in Jobs : ClaimInVain(w, job)
             \/ \E d \in Dues : Push(w, d)
             \/ Commit(w) \/ Die(w)
      BY <1>1 DEF Work
    <2>2. CASE \E n \in 1..Len(Order) : Claim(w, n)
      BY <2>2, AdvanceBeginStep, JobsAre DEF Claim
    <2>3. CASE \E job \in Jobs : ClaimInVain(w, job)
      BY <2>3, AdvanceBeginStep DEF ClaimInVain
    <2> QED BY <2>1, <2>2, <2>3, AdvancePushStep, AdvanceCommitStep, AdvanceDieStep
  <1>2. CASE UNCHANGED vars
    BY <1>2, RowStands DEF vars, AdvanceInv
  <1> QED BY <1>1, <1>2, AdvanceUseStep, AdvanceTickStep DEF Next

\* Whoever has two hours' notice has been reminded when the time comes, though
\* one run was lost: the window of the job is two slots wide, and a run that
\* does not remind of what is in it has died (send_1h_followup_reminders,
\* send_visit_reminders).
THEOREM RemindedInTime == Spec => []RemindedInAdvance
  <1>1. Init => AdvanceInv
    <2> SUFFICES ASSUME Init, NEW d \in Dues PROVE ToldRow(d) /\ Chance(d)
      BY DEF AdvanceInv
    <2>1. ~Exists(d) /\ \A w \in Workers : d \notin run[w].pushed
      BY DEF Init, Exists, Idle
    <2> QED BY <2>1 DEF ToldRow, Chance, Unreminded
  <1>2. ASSUME RemindersInv, AdvanceInv PROVE RemindedInAdvance
    <2> SUFFICES ASSUME NEW d \in Dues, ItsTime(d), ~due[d].told, ~due[d].used PROVE FALSE
      BY DEF RemindedInAdvance
    <2>1. Unreminded(d) /\ Chance(d)
      BY <1>2 DEF ItsTime, Unreminded, AdvanceInv
    <2>2. due[d].at \in Nat /\ now \in Nat /\ deaths \in Nat
      BY <1>2, <2>1, RowType, SlotsAreNumbers, ReminderAssumption
         DEF Unreminded, Row, RemindersInv, TypeOK
    <2> QED BY <2>1, <2>2 DEF ItsTime, Chance
  <1>3. RemindersInv /\ AdvanceInv /\ [Next]_vars => AdvanceInv'
    BY AdvanceStep
  <1> QED BY <1>1, <1>2, <1>3, RemindersAlways, PTL DEF Spec
================================================================================
