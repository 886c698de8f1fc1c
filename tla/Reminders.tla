------------------------------- MODULE Reminders -------------------------------
(***************************************************************************)
(* The jobs that remind of follow-ups and planned stops and escalate       *)
(* follow-ups (app/core/scheduler.py, follow_up_repository.py,             *)
(* visit_plan_repository.py).                                              *)
(*                                                                         *)
(* Time passes in slots of half an hour, the period of the rolling jobs.   *)
(* Every uvicorn worker has the whole schedule; a Redis lock lets one run  *)
(* a job in a slot, unless Redis is down or the worker is minutes late.  A *)
(* run reads its rows, pushes one after the other, and commits the flags   *)
(* it set: a worker that dies in between has pushed, and flagged nothing.  *)
(* A run ends within its slot.  The jobs fire just after the slot begins,  *)
(* so that a time of exactly now + 30 min is past the window's start.      *)
(***************************************************************************)
EXTENDS Integers, Sequences, FiniteSets

CONSTANTS
    Workers,
    Dues,       \* follow-ups and stops
    Day,        \* slots of a day
    Morning,    \* the slot of 08:00
    LastSlot,
    MaxDeaths   \* runs that die

ASSUME ReminderAssumption ==
    /\ {Day, Morning, LastSlot, MaxDeaths} \subseteq Nat
    /\ Day > 4 /\ Morning < Day

VARIABLES
    now,
    due,     \* the rows of follow_ups and visit_plan_items
    ran,     \* jobs that ran in this slot: their lock is held
    run,     \* each worker's run in flight
    pushes,  \* pushes per row and flag, counted up to 2
    excused, \* rows that a run which died had pushed, or that two runs held
    deaths

vars == <<now, due, ran, run, pushes, excused, deaths>>

-----------------------------------------------------------------------------
Slots == 0..LastSlot
\* In the order in which they fire: escalation at a quarter past.
Order == <<"fu_24h", "fu_24h_precise", "fu_1h", "visit_reminder", "fu_escalate">>
Jobs == {Order[n] : n \in 1..Len(Order)}
Kinds == {"FOLLOW_UP", "UNTIMED", "STOP"}   \* UNTIMED: a follow-up without a time

\* A stop is PENDING while it is PLANNED.  since: when it was given its time,
\* told: reminded after that, used: the flag was set, or about to be, by then.
Row == [kind : Kinds, at : Slots, since : Slots, told : BOOLEAN, used : BOOLEAN,
        status : {"PENDING", "ACKNOWLEDGED", "ESCALATED", "DONE"},
        sent24 : BOOLEAN, sent1 : BOOLEAN]
NoRow == [kind |-> "NONE"]
Idle == [job |-> "NONE", rows |-> {}, pushed |-> {}]

TypeOK ==
    /\ now \in Slots
    /\ due \in [Dues -> Row \cup {NoRow}]
    /\ ran \subseteq Jobs
    /\ run \in [Workers -> [job : Jobs \cup {"NONE"}, rows : SUBSET Dues, pushed : SUBSET Dues]]
    /\ \A w \in Workers : run[w].pushed \subseteq run[w].rows
    /\ pushes \in [Dues -> [{"24h", "1h"} -> 0..2]]
    /\ excused \subseteq Dues /\ deaths \in 0..MaxDeaths

Init ==
    /\ now = 0 /\ ran = {} /\ deaths = 0 /\ excused = {}
    /\ due = [d \in Dues |-> NoRow]
    /\ run = [w \in Workers |-> Idle]
    /\ pushes = [d \in Dues |-> [f \in {"24h", "1h"} |-> 0]]

DayOf(t) == t \div Day
Held == UNION {run[w].rows : w \in Workers}
Exists(d) == due[d] # NoRow
Escalating(d) == \E w \in Workers : run[w].job = "fu_escalate" /\ d \in run[w].rows
Unrun == UNCHANGED <<now, ran, run, pushes, excused, deaths>>

-----------------------------------------------------------------------------
(* What the employee and the manager do with the rows                       *)

Plan(d, kind, t) ==
    /\ ~Exists(d) /\ DayOf(t) >= DayOf(now)
    /\ due' = [due EXCEPT ![d] = [kind |-> kind, at |-> t, since |-> now,
                                  told |-> FALSE, used |-> FALSE, status |-> "PENDING",
                                  sent24 |-> FALSE, sent1 |-> FALSE]]
    /\ Unrun

\* update_item: another day or time; the flag stays as it is.
MoveStop(d, t) ==
    /\ Exists(d) /\ due[d].kind = "STOP" /\ due[d].status = "PENDING"
    /\ DayOf(t) >= DayOf(now) /\ t # due[d].at
    /\ due' = [due EXCEPT ![d].at = t, ![d].since = now,
                            ![d].told = FALSE, ![d].used = due[d].sent1 \/ d \in Held]
    /\ Unrun

Acknowledge(d) ==
    /\ Exists(d) /\ due[d].kind # "STOP" /\ due[d].status = "PENDING"
    /\ due' = [due EXCEPT ![d].status = "ACKNOWLEDGED"]
    /\ Unrun

\* A follow-up is completed, a stop checked in or skipped.
Finish(d) ==
    /\ Exists(d) /\ due[d].status # "DONE"
    /\ due' = [due EXCEPT ![d].status = "DONE"]
    /\ Unrun

-----------------------------------------------------------------------------
(* What the jobs look for                                                   *)

\* [now + 30 min, now + 90 min] as times of day, the end clamped to the end of
\* today.  In the last slot the beginning is past midnight, and wraps.
NextHour(t) ==
    /\ DayOf(t) = DayOf(now)
    /\ IF DayOf(now + 1) = DayOf(now) THEN t \in now + 2 .. now + 3
                                      ELSE t % Day > 0

Awaits(d, kind, flag) ==
    /\ Exists(d) /\ due[d].kind = kind
    /\ flag = "24h" => ~due[d].sent24
    /\ flag = "1h" => ~due[d].sent1

due_24h == {d \in Dues : Awaits(d, "UNTIMED", "24h") /\ due[d].status = "PENDING"
                         /\ DayOf(due[d].at) = DayOf(now) + 1}
due_24h_precise == {d \in Dues : Awaits(d, "FOLLOW_UP", "24h") /\ due[d].status = "PENDING"
                                 /\ due[d].at = now + Day + 1}
\* Mutant: an acknowledged follow-up needs no reminder.
due_1h_pending == {d \in Dues : Awaits(d, "FOLLOW_UP", "1h") /\ due[d].status = "PENDING"
                                /\ NextHour(due[d].at)}
\* Mutant: the flag is not looked at.
due_1h_again == {d \in Dues : Awaits(d, "FOLLOW_UP", "24h") /\ NextHour(due[d].at)}
due_1h == {d \in Dues : Awaits(d, "FOLLOW_UP", "1h") /\ NextHour(due[d].at)
                        /\ due[d].status \in {"PENDING", "ACKNOWLEDGED"}}
due_visit_reminders == {d \in Dues : Awaits(d, "STOP", "1h") /\ due[d].status = "PENDING"
                                     /\ NextHour(due[d].at)}

\* Mutant: acknowledged ones too.
escalate_unfinished == {d \in Dues : Exists(d) /\ due[d].kind = "FOLLOW_UP" /\ due[d].sent24
                                     /\ due[d].status # "DONE" /\ due[d].at <= now - 4}
\* Two hours past, and of today.
escalation_candidates ==
    {d \in Dues : /\ Exists(d) /\ due[d].kind = "FOLLOW_UP" /\ due[d].sent24
                  /\ due[d].status = "PENDING"
                  /\ DayOf(due[d].at) = DayOf(now) /\ due[d].at <= now - 4}

\* Each job: the slots its trigger fires in (daily at 08:00, every half hour,
\* every hour), the rows it reads, and what it sets in them.
send_24h_followup_reminders ==
    [fires |-> now % Day = Morning, rows |-> due_24h, sets |-> "24h"]
send_24h_followup_reminders_precise ==
    [fires |-> TRUE, rows |-> due_24h_precise, sets |-> "24h"]
send_1h_followup_reminders ==
    [fires |-> TRUE, rows |-> due_1h, sets |-> "1h"]
send_visit_reminders ==
    [fires |-> TRUE, rows |-> due_visit_reminders, sets |-> "1h"]
escalate_unacknowledged_followups ==
    [fires |-> now % 2 = 0, rows |-> escalation_candidates, sets |-> "status"]

Schedule(job) ==
    CASE job = "fu_24h" -> send_24h_followup_reminders
      [] job = "fu_24h_precise" -> send_24h_followup_reminders_precise
      [] job = "fu_1h" -> send_1h_followup_reminders
      [] job = "visit_reminder" -> send_visit_reminders
      [] job = "fu_escalate" -> escalate_unacknowledged_followups

Rows(job) == Schedule(job).rows
Scheduled == {job \in Jobs : Schedule(job).fires}

-----------------------------------------------------------------------------
(* A run                                                                    *)

Begin(w, job) ==
    /\ run[w] = Idle /\ Schedule(job).fires
    /\ ran' = ran \cup {job}
    /\ run' = IF Rows(job) = {} THEN run
              ELSE [run EXCEPT ![w] = [job |-> job, rows |-> Rows(job), pushed |-> {}]]
    /\ excused' = excused \cup {d \in Rows(job) : \E v \in Workers : run[v].job = job
                                                                     /\ d \in run[v].rows}
    /\ UNCHANGED <<now, due, pushes, deaths>>

\* _claim: SET NX, and the first worker has the job.
Claim(w, n) ==
    /\ Order[n] \notin ran
    /\ \A m \in 1..(n - 1) : Order[m] \in Scheduled => Order[m] \in ran
    /\ Begin(w, Order[n])

\* Redis is down, or this worker fires in a later minute: its lock is free.
ClaimInVain(w, job) == job \in ran /\ Rows(job) # {} /\ Begin(w, job)

Sets(w) == Schedule(run[w].job).sets
AtMost2(n) == IF n > 2 THEN 2 ELSE n
Push(w, d) ==
    /\ d \in run[w].rows \ run[w].pushed
    /\ run' = [run EXCEPT ![w].pushed = @ \cup {d}]
    /\ pushes' = IF Sets(w) = "status" THEN pushes
                 ELSE [pushes EXCEPT ![d][Sets(w)] = AtMost2(@ + 1)]
    /\ due' = [due EXCEPT ![d].told = TRUE]
    /\ UNCHANGED <<now, ran, excused, deaths>>

\* Only the columns the run has set are written.
Flagged(row, sets) ==
    [row EXCEPT !.status = IF sets = "status" THEN "ESCALATED" ELSE @,
                !.sent24 = @ \/ sets = "24h", !.sent1 = @ \/ sets = "1h"]

Commit(w) ==
    /\ run[w] # Idle /\ run[w].pushed = run[w].rows
    /\ due' = [d \in Dues |-> IF d \in run[w].rows THEN Flagged(due[d], Sets(w)) ELSE due[d]]
    /\ run' = [run EXCEPT ![w] = Idle]
    /\ UNCHANGED <<now, ran, pushes, excused, deaths>>

\* The transaction is rolled back; what was pushed stays pushed.
Die(w) ==
    /\ run[w] # Idle /\ deaths < MaxDeaths
    /\ run' = [run EXCEPT ![w] = Idle]
    /\ excused' = excused \cup run[w].pushed
    /\ deaths' = deaths + 1
    /\ UNCHANGED <<now, due, ran, pushes>>

\* Some worker is up and within its misfire grace.
Tick ==
    /\ now < LastSlot /\ \A w \in Workers : run[w] = Idle
    /\ Scheduled \subseteq ran
    /\ now' = now + 1 /\ ran' = {}
    /\ UNCHANGED <<due, run, pushes, excused, deaths>>

-----------------------------------------------------------------------------
Use == \E d \in Dues :
          \/ Acknowledge(d) \/ Finish(d)
          \/ \E t \in Slots : MoveStop(d, t) \/ \E kind \in Kinds : Plan(d, kind, t)
Work == \E w \in Workers :
           \/ \E n \in 1..Len(Order) : Claim(w, n)
           \/ \E job \in Jobs : ClaimInVain(w, job)
           \/ \E d \in Dues : Push(w, d)
           \/ Commit(w) \/ Die(w)
Next == Use \/ Work \/ Tick
Spec == Init /\ [][Next]_vars

-----------------------------------------------------------------------------
(* Properties                                                               *)

\* A reminder is pushed twice only when a run that had pushed it died before
\* its commit, or two runs held the row at once: the flag makes a job that
\* runs again harmless, also without its lock ("idempotent-ish").
RemindedOnce ==
    \A d \in Dues : d \notin excused => \A f \in {"24h", "1h"} : pushes[d][f] <= 1

\* Open, its time has come, and there were two hours' notice.  The first slots
\* of a day, whose hour before is yesterday, are not remembered in time.
ItsTime(d) ==
    /\ Exists(d) /\ due[d].kind # "UNTIMED" /\ due[d].status \in {"PENDING", "ACKNOWLEDGED"}
    /\ due[d].since + 4 <= due[d].at /\ due[d].at % Day >= 3
    /\ now >= due[d].at /\ deaths <= 1

\* Whoever has two hours' notice has been reminded when the time comes, one
\* lost run included: the window is two slots wide, so that every time has two
\* chances.  A stop that was moved may have used its flag up.
RemindedInAdvance == \A d \in Dues : ItsTime(d) => due[d].told \/ due[d].used

\* A follow-up that is acknowledged or completed is not escalated any more,
\* unless a run had already read it; and one is escalated two hours after its
\* time, having been reminded a day before.
OnlyARunOvertakes ==
    [][\A d \in Dues : Exists(d) =>
          /\ (due[d].status \in {"ACKNOWLEDGED", "DONE"} /\ ~Escalating(d)) => ~Escalating(d)'
          /\ (due[d].status # "ESCALATED" /\ due'[d].status = "ESCALATED") =>
                Escalating(d) /\ due[d].at <= now - 4 /\ pushes[d]["24h"] > 0]_vars

===============================================================================
