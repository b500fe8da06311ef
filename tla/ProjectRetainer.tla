-------------------------- MODULE ProjectRetainer --------------------------
(***************************************************************************)
(* One project on a retainer: which months the hourly job, the button and  *)
(* a PATCH that makes the project active again draft an invoice for, while *)
(* months pass, the project is paused or switched to another billing type  *)
(* and Invoices is switched off and on.                                    *)
(***************************************************************************)
EXTENDS Integers

CONSTANTS LastMonth,  \* bound: the months that pass
          Null

ASSUME LastMonthAssumption == LastMonth \in Nat \ {0}
ASSUME NullAssumption == Null \notin Int

VARIABLES
    today,     \* the month it is for the org
    project,   \* the project row's columns the months are judged by
    invoices,  \* the Invoices module: whether it is on, and since which month
    job,       \* a run of the job: the day and the skip_before it works with
    click,     \* a Bill this month click: the month shown and the day read
    drafted,   \* per month, the invoices drafted for it
    ran        \* the months the project was an active retainer in

vars == <<today, project, invoices, job, click, drafted, ran>>

Months == 1..LastMonth

\* retainer_next_month and retainer_last_month may lie a month beyond either end.
Projects ==
    {p \in [type : {"retainer", "other"}, status : {"active", "idle"},
            next : 1..(LastMonth + 1) \cup {Null},
            last : 0..LastMonth \cup {Null}] :
        p.type = "retainer" => p.next # Null}

TypeOK ==
    /\ today \in Months
    /\ project \in Projects
    /\ invoices \in [on : BOOLEAN, since : Months \cup {Null}]
    /\ job \in [day : Months, skip : Months \cup {Null}] \cup {Null}
    /\ click \in [month : 1..(LastMonth + 1) \cup {Null}, day : Months] \cup {Null}
    /\ drafted \in [Months -> Nat]
    /\ ran \subseteq Months

Init ==
    /\ today = 1
    /\ project = [type |-> "other", status |-> "active", next |-> Null,
                  last |-> Null]
    /\ invoices = [on |-> TRUE, since |-> Null]
    /\ job = Null /\ click = Null
    /\ drafted = [m \in Months |-> 0]
    /\ ran = {}

Later(m, n) == IF m < n THEN n ELSE m

IsRunning(p) == p.type = "retainer" /\ p.status = "active"

RunsIn(month, p) == IF IsRunning(p) THEN {month} ELSE {}
-----------------------------------------------------------------------------
\* Nothing in `refusal` refuses billing the next month on `day`.
Billable(p, day) ==
    /\ p.type = "retainer" /\ p.next # Null /\ p.next <= day
    /\ p.last # Null => p.next <= p.last

Ended(p, day) == Billable(p, day) /\ p.next < day

\* Mutant of BillMonth: the month billed stays the next one.
BillMonthAgain(month) ==
    /\ drafted' = [drafted EXCEPT ![month] = @ + 1]
    /\ project' = project

\* The invoice and the month after, in one transaction under the row's lock.
BillMonth(month) ==
    /\ drafted' = [drafted EXCEPT ![month] = @ + 1]
    /\ project' = [project EXCEPT !.next = month + 1]
-----------------------------------------------------------------------------
\* Rule 1: the month billing starts with.
FirstMonth(p, start) ==
    Later(IF start = Null THEN today ELSE Later(today, start),
          IF p.next = Null THEN today ELSE p.next)

FirstLast(status, first) == IF status = "active" THEN Null ELSE first - 1

\* Rule 3: the months still owed when the project is active again, drafted if
\* Invoices is on, oldest first, until one is refused or not ended.
OwedMonths(p) ==
    {m \in Months : /\ invoices.on /\ p.next # Null
                    /\ p.next <= m /\ m < today
                    /\ p.last # Null => m <= p.last}

\* Mutant of ResumedMonth: billing goes on from the month after the last one owed.
ResumedMonthInGap(p) ==
    IF p.next = Null THEN today
    ELSE Later(p.next, IF p.last < today THEN p.last + 1 ELSE today)

\* The month billing goes on from, never one already set later.
ResumedMonth(p) == IF p.next = Null THEN today ELSE Later(p.next, today)

Becomes(type) == type = "retainer" /\ project.type # "retainer"
Stays(type)   == type = "retainer" /\ project.type = "retainer"
Pauses(type, status) ==
    Stays(type) /\ project.status = "active" /\ status = "idle"
Resumes(type, status) ==
    Stays(type) /\ project.status = "idle" /\ status = "active"

\* A create or a PATCH, and apply_month_rules in its transaction.
Save(type, status, start) ==
    LET saved == [project EXCEPT !.type = type, !.status = status]
        first == FirstMonth(project, start)
    IN  /\ start # Null => Becomes(type)
        /\ project' =
             CASE Becomes(type) ->
                    [saved EXCEPT !.next = first, !.last = FirstLast(status, first)]
               [] Pauses(type, status) -> [saved EXCEPT !.last = today]
               [] Resumes(type, status) ->
                    [saved EXCEPT !.next = ResumedMonth(project), !.last = Null]
               [] OTHER -> saved
        /\ drafted' =
             [m \in Months |-> IF Resumes(type, status) /\ m \in OwedMonths(project)
                               THEN drafted[m] + 1 ELSE drafted[m]]
        /\ ran' = ran \cup RunsIn(today, project')
        /\ UNCHANGED <<today, invoices, job, click>>

MonthPasses ==
    /\ today < LastMonth
    /\ today' = today + 1
    /\ ran' = ran \cup RunsIn(today + 1, project)
    /\ UNCHANGED <<project, invoices, job, click, drafted>>

SwitchInvoices ==
    /\ invoices' = IF invoices.on THEN [invoices EXCEPT !.on = FALSE]
                                  ELSE [on |-> TRUE, since |-> today]
    /\ UNCHANGED <<today, project, job, click, drafted, ran>>
-----------------------------------------------------------------------------
\* Mutant of Candidate: one with a last month is passed over.
CandidateOpen(p, day) ==
    /\ p.type = "retainer" /\ p.next # Null /\ p.next < day
    /\ p.last = Null /\ p.status = "active"

\* retainer_candidates: an active retainer that is open, or one with months to go.
Candidate(p, day) ==
    /\ p.type = "retainer" /\ p.next # Null /\ p.next < day
    /\ IF p.last = Null THEN p.status = "active" ELSE p.next <= p.last

\* A run takes the day, and the day Invoices came back on, and finds the project.
JobStarts ==
    /\ job = Null /\ invoices.on
    /\ Candidate(project, today)
    /\ job' = [day |-> today, skip |-> invoices.since]
    /\ UNCHANGED <<today, project, invoices, click, drafted, ran>>

JobBills ==
    /\ job # Null /\ Ended(project, job.day)
    /\ job.skip # Null => project.next >= job.skip
    /\ BillMonth(project.next)
    /\ UNCHANGED <<today, invoices, job, click, ran>>

\* A month that ended before Invoices came back on is passed over.
JobSkips ==
    /\ job # Null /\ Ended(project, job.day)
    /\ job.skip # Null /\ project.next < job.skip
    /\ project' = [project EXCEPT !.next = @ + 1]
    /\ UNCHANGED <<today, invoices, job, click, drafted, ran>>

\* The run is done with the project, or fails, or its worker dies.
JobEnds ==
    /\ job # Null
    /\ job' = Null
    /\ UNCHANGED <<today, project, invoices, click, drafted, ran>>
-----------------------------------------------------------------------------
\* The month next to bill is shown, or read by the request.
Click ==
    /\ click = Null /\ invoices.on
    /\ click' = [month |-> project.next, day |-> today]
    /\ UNCHANGED <<today, project, invoices, job, drafted, ran>>

\* The row is locked: the month, the open one too, is billed if it is the one shown.
ClickBills ==
    /\ click # Null
    /\ \E day \in click.day..today : Billable(project, day)
    /\ project.next = click.month
    /\ BillMonth(project.next)
    /\ click' = Null
    /\ UNCHANGED <<today, invoices, job, ran>>

ClickRefused ==
    /\ click # Null
    /\ \/ \E day \in click.day..today : ~Billable(project, day)
       \/ project.next # click.month
    /\ click' = Null
    /\ UNCHANGED <<today, project, invoices, job, drafted, ran>>
-----------------------------------------------------------------------------
Next ==
    \/ \E type \in {"retainer", "other"}, status \in {"active", "idle"},
          start \in Months \cup {Null} : Save(type, status, start)
    \/ MonthPasses \/ SwitchInvoices
    \/ JobStarts \/ JobBills \/ JobSkips \/ JobEnds
    \/ Click \/ ClickBills \/ ClickRefused

\* Months pass; beat starts the job every hour, a run of it ends, and not every one
\* fails before it has billed a month or passed one over.
Fairness ==
    /\ WF_vars(MonthPasses)
    /\ WF_vars(JobStarts) /\ WF_vars(JobEnds)
    /\ SF_vars(JobBills) /\ SF_vars(JobSkips)

Spec == Init /\ [][Next]_vars /\ Fairness
-----------------------------------------------------------------------------
(* Properties *)

\* "A month already invoiced is never drafted again" (docs/features/projects.md),
\* by the job, the button, a resume, or after switching the type away and back.
NeverDraftedTwice == \A m \in Months : drafted[m] <= 1

\* The fee is billed for months the project was an active retainer in and no other:
\* those of a pause, or of another billing type, are not billed later.
OnlyMonthsItRan == \A m \in Months : drafted[m] > 0 => m \in ran

\* A retainer is open exactly while the project is active, so that `refusal` and
\* retainer_candidates, which read different columns, agree.
OpenIffActive ==
    project.type = "retainer" => (project.last = Null <=> project.status = "active")

\* A month the retainer owes, and that the job may still draft: it did not end
\* before Invoices came back on.
Owed(m) ==
    /\ project.type = "retainer" /\ project.next # Null /\ project.next <= m
    /\ m <= IF project.last = Null THEN today ELSE project.last
    /\ invoices.since # Null => invoices.since <= m

\* Each month owed is drafted once it is over, pauses, failed runs and missed hours
\* notwithstanding, unless the type is switched or Invoices goes off.
OwedIsDrafted ==
    \A m \in 1..(LastMonth - 1) :
        Owed(m) ~> (drafted[m] > 0 \/ project.type # "retainer" \/ ~invoices.on)
=============================================================================
