-------------------------- MODULE PaymentReminders --------------------------
(***************************************************************************)
(* The payment reminders of one invoice. A run each morning judges the     *)
(* cadence by the last reminder recorded and queues a task; the task reads *)
(* the invoice without a lock, mails, and records the mail under the lock. *)
(* Queued tasks wait, workers die, and Invoices is switched off and on.    *)
(***************************************************************************)
EXTENDS Integers, FiniteSets

CONSTANTS Reminders,      \* bound: send_payment_reminder tasks under way at once
          Weekly,         \* the days between reminders unless the frequency is ONCE
          Before, After,  \* reminder_days_before and reminder_days_after; 0 is none
          LastDay,        \* bound: the day the model stops at
          Never

ASSUME RemindersAssumption ==
    /\ Weekly \in Nat \ {0} /\ Before \in Nat /\ After \in Nat /\ LastDay \in Nat
    /\ Never \notin Int /\ IsFiniteSet(Reminders)

VARIABLES
    day,       \* today, on the org's calendar
    ran,       \* process_payment_reminders has run today
    on, since, \* Invoices is on, and the day it came back on
    invoice,   \* the invoice row
    reminder,  \* per queued task, where it is
    lastMail,  \* history: the day of the last mail under the present frequency
    excused    \* history: tasks queued while another was under way, and mails whose
               \* record was lost, less the mails that came too soon

remindersVars == <<day, ran, on, since, invoice, reminder, lastMail, excused>>

Days == 0..LastDay

\* "Open" stands for Sent, Viewed, Partially_Paid and Overdue with reminders on and a
\* due date, "Settled" for Paid and Cancelled, and "Held" for the rest: a Draft again,
\* reminders off or no due date, which a run passes over and a task does not look at.
InvoiceRows == [status : {"Held", "Open", "Settled"}, due : Days, once : BOOLEAN,
                lastSent : Days \cup {Never}]

RemindersTypeOK ==
    /\ day \in Days /\ since \in Days \cup {Never}
    /\ {ran, on} \subseteq BOOLEAN
    /\ invoice \in InvoiceRows
    /\ reminder \in [Reminders -> {"none", "queued", "read", "mailed"}]
    /\ lastMail \in Days \cup {Never}
    /\ excused \in Int

RemindersInit ==
    /\ day = 0 /\ ran = FALSE /\ on = TRUE /\ since = Never
    /\ invoice \in [status : {"Open"}, due : Days, once : BOOLEAN, lastSent : {Never}]
    /\ reminder = [t \in Reminders |-> "none"]
    /\ lastMail = Never /\ excused = 0
-----------------------------------------------------------------------------
(* The cadence *)

\* process_payment_reminders; the code's 9999, "effectively only once".
Interval == IF invoice.once THEN 9999 ELSE Weekly

\* Mutant of ReminderDay: whole intervals are rounded down.
ReminderDayFloor(first) ==
    LET due == IF invoice.lastSent # Never THEN invoice.lastSent + Interval ELSE first
    IN  IF since = Never \/ due >= since THEN due
        ELSE due + Interval * ((since - due) \div Interval)

\* _reminder_day: a day that fell before Invoices came back on is moved forward by
\* whole intervals.
ReminderDay(first) ==
    LET due == IF invoice.lastSent # Never THEN invoice.lastSent + Interval ELSE first
    IN  IF since = Never \/ due >= since THEN due
        ELSE due + Interval * ((since - due + Interval - 1) \div Interval)

InBefore == invoice.due > day /\ Before > 0 /\ invoice.due - day <= Before
InAfter  == invoice.due < day /\ After > 0 /\ day - invoice.due >= After

FirstDay == IF invoice.due > day THEN invoice.due - Before ELSE invoice.due + After

Candidate == invoice.status = "Open" /\ (InBefore \/ InAfter)

ShouldSend == Candidate /\ day >= ReminderDay(FirstDay)

\* The run of the day; with Invoices off it passes the org over. A task is "queued"
\* from the moment the run has judged the row it read: it is not judged again.
Process ==
    /\ ~ran /\ ran' = TRUE
    /\ IF on /\ ShouldSend
       THEN \E t \in Reminders :
              /\ reminder[t] = "none"
              /\ reminder' = [reminder EXCEPT ![t] = "queued"]
              /\ excused' = IF \E u \in Reminders : reminder[u] # "none"
                            THEN excused + 1 ELSE excused
       ELSE UNCHANGED <<reminder, excused>>
    /\ UNCHANGED <<day, on, since, invoice, lastMail>>

\* Midnight, the day's run done or not.
NextDay ==
    /\ day < LastDay
    /\ day' = day + 1 /\ ran' = FALSE
    /\ UNCHANGED <<on, since, invoice, reminder, lastMail, excused>>
-----------------------------------------------------------------------------
(* One reminder *)

Step(t, from, to) == reminder[t] = from /\ reminder' = [reminder EXCEPT ![t] = to]

\* The task asks again whether Invoices is on and the invoice settled.
Read(t) ==
    /\ on /\ invoice.status # "Settled"
    /\ Step(t, "queued", "read")
    /\ UNCHANGED <<day, ran, on, since, invoice, lastMail, excused>>

MailReminder(t) ==
    /\ Step(t, "read", "mailed")
    /\ excused' = IF lastMail # Never /\ day - lastMail < Interval
                  THEN excused - 1 ELSE excused
    /\ lastMail' = day
    /\ UNCHANGED <<day, ran, on, since, invoice>>

\* Mutant of Record: the day of the last reminder is not written.
RecordNoDay(t) ==
    /\ Step(t, "mailed", "none")
    /\ UNCHANGED <<day, ran, on, since, invoice, lastMail, excused>>

Record(t) ==
    /\ Step(t, "mailed", "none")
    /\ invoice' = [invoice EXCEPT !.lastSent = day]
    /\ UNCHANGED <<day, ran, on, since, lastMail, excused>>

\* Dropped (off, settled, no address), refused by the mail server, or the worker dies.
Lose(t) ==
    /\ reminder[t] # "none"
    /\ reminder' = [reminder EXCEPT ![t] = "none"]
    /\ excused' = IF reminder[t] = "mailed" THEN excused + 1 ELSE excused
    /\ UNCHANGED <<day, ran, on, since, invoice, lastMail>>
-----------------------------------------------------------------------------
(* Around it *)

\* It is paid or cancelled, a payment on it is deleted (InvoiceLedger), reminders are
\* turned off or on.
Change ==
    /\ \E status \in {"Held", "Open", "Settled"} \ {invoice.status} :
         invoice' = [invoice EXCEPT !.status = status]
    /\ UNCHANGED <<day, ran, on, since, reminder, lastMail, excused>>

\* A locked PUT. What was mailed under another frequency is not held against it.
Edit ==
    /\ \E due \in Days, once \in BOOLEAN :
         /\ invoice' = [invoice EXCEPT !.due = due, !.once = once]
         /\ lastMail' = IF once = invoice.once THEN lastMail ELSE Never
    /\ UNCHANGED <<day, ran, on, since, reminder, excused>>

SwitchOff ==
    /\ on /\ on' = FALSE
    /\ UNCHANGED <<day, ran, since, invoice, reminder, lastMail, excused>>

SwitchOn ==
    /\ ~on /\ on' = TRUE /\ since' = day
    /\ UNCHANGED <<day, ran, invoice, reminder, lastMail, excused>>

RemindersNext ==
    \/ Process \/ NextDay \/ Change \/ Edit \/ SwitchOff \/ SwitchOn
    \/ \E t \in Reminders : Read(t) \/ MailReminder(t) \/ Record(t) \/ Lose(t)

RemindersSpec == RemindersInit /\ [][RemindersNext]_remindersVars
-----------------------------------------------------------------------------
(* Properties *)

\* Reminders keep their distance, and one set to ONCE is one mail, except that each
\* task queued while another was under way, and each mail whose record was lost, may
\* cost one more: the run judges last_reminder_sent, and the task does not ask again.
RemindersSpaced == excused >= 0

\* "A reminder whose day fell while off is not sent later; the next one in the
\* cadence is sent on its day" (docs/api/modules.md): the run queues one exactly when
\* some day of the cadence has come and none since Invoices came back on was skipped.
Cadence == IF invoice.lastSent # Never
           THEN {invoice.lastSent + k * Interval : k \in 1..(LastDay + 1)}
           ELSE {FirstDay + k * Interval : k \in 0..(LastDay + Before + 1)}

Queued == \E t \in Reminders : reminder[t] = "none" /\ reminder'[t] = "queued"

CadenceKept ==
    [][ ~ran /\ ran' /\ on /\ Candidate =>
          (Queued <=> \E d \in Cadence : d <= day /\ (since # Never => d >= since)) ]_remindersVars
=============================================================================
