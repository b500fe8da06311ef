--------------------------- MODULE InvoiceLedger ---------------------------
(***************************************************************************)
(* One invoice, from draft to settled or cancelled: what it bills, the     *)
(* payments against it, its status, and the time entries it holds. Staff   *)
(* requests lock the row from their read to their save, so each is one     *)
(* step; deleting a payment, the email to the client, the overdue sweep    *)
(* and the client's first view are not, and interleave with all of them.   *)
(***************************************************************************)
EXTENDS Integers, FiniteSets, Functions

CONSTANTS Pays,       \* payment rows there may be at once
          Tasks,      \* bound: send_invoice_to_client tasks under way at once
          MaxTotal    \* bound: what an invoice may bill

ASSUME LedgerAssumption == IsFiniteSet(Pays) /\ MaxTotal \in Nat

VARIABLES
    row,        \* the invoice row
    late,       \* its due date is before today
    pays,       \* per payment row, its amount; 0 is no row
    deleting,   \* payment rows deleted whose invoice is not brought up to date yet
    timeHeld,   \* the time entries it billed still point at it
    task,       \* per email task, where it is
    sweep,      \* check_overdue_invoices has this invoice on its list
    viewing,    \* a portal request found viewed_at empty
    lost        \* a deletion's process died before the totals; none came since

vars == <<row, late, pays, deleting, timeHeld, task, sweep, viewing, lost>>

Statuses == {"Draft", "Sent", "Viewed", "Partially_Paid", "Overdue", "Paid",
             "Cancelled"}
Settled  == {"Paid", "Cancelled"}

\* The columns that matter here. The three timestamps count as set or not.
Rows == [status : Statuses, sent : BOOLEAN, viewed : BOOLEAN, paidAt : BOOLEAN,
         total : 0..MaxTotal, paid : 0..MaxTotal, due : -MaxTotal..MaxTotal]

TypeOK ==
    /\ row \in Rows
    /\ pays \in [Pays -> 0..MaxTotal]
    /\ deleting \subseteq Pays
    /\ task \in [Tasks -> {"none", "queued", "read", "mailed"}]
    /\ {late, timeHeld, sweep, viewing, lost} \subseteq BOOLEAN

\* The sum of the payment rows there are.
Banked(p) == SumFunctionOnSet(p, {i \in Pays : p[i] > 0})

Raised(status, total) ==
    [status |-> status, sent |-> FALSE, viewed |-> FALSE, paidAt |-> FALSE,
     total |-> total, paid |-> 0, due |-> total]

\* A draft a person made (its POST past its second save), or an invoice a schedule
\* with auto-send raised: Sent at once, with its email queued and sent_at still to be
\* set by that email.
Init ==
    /\ \E total \in 0..MaxTotal, auto \in BOOLEAN :
         /\ auto => total > 0 /\ Tasks # {}
         /\ row = Raised(IF auto THEN "Sent" ELSE "Draft", total)
         /\ task = [t \in Tasks |-> IF auto /\ t = CHOOSE u \in Tasks : TRUE
                                    THEN "queued" ELSE "none"]
    /\ late \in BOOLEAN
    /\ pays = [p \in Pays |-> 0]
    /\ deleting = {}
    /\ timeHeld = TRUE
    /\ sweep = FALSE /\ viewing = FALSE /\ lost = FALSE
-----------------------------------------------------------------------------
\* Mutant of Save: a cancelled invoice frees its time, paid for or not.
SaveFreesPaidTime(r, p) ==
    /\ row' = r
    /\ timeHeld' = (timeHeld /\ r.status # "Cancelled")

\* Invoice.save, of every path: a cancelled invoice with no payment on it lets
\* its time entries go, so that they can be billed again.
Save(r, p) ==
    /\ row' = r
    /\ timeHeld' = (timeHeld /\ (r.status = "Cancelled" => Banked(p) > 0))

\* A save of the whole row also derives amount_due. (The totals a draft's save
\* recomputes are those its lines already have.)
SaveAll(r, p) == Save([r EXCEPT !.due = r.total - r.paid], p)

\* Mutant of EditAmounts: open to any invoice not settled.
EditUnsettledAmounts ==
    /\ row.status \notin Settled
    /\ \E total \in 0..MaxTotal : SaveAll([row EXCEPT !.total = total], pays)
    /\ UNCHANGED <<late, pays, deleting, task, sweep, viewing, lost>>

\* Lines, discount, tax and shipping: refused once the invoice is issued.
EditAmounts ==
    /\ row.status = "Draft"
    /\ \E total \in 0..MaxTotal : SaveAll([row EXCEPT !.total = total], pays)
    /\ UNCHANGED <<late, pays, deleting, task, sweep, viewing, lost>>

\* Dates, notes and the rest stay editable in any status.
EditDates ==
    /\ late' \in BOOLEAN
    /\ SaveAll(row, pays)
    /\ UNCHANGED <<pays, deleting, task, sweep, viewing, lost>>

DayPasses ==
    /\ ~late
    /\ late' = TRUE
    /\ UNCHANGED <<row, timeHeld, pays, deleting, task, sweep, viewing, lost>>

Send ==
    /\ row.status \notin Settled
    /\ SaveAll([row EXCEPT !.sent = TRUE,
                           !.status = IF @ = "Draft" THEN "Sent" ELSE @], pays)
    /\ \E t \in Tasks :
         /\ task[t] = "none"
         /\ task' = [task EXCEPT ![t] = "queued"]
    /\ UNCHANGED <<late, pays, deleting, sweep, viewing, lost>>

Cancel ==
    /\ row.status \notin Settled
    /\ Save([row EXCEPT !.status = "Cancelled"], pays)
    /\ UNCHANGED <<late, pays, deleting, task, sweep, viewing, lost>>
-----------------------------------------------------------------------------
\* The status an invoice is in with `banked` paid toward it.
Unpaid(r) ==
    CASE ~r.sent               -> "Draft"
      [] r.sent /\ late        -> "Overdue"
      [] r.sent /\ ~late       -> IF r.viewed THEN "Viewed" ELSE "Sent"

Standing(r, banked) ==
    CASE banked >= r.total     -> "Paid"
      [] banked \in 1..(r.total - 1) -> "Partially_Paid"
      [] OTHER -> IF r.status \in {"Paid", "Partially_Paid"} THEN Unpaid(r)
                                                             ELSE r.status

\* Mutant of Updated: paid_at is not cleared when a balance is open again.
UpdatedKeepingPaidAt(r, banked) ==
    LET open == [r EXCEPT !.paid = banked, !.due = r.total - banked]
    IN  IF r.status = "Cancelled" THEN open
        ELSE [open EXCEPT !.status = Standing(r, banked),
                          !.paidAt = @ \/ banked >= r.total]

\* Payment.update_invoice_payment, on a fresh copy under the row's lock.
Updated(r, banked) ==
    LET open == [r EXCEPT !.paid = banked, !.due = r.total - banked]
    IN  IF r.status = "Cancelled" THEN open
        ELSE [open EXCEPT !.status = Standing(r, banked),
                          !.paidAt = banked >= r.total]

UpdateInvoicePayment(p) ==
    /\ Save(Updated(row, Banked(p)), p)
    /\ lost' = FALSE

\* What PaymentCreateSerializer lets through.
Payable(amount) == row.status # "Cancelled" /\ amount \in 1..row.due

\* POST payments, or mark-paid, which defaults to all that is due.
RecordPayment(p) ==
    /\ pays[p] = 0 /\ p \notin deleting
    /\ \E amount \in 1..MaxTotal :
         /\ Payable(amount)
         /\ pays' = [pays EXCEPT ![p] = amount]
    /\ UpdateInvoicePayment(pays')
    /\ UNCHANGED <<late, deleting, task, sweep, viewing>>

\* DELETE of a payment: the row goes in one transaction ...
DeletePayment(p) ==
    /\ pays[p] > 0
    /\ pays' = [pays EXCEPT ![p] = 0]
    /\ deleting' = deleting \cup {p}
    /\ UNCHANGED <<row, late, timeHeld, task, sweep, viewing, lost>>

\* Mutant of UpdateAfterDelete: Payment.delete forgets the invoice.
NoUpdateAfterDelete(p) ==
    /\ p \in deleting
    /\ deleting' = deleting \ {p}
    /\ UNCHANGED <<row, late, timeHeld, pays, task, sweep, viewing, lost>>

\* ... and the invoice's totals follow in another,
UpdateAfterDelete(p) ==
    /\ p \in deleting
    /\ deleting' = deleting \ {p}
    /\ UpdateInvoicePayment(pays)
    /\ UNCHANGED <<late, pays, task, sweep, viewing>>

\* unless the process dies, or the second transaction fails, in between.
FailAfterDelete(p) ==
    /\ p \in deleting
    /\ deleting' = deleting \ {p}
    /\ lost' = TRUE
    /\ UNCHANGED <<row, late, timeHeld, pays, task, sweep, viewing>>
-----------------------------------------------------------------------------
\* send_invoice_to_client: reads the invoice without a lock and whatever its
\* status, and renders the email and the PDF from that copy,
ReadForMail(t) ==
    /\ task[t] = "queued"
    /\ task' = [task EXCEPT ![t] = "read"]
    /\ UNCHANGED <<row, late, timeHeld, pays, deleting, sweep, viewing, lost>>

\* sends it,
Mail(t) ==
    /\ task[t] = "read"
    /\ task' = [task EXCEPT ![t] = "mailed"]
    /\ UNCHANGED <<row, late, timeHeld, pays, deleting, sweep, viewing, lost>>

\* then writes what sending changes, on a copy re-read under the lock.
RecordMail(t) ==
    /\ task[t] = "mailed"
    /\ task' = [task EXCEPT ![t] = "none"]
    /\ Save([row EXCEPT !.sent = TRUE,
                        !.status = IF @ = "Draft" THEN "Sent" ELSE @], pays)
    /\ UNCHANGED <<late, pays, deleting, sweep, viewing, lost>>

\* The task gives up: no client address, Invoices switched off, the mail server
\* refuses, an error on the write, or the worker dies. Nothing retries it.
LoseMail(t) ==
    /\ task[t] # "none"
    /\ task' = [task EXCEPT ![t] = "none"]
    /\ UNCHANGED <<row, late, timeHeld, pays, deleting, sweep, viewing, lost>>
-----------------------------------------------------------------------------
\* Mutant of OverdueCandidate: a part payment hides the rest.
OverdueUnpaidCandidate == late /\ row.status \in {"Sent", "Viewed"}

OverdueCandidate == late /\ row.status \in {"Sent", "Viewed", "Partially_Paid"}

\* check_overdue_invoices lists the candidates,
ListOverdue ==
    /\ ~sweep /\ OverdueCandidate
    /\ sweep' = TRUE
    /\ UNCHANGED <<row, late, timeHeld, pays, deleting, task, viewing, lost>>

\* and asks again of each under its lock.
MarkOverdue ==
    /\ sweep
    /\ sweep' = FALSE
    /\ IF OverdueCandidate THEN Save([row EXCEPT !.status = "Overdue"], pays)
                           ELSE UNCHANGED <<row, timeHeld>>
    /\ UNCHANGED <<late, pays, deleting, task, viewing, lost>>

\* The client opens the link for the first time: the portal reads the row,
OpenLink ==
    /\ ~viewing /\ ~row.viewed
    /\ viewing' = TRUE
    /\ UNCHANGED <<row, late, timeHeld, pays, deleting, task, sweep, lost>>

\* and again under the lock, for the view to be written once.
RecordView ==
    /\ viewing
    /\ viewing' = FALSE
    /\ IF row.viewed THEN UNCHANGED <<row, timeHeld>>
       ELSE Save([row EXCEPT !.viewed = TRUE,
                             !.status = IF @ = "Sent" THEN "Viewed" ELSE @], pays)
    /\ UNCHANGED <<late, pays, deleting, task, sweep, lost>>
-----------------------------------------------------------------------------
Next ==
    \/ EditAmounts \/ EditDates \/ DayPasses \/ Send \/ Cancel
    \/ \E p \in Pays : \/ RecordPayment(p) \/ DeletePayment(p)
                       \/ UpdateAfterDelete(p) \/ FailAfterDelete(p)
    \/ \E t \in Tasks : ReadForMail(t) \/ Mail(t) \/ RecordMail(t) \/ LoseMail(t)
    \/ ListOverdue \/ MarkOverdue \/ OpenLink \/ RecordView

\* Beat runs the overdue sweep every day, and a sweep that listed the invoice
\* goes on to mark it.
Fairness == WF_vars(ListOverdue) /\ WF_vars(MarkOverdue)

Spec == Init /\ [][Next]_vars /\ Fairness
-----------------------------------------------------------------------------
(* Properties *)

\* Outside a deletion, and unless one was cut in two, amount_paid is the sum of
\* the payments and amount_due what is left (update_invoice_payment).
BooksBalance ==
    deleting = {} /\ ~lost => /\ row.paid = Banked(pays)
                              /\ row.due = row.total - Banked(pays)

\* Of an invoice that bills something and is not cancelled, the books say it is
\* covered exactly when it reads Paid and carries the day it was paid.
PaidIffCovered ==
    row.total > 0 /\ row.status # "Cancelled" =>
        /\ row.status = "Paid" <=> row.paid >= row.total
        /\ row.paidAt <=> row.status = "Paid"

\* A cancelled invoice holds its time entries exactly while a payment was made
\* toward them: with none left, and no deletion under way or cut in two, the time
\* is billable again (Invoice.save); any other invoice keeps them.
TimeFollowsMoney ==
    /\ ~timeHeld => row.status = "Cancelled" /\ Banked(pays) = 0
    /\ row.status = "Cancelled" /\ timeHeld /\ deleting = {} /\ ~lost
         => Banked(pays) > 0

\* No sweep, email, view or payment takes an invoice out of Cancelled: the
\* handlers each re-read it under the lock.
CancelledIsFinal == [][row.status = "Cancelled" => row'.status = "Cancelled"]_vars

\* Once sent_at is set the invoice is never a Draft again, whatever payments come
\* and go, so what it bills never moves (issued_lock_message).
SentFiguresFixed ==
    [][row.sent => row'.status # "Draft" /\ row'.total = row.total]_vars

\* An invoice past its due date and still open is not left reading Sent, Viewed
\* or Partially_Paid: the sweep gets to it, or it is settled or put off.
OverdueIsNoticed ==
    late /\ row.status \in {"Sent", "Viewed", "Partially_Paid"}
        ~> ~late \/ row.status \notin {"Sent", "Viewed", "Partially_Paid"}

\* The invoice keeps InvoicePromise, whatever the seven statuses and the
\* interleavings behind them.
Promise == INSTANCE InvoicePromise WITH
    phase  <- CASE row.status = "Draft"     -> "draft"
                [] row.status = "Paid"      -> "settled"
                [] row.status = "Cancelled" -> "void"
                [] OTHER                    -> "open",
    issued <- row.sent, total <- row.total, posted <- row.paid
PromiseKept == Promise!Spec

=============================================================================
