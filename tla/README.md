# BottleCRM in TLA+

This directory is a verification project for BottleCRM (the repository `Django-CRM/Django-CRM`):
TLA+ modules that model the parts of the backend where several actors change the same rows,
TLC configurations that check them exhaustively on small instances, and proofs, checked by TLAPS,
that the most important properties hold for every value of the constants.

Contents: [the system](#1-the-system) · [the modules](#2-the-modules) · [module by module](#3-module-by-module)
· [the runs](#4-the-runs-their-bounds-and-what-they-show) · [fairness](#5-fairness) ·
[the proofs](#6-the-proofs) · [disagreements](#7-where-code-and-documentation-disagree) ·
[what is left out](#8-what-is-not-modelled) · [the plan](#9-plan)

To run: `tlc -workers 2 -config X.cfg MCx` for a configuration of section 4, `tlapm XProofs.tla` for a proof module.

## 1. The system

A Django REST backend (`src/backend`), a SvelteKit frontend (`src/frontend`), a Flutter client
(`src/mobile`) and documentation (`src/docs`). Everything that has a state machine is in the backend:
PostgreSQL rows, changed by

* **requests**, one per HTTP call, several at once, each statement its own transaction unless the view
  opens one (there is no `ATOMIC_REQUESTS`), some of them with `SELECT ... FOR UPDATE`;
* **Celery workers**, which acknowledge a message when they take it, so a worker that dies loses it;
* **Celery beat** (`crm/celery.py` 22-110), fifteen periodic sweeps: per minute (webhook dispatch, waiting
  leads), every five minutes (SLA breaches), every thirty (forgotten timers), hourly (retainers) and daily;
* **signal receivers and middleware**, which run inside a request: a change of standing pauses what its
  owner answers for, saved records are captured and handed to the webhooks and to the rule engine.

Tenancy is enforced by PostgreSQL row-level security under every one of them; the modules each speak of
one organization.

### Components

| component | source | state it keeps | operations | how it meets the others |
|---|---|---|---|---|
| Webhook emission | `webhooks/emit.py`, `automation/capture.py` | none of its own; rows of the delivery log | read the active endpoints, fan a change out, queue a row and, at commit, its message | fed by the capture buffer after a request; queues for delivery |
| Webhook delivery | `webhooks/tasks.py` | `webhook_delivery` rows (status, attempts, next_attempt_at), messages in Redis | attempt, retry, sweep, prune, redeliver, test | reads and turns off endpoints; asks `creator_problem` |
| Webhook ownership | `webhooks/ownership.py`, `webhooks/views.py` | `webhook_endpoint` rows (is_active, created_by, url, disabled_reason) and audit rows | PATCH, rotate, delete, pause | receivers on profile and user saves; the attempt pauses too |
| Automation capture and chains | `automation/capture.py`, `middleware.py`, `engine.py` | a per-request buffer; `AutomationRun` rows | capture, merge, hand over, run rules depth first | a rule's writes are changes again |
| Automation hourly limit | `automation/engine.py` 283-360 | run rows of the hour, one skipped row per rule and hour, a cache key | count, run, record, skip, notify | every process that saves something |
| Automation rules, owners, actions | `automation/actions.py`, `ownership.py`, `views.py` | rules, their owners, a rotation cursor | edit, pause, act | as webhook ownership |
| Invoices and payments | `invoices/models.py`, `api_views.py`, `serializer.py`, `tasks.py`, `public_views.py` | invoice rows, payment rows | draft, edit, send, view, pay, refund, cancel, mark overdue, mail | frees time entries when cancelled |
| Recurring invoices | `invoices/tasks.py`, `schedules.py`, `api_views.py`, `serializer.py` | `recurring_invoice` rows (active, start, next date, end, frequency) | create, edit, pause, delete, generate, skip missed dates | raise invoices; moved when the module comes back on |
| Payment reminders | `invoices/tasks.py` 449-643 | `last_reminder_sent` of an invoice, queued tasks | judge the cadence daily, mail, record | pause and catch up with the Invoices switch |
| Estimates and proposals | `invoices/api_views.py`, `proposals.py`, `public_views.py`, `tasks.py` | estimate rows (status, figures, links to what was made from them) | draft, edit, send, view, accept, decline, expire, convert, delete | start a project, draft invoices |
| Time tracking and billing | `cases/time_views.py`, `cases/tasks.py`, `invoices/api_views.py` | `time_entry` rows | log, start, stop, edit, delete, bill, auto-stop | billed on invoices |
| Project retainers | `projects/retainers.py`, `tasks.py`, `views.py` | `retainer_next_month`, `retainer_last_month` on a project | draft a month (job, button, resume), skip, apply the month rules | drafts invoices; reads the Invoices module switch |
| Case status: views, kanban, approvals, merge, reopen, SLA scan | `cases/updates.py`, `serializer.py`, `kanban_views.py`, `approval_views.py`, `merge_views.py`, `signals.py`, `tasks.py` | case rows (status, merge record, escalation_count), approval rows | edit, move, ask, decide, withdraw, merge, unmerge, reopen, escalate | all write the same row, some under its lock and some not |
| Case messages: merge and inbound mail | `cases/merge_views.py`, `unmerge_views.py`, `inbound/` | which ticket each comment and email hangs on | merge, unmerge, thread, file | a reply may reopen the ticket |
| Leads, opportunities, tasks, accounts, contacts, orders | their apps | CRUD rows | CRUD, a few sweeps | capture |
| Common, web forms, business hours, clients | `common/`, `webforms/`, `business_hours/`, `frontend`, `mobile` | organizations, sessions, calendars | authentication, modules, notifications | the tenant boundary |

`PROJECT.json` lists all 27 with their status.

### What is hard here

Nothing in the code is concurrent by its own threads; what makes it hard is that requests, workers, beat
and receivers read a row in one transaction and write it in another. The recurring shapes are

1. *list, then act on each*: every sweep and every receiver reads a list and then updates its members one
   by one. Good ones ask again under a lock or in the UPDATE's `WHERE`; `auto_stop_stale_timers` and
   `ownership.pause` do not, or not of everything;
2. *read, call out, write back*: a webhook attempt and an invoice email both spend seconds outside the
   database between the row they read and the row they write;
3. *count, then insert*: the hourly limit, the endpoint limit;
4. *the claim with a lease*: delivery rows are claimed for two minutes rather than locked;
5. *read, then save every column*: a PUT, a POST, a sweep that saves the copy it read writes back whatever
   changed meanwhile, unless it holds the row's lock from the read;
6. *a copy that is judged and saved later*: an edit of a ticket passes every gate on the row it read, and saves
   that row seconds after a merge, an approval or a scan wrote another;
7. *derived status*: an invoice's status comes from payments and from five handlers that also set it;
8. *date arithmetic under switches*: a retainer's two month columns, a schedule's next date and a reminder's day must survive
   pausing, resuming, changes of type or period, short months, a module switched off, and several parties that bill.

What makes each correct is stated as the properties of its module (section 3); every hazard, at its line,
is in `PROJECT.json` with the properties that would catch it.

## 2. The modules

| module | models | abstract specification | proofs |
|---|---|---|---|
| `WebhookDelivery` | rows, messages, workers, sweeper, pruning, endpoints as a delivery sees them | `DeliveryPromise`: the log as the API shows it | `WebhookDeliveryProofs` |
| `WebhookOwnership` | one endpoint under PATCH, rotation, receivers, attempts | | `WebhookOwnershipProofs` |
| `AutomationLimit` | the hourly limit across processes | | `AutomationProofs` |
| `AutomationChain` | capture buffer and recursive rule engine | | `AutomationProofs` |
| `InvoiceLedger` | one invoice, its payments, its email, its sweep, its portal view | `InvoicePromise`: priced, issued, collected, settled or voided | `InvoiceLedgerProofs` |
| `TimeBilling` | entries, invoices, the forgotten-timer sweep | | `ProjectProofs` |
| `ProjectRetainer` | the months of one retainer | | `ProjectProofs` |
| `RecurringInvoices` | schedules under the generator, their owner, the module switch | | `RecurringInvoicesProofs` |
| `CaseGate` | one ticket's status: edits, moves, approvals, merge, reopening, escalation | | `CaseProofs` |
| `CaseMerge` | tickets merged into one another, and where their messages and a customer's email end up | | `CaseProofs` |
| `QuoteLifecycle` | one quote, what is made from it, its emails, its sweep, its portal page | `QuotePromise`: priced, told, answered once, agreed or closed | `ClientMailProofs` |
| `PaymentReminders` | the reminders of one invoice, day by day | | `ClientMailProofs` |

`MC<Module>` extends each for TLC and holds the constants a `.cfg` cannot write. Each proof module extends its
component's module, or the two of one area, and `TLAPS`; two modules proved together name their variables and formulas
apart (`TimeSpec`, `ChainSpec`, `MergeSpec`, `RemindersSpec`). `WebhookDelivery` abstracts the endpoint to *on / off /
deleted* and *fit*, and lets both change at any time, which covers every step `WebhookOwnership` takes in detail;
`InvoiceLedger` sees its time entries as one bit (`timeHeld`), and `TimeBilling` sees an invoice as *standing /
cancelled / paid on*: each of the pair is the other's environment. `RecurringInvoices!Raise` is the birth of an
invoice, `InvoiceLedger!Init`. `ProjectRetainer` and `RecurringInvoices` both read the Invoices module, and
`PaymentReminders` too; each takes off, on and the day it came on from `common/module_settings.py`. `CaseGate` and
`CaseMerge` are two views of one merge: what it does to the ticket's status, and what it does to the messages.
`PaymentReminders` sees of `InvoiceLedger` whether the invoice is open, settled or neither; a quote's `Convert` and
`Accept` make an `InvoiceLedger` draft.

A definition named *Mutant of X* is a plausible bug in X (a dropped condition, a missing reset, a swapped
order). It is used by no specification; replacing X by it must make the property it is listed with fail, which
shows that the run would notice the bug.

## 3. Module by module

### WebhookDelivery (`webhooks/tasks.py` 42-217, `emit.py` 120-240, `views.py` 148-286)

*State.* `status`, `attempts`, `due` are the row; `due` is `next_attempt_at` relative to the present, so
that time needs no absolute value. `queue` counts the `deliver_webhook` messages of a row in the broker.
`pc`, `job`, `age`, `read` are a worker: its statement, its row, the time since its `now`, and
`delivery.attempts` as it read it. `tried`, `sent`, `repeats` and `deaths` are history: the attempts begun, what
receivers saw, and the deaths of workers that held a row.

*Actions.* One attempt is `Take` (the message is acknowledged), `Claim` or `ClaimRefused` (the conditional UPDATE,
with the `now` captured earlier), `ReadBack` or `ReadBackFails` (the row and its endpoint, the creator's check, the
pause), `RecordRefusal`, `Post` (`Arrives`, with every class of answer, or `NeverLeaves`: `ssrf.post` refuses the
destination or cannot connect, and the attempt counts although nothing was sent), `TurnOff` (410) and `Record`: one
step per statement that other actors can see the effect of. A worker may die at any of them. `Sweep(last)` queues due
rows newest first up to `SweepLimit`, and may be cut short by a broker error after `last`. `Redeliver` logs a new row
for a settled one, which may be one of the `Earlier` rows, in the log when the model begins. `Prune` deletes by age
whatever the status.

*Properties.* `OneSender`: two workers never hold one row past the claim. `RepeatsArePaidFor`: a receiver sees an
attempt number again only for a worker that died with the row. `AttemptsWereTried`: the column counts the tries, sent
or not, and a row reads succeeded only where its last try reached the receiver. `KeepsPromise`: the log implements
`DeliveryPromise` (settled rows never reopen, attempts count up one at a time to the limit, a refusal counts none).
`EventuallySettles`: no row stays pending for ever.

*The assumption.* `MaxAge < Lease`, an attempt ends before its claim runs out. The code's own comment
(tasks.py 16-19) rests on it, but nothing enforces it: name resolution comes before the timeout
and the timeout applies to each read. Without it `OneSender` fails at once (try `MaxAge = Lease`).

### WebhookOwnership (`webhooks/views.py` 73-240, `ownership.py` 61-169, `tasks.py` 110-151)

*State.* The endpoint's row (`url` is known by the admin who chose it), the row lock, and for each admin the
request and the receiver they have under way; per attempt the creator it read.

*Actions.* A PATCH is `Permit`, `LockAndRead`, `SaveAndCommit` (every column is saved, as `save()` without
`update_fields` does); `Rotate` saves only its own columns; `LoseStanding` with or without a receiver (a
queryset update runs none), `ListCreated`, `PauseListed`; a deletion, one transaction, is `StartDelete` (its list),
`FindOff` (what it listed is off by now) and `DeleteUser` (the pause, the emptied column, the commit); the attempt's
`ReadEndpoint`, `CreatorFit`/`CreatorUnfit`, `Send`, `TurnOff`. Statements of other transactions wait while
a PATCH holds the row (`Writable`). A save is a take-over if its caller is not the creator or it sends another url
(`TakesOver`). `credit` is history: the times the endpoint was turned on, less the audit rows of its pauses.

*Properties.* `NoLostWrite`, `OnlyATakeOverTurnsOn`, and `UnfitGoesOff`: a lost standing nobody signalled is noticed
by the next attempt. `UrlMovesWithCreator` and `OneAuditRowPerPause` are proved, and not run.

### AutomationLimit (`automation/engine.py` 274-416)

*State.* Per hour, the run rows (`ran`), each rule's skipped row and who has it locked, the notice key in the
cache; per process where it is. *Actions* follow `_consider`, `_run` and `_skip`: `Consider` counts, `WriteRun`
or `BreakRun` ends the run, `FirstSkip` looks for a skipped row, `LockRow` and `SaveRow` are `get_or_create` and
the count under the lock, `NotifyLimit` is `cache.add`. The hour may turn between any two of them.

*Properties.* `OverrunBounded`: the limit may be passed, by at most one run for each other process.
`SkipsCounted`, and `SkipIsNoticed`. `OneLimitNotice`, that no hour has two notices, is proved, and not run.

### AutomationChain (`automation/capture.py`, `middleware.py`, `engine.py` 82-445, `conditions.py` 130-171)

*State.* Records with one watched field; per process the request, the capture buffer, and the engine's call
stack made explicit: `stack` (the `_handle` calls under way), `later` (a change to be handled next), `seen`,
`runs`. *Actions.* `BeforeSave` and `Save` are `pre_save` and `post_save`, with another request in between and a
write that may be rolled back after it was captured; `Merge` is `_merge`; `Handle`, `ConsiderRule`, `PassOver`,
`RunDone`, `RunFailed`, `Return` are the recursion.

*Properties.* `OncePerChain`, `CauseIsTrue` (each run names the run that truly wrote its record, so a failed
rule's undone writes set nothing off and no rule answers itself), `OneNetChange`; that no chain
is deeper than `MAX_DEPTH` is part of the runs' type (`Runs`).

### InvoiceLedger (`invoices/models.py` 440-895, `api_views.py`, `serializer.py`, `tasks.py` 32-438, `public_views.py` 157-179)

*State.* The invoice row (status, the three timestamps as set or not, total, amount_paid, amount_due), the
payment rows, the deletions between their two transactions, how far each email task is, the sweep
and the portal between their read and their write.

*Actions.* A staff request that locks the row from read to save is one action. `DeletePayment` /
`UpdateAfterDelete` / `FailAfterDelete` are the two transactions of `Payment.delete`. `ReadForMail`, `Mail`,
`RecordMail`, `LoseMail` are `send_invoice_to_client`. `ListOverdue`/`MarkOverdue` and `OpenLink`/`RecordView`
each re-read under the lock. `Updated` is `update_invoice_payment`; `Save` is `Invoice.save`, which frees the
time of a cancelled invoice nobody has paid on.

*Properties.* `BooksBalance` (outside a deletion, and unless one was cut in two),
`PaidIffCovered`, `TimeFollowsMoney`, `PromiseKept` (refinement of `InvoicePromise`, by which nobody pays more than
is billed either), `OverdueIsNoticed`. `CancelledIsFinal` and `SentFiguresFixed` are proved, and follow from the promise.
The model gives an invoice the statuses some code sets: `Pending` is declared and set by none.

### TimeBilling (`cases/time_views.py` 274-555, `cases/tasks.py` 723-765, `common/module_settings.py` 139-173, `cases/services/billing.py`, `invoices/api_views.py` 3307-3386, `invoices/models.py` 584-590)

*State.* Per entry its row, per invoice its status, whether money is on it and what its lines charge, the Timesheet
module's switch, what a sweep read of it (`sweep`, `late`) and the sweeps' copies (`listed`). A row's `timer` places
`started_at` instead of dating it: within the threshold, past it, or past it already when the module was last switched
on (`missed`). One entry per member: the partial unique index keeps one running timer each.
*Actions.* `Bill` locks, checks and marks entries in one transaction; `Cancel` and `Refund` free them when no
money is on the invoice; `StopListed` saves a stale copy whole, as the code does, so it writes back columns
changed since and reinserts a row deleted since. A run of the sweep is `StartSweep` (the cutoff and the org's row: an
org with Timesheet off is passed over), `ListStale` and one `StopListed` per copy; runs overlap, since nothing keeps
them apart. `SwitchOn` turns what had overrun into `missed`, which only a run that read the org's row before the
switch may still list. A request let in before the module went off may finish after, so requests do not ask for it.

*Properties.* `UnsweptBilledOnce` and `ChargedIsMarked` for entries the sweep never lists,
`PointsAtItsInvoice` for every entry, `ForgottenIsStopped`: while Timesheet is on, a timer that overran since it was
switched on does not run on (one that went stale while it was off is left running, as the docstring at tasks.py 727
says). The documentation promises the first of every entry;
those the sweep lists do not keep it (section 7).

### ProjectRetainer (`projects/retainers.py` 62-232, `tasks.py` 23-102, `views.py` 111-145 and 630-669)

*State.* The month it is, the project's type, status, `next` and `last` month, the Invoices module (on, and
since when), one run of the job and one click between their read and their lock, and, as history, what was
drafted and which months the project ran in. "idle" stands for on_hold, completed and cancelled, which the
code treats alike.
*Actions.* `Save` is a create or a PATCH with `apply_month_rules`; `JobBills`/`JobSkips` are `draft_month` and
the pass over the months before the module came back on; `Click`/`ClickBills`/`ClickRefused` are the button.

*Properties.* `NeverDraftedTwice`, `OnlyMonthsItRan`, `OwedIsDrafted`; the proofs add `OpenIffActive` (so that the
two filters that read different columns agree).

### RecurringInvoices (`invoices/tasks.py` 263-386, `schedules.py`, `models.py` 1252-1405, `serializer.py` 1679-1826, `api_views.py` 1941-2117, `common/module_settings.py` 139-173)

*State.* The day, whether Invoices is on, and per schedule its row and who holds its lock. In progress: each
worker's run (the day it read, what it has still to do, the row it claimed), one PUT (the row it read), each POST
between its two saves, one `advance_missed`. History: the last date billed, schedules that billed a date twice,
those a switch-on moved, those a POST set back. A date is a day number and `Calendar` any division of the days
into months, so that the clamp at a month's end is the code's, with months a model checker can afford.

*Actions.* `StartRun` lists what is due, `Claim` is `select_for_update(skip_locked=True)` with the listing's
conditions asked again, `PassOver` finds nothing, `Raise` bills and moves on, `Deactivate` ends, `Fail` rolls
back, `WorkerDies` ends the run. `OpenEdit`/`SaveEdit`/`RefuseEdit` are a PUT under its lock, `Toggle` and `Delete`
one statement under it. `Create`/`FinishCreate` are the POST's two saves, which hold no lock between them.
`StartSweep`, `SkipPeriod`, `WriteMoved`, `EndSweep` are `advance_missed`, inside `change_modules` (which turns
Invoices on at the same commit) or from the management command; its UPDATE asks for the date that was read.

*Properties.* `OncePerPeriod`: no date is billed twice, but by a POST's second save (section 7). `StartsFresh`: a
schedule live at the switch-on, and that nobody wrote meanwhile, has only later dates ahead until its owner sets one
(a paused one keeps its backlog: section 7). `KeepsItsDay`: a schedule of the 31st comes back to it after every short
month, whether the short date was billed or skipped. `DueIsRaised`: a due schedule catches up, whatever failed and
whoever held it.

### CaseGate (`cases/updates.py` 64-136, `serializer.py` 396-445, `kanban_views.py` 289-417, `approval_views.py` 300-659, `merge_views.py` 279-305, `unmerge_views.py` 140-163, `signals.py` 592-708, `tasks.py` 122-218)

*State.* The case row (status, whether its priority and type match the rule, merged or not, the status to give
back, escalation_count), whether the rule matches by what is not in the row, the approval rows, and what is between
a read and a write: requests for approval, edits with the row each will save, replies that found the ticket
closed, the count each breach scan read. `late`, `raced` and `alone` are history.

*Actions.* `Move`, `Merge`, `Unmerge` lock the row and are one step. PUT, PATCH, bulk edit and macro all come to
`updates.py`: `Edit` reads and judges (`MayMove`, `MayClose`), `SaveEdit` writes every column of that copy,
whatever the row has become. `Ask`/`File` are the two halves of a request (the lock on pending rows locks none when
there is none); `Decide` and `CancelRequest` lock the approval. `Hear`/`Reopen` are a customer's reply.
`ScanReads`, `Escalate` and `PassOver` are a scan; beat starts one every five minutes, nothing keeps two apart, and
none asks again before it escalates and saves the count it read plus one.

*Properties.* `ClosedWasApproved`: whatever was saved over what, a closed ticket the rule matches has an approval,
unless it came under the rule past the gate, which the code does not judge. `DuplicateIffMerged`: status and merge
record agree until a reply that read the ticket before a merge reopens it after. `EscalationsCapped`: of the
escalations that neither an edit nor another scan overlapped there are at most three. That overlaps exceed the cap is
the code's doing (section 7); the property says that nothing else does, in any number of scans one after the other.

### CaseMerge (`cases/merge_views.py` 152-305, `unmerge_views.py` 51-163, `updates.py` 64-116, `inbound/pipeline.py` 48-285, `inbound/threading.py` 20-130)

*State.* Per ticket `merged_into` and the messages its merge record lists; per message where it hangs (a ticket's own
messages go together, a customer's email is one of its own); edits with the merge columns they will write back;
emails threaded and not filed yet. `torn` is history: the messages a merge no longer accounts for.

*Actions.* `MergeTicket` and `UnmergeTicket` with the refusals of the API, `CopyTicket`/`SaveCopy` (or `DropCopy`),
`FindByHeader` and `FindByTag` (with `_follow_merge`, one hop) and `FileMail`.

*Properties.* `NothingOnAMerged` and `MessagesFollowMerges`, for every message outside `torn`. A message gets there
only by an unmerge after its target moved it on, a stale save of merge columns, or an email whose ticket is merged
between threading and filing, or reached by subject tag through two merges (section 7).

### QuoteLifecycle (`invoices/api_views.py` 1618-1861, `serializer.py` 1482-1498, `proposals.py` 126-187, `public_views.py` 315-336 and 471-609, `tasks.py` 41-47 and 646-764, `schedules.py` 60-71)

*State.* The estimate row (status, figures, deposit, whether it starts a project, viewed, the client's answer, its
three links), what was made from it and still exists, the email tasks and the figures each read, the sweep and the
portal between read and write, the copy the POST has yet to save again (`posting`). History: `mailed`; `last`, which
keeps a deleted quote's figures for the refinement; and `undone`, raised when the POST's second save falls on a quote
that was sent, agreed, closed or deleted by then.

*Actions.* `Init` is the POST's first commit, which anyone may list and act on; `FinishCreate` its second save, of
every column, without a lock; `AbandonCreate` a POST that dies in between. `EditAmounts`, `EditTerms`, `Send`,
`Convert`, `Accept` and `Decline` lock the row; `Delete` and `DeleteProject` do not, and the links are `SET_NULL`. The
email, the sweep and the view are as in `InvoiceLedger`; `StartFresh` is the one UPDATE when Invoices comes back on.

*Properties.* `PromiseKept`: it implements `QuotePromise`, so the price mailed is the price agreed, the client answers
once, in time if the answer is yes, and nothing takes back what was agreed. `MadeOnce`: the project and the invoices
it links to are all there is. Both hold until the POST's second save undoes something, after which they promise nothing
(`Adrift`; section 7): every other interleaving, of the POST too, keeps them. `ExpiredIsNoticed` holds in any case.

### PaymentReminders (`invoices/tasks.py` 449-643, `api_views.py` 656-704, `common/module_settings.py` 139-169)

*State.* The day and whether the run has been, the Invoices module (on, and since when), the invoice (open, settled or
held back; due date, ONCE or not, day of the last reminder), and how far each task is. History: the day of the
last mail, and `excused`, which a fault that may cost a mail too soon raises and such a mail lowers.

*Actions.* `Process` is the run of a morning for this invoice, `ReminderDay` its arithmetic; `Read`, `MailReminder`,
`Record`, `Lose` are `send_payment_reminder`; `Edit`, `Change`, `SwitchOff`, `SwitchOn` happen around them, on any
day, as does a day on which no run comes.

*Properties.* `RemindersSpaced`: each mail earlier than the interval after the last is accounted for by one task queued
while another was under way, or one mail whose record was lost. `CadenceKept`: the run queues a reminder exactly when a
day of the cadence has come that did not fall while Invoices was off, by a definition of the cadence that does not
use the code's formula.

## 4. The runs, their bounds and what they show

Distinct states are those TLC reports; the longest runs take about three and a half minutes with two workers.

| run | configuration | bounds | what it shows |
|---|---|---|---|
| `delivery` | `WebhookDelivery.cfg` | 2 rows, one of them refused before the model begins, 2 workers, 2 attempts (back-off 1), claim 2, an attempt up to 1, 2 faults, 1 message at a time in the broker (270k) | the claim keeps senders apart, repeats come from deaths, attempts count tries, the log implements `DeliveryPromise`, the row settles or is deleted |
| `ownership` | `WebhookOwnership.cfg` | 2 admins, 3 requests, 1 attempt under way (1.04M) | no pause, rotation, 410 or edit is written over; only a take-over turns it on; lost standing is noticed |
| `automation_limit` | `AutomationLimit.cfg` | 3 processes, 1 rule, limit 2, the turn of one hour (58k) | overrun bounded, skips counted, and noticed |
| `automation_chain` | `AutomationChain.cfg` | 2 requests, 2 saves, 3 records, three lists of 3 rules, depth 3; requests symmetric (1.47M) | chains stop and name their causes; one net change per record |
| `invoice_ledger` | `InvoiceLedger.cfg` | totals to 3, 2 payment rows (reused), 1 email task (21k) | the books, the status and the billed time agree at every interleaving; `InvoicePromise` is implemented; overdue is noticed |
| `time_billing` | `TimeBilling.cfg` | 2 entries (1 forgotten), 2 invoices, sweeps started while fewer than 2 copies wait (505k) | unswept time is billed once, what is charged is marked, a timer that overran while Timesheet is on is stopped |
| `retainer` | `ProjectRetainer.cfg` | 3 months (55k; 4 months, 514k, pass too) | no month twice, none the project did not run in, every month owed is drafted |
| `recurring` | `RecurringInvoices.cfg` | 1 schedule, 2 workers, months of 2, 1, 2, 1, 2 days of which 3 days pass, 1 act of the owner after creating, 1 fault (517k) | no date twice, a live schedule starts fresh after the time off, the day of the month is kept, what is due is billed |
| `case_gate` | `CaseGate.cfg` | 2 agents, 2 approval rows, 1 edit, 1 reply, 2 scans, cap 2; agents, rows and scans symmetric (3.7M) | no status written past the gate, the merge or the cap, but for what the properties name |
| `case_merge` | `CaseMerge.cfg` | 3 tickets, 1 email, 1 edit; tickets symmetric (773k) | messages follow merges, in every order of merging and unmerging |
| `quotes` | `QuoteLifecycle.cfg` | 2 prices, 2 email tasks (511k) | what is agreed stands and is made once, unless the POST's second save undoes it; a lapsed quote is marked |
| `reminders` | `PaymentReminders.cfg` | 6 days, intervals of 3, reminders from 2 days before and 1 after, 2 tasks; symmetric (2.3M) | mails too soon are faults' alone; the cadence survives the switch |

Why the bounds are enough to be interesting. *Delivery*: a second worker is needed for a double claim and there is no
third role; two attempts are one that is tried again and a last one; two faults cover a death followed by the loss of
the message that should repair it; the row settled earlier is what a redelivery copies. (Two messages at a time for
the row pass too, 412k states in nearly five minutes. Two unsettled rows under a sweep of one, newest first, could
starve: that instance, with one worker, one retry and no faults, was checked as well, 228k states, and every row
settles.) *Ownership*: two admins are an old and a new creator, three requests let each act and one act again.
*Limit*: with three processes and a limit of two the bound (4) is reached. *Chain*: three rules and depth 3 are two
that answer each other and one bystander, cut off by depth; the three lists are chosen so that each field, parent,
creation and failing step occurs and each cycle would not stop without `seen`. *Ledger*: two payments on a total of
three can each be part, whole or too much; payment rows are reused, so they come and go without bound. *Time*: one
invoice cancelled, one billed anew, an entry swept and one not; two runs of the sweep hold two copies of one timer.
(Three invoices under one run at a time pass too.) *Retainer*: three months have a gap, a month before it and a month
after it. *Recurring*: schedules share no state but the sweep's transaction, so one is enough; two workers are two
runs that overlap; a two-day month before a one-day month clamps every second date, and the third day lies past a
clamp; the forms are a monthly schedule, a daily one that ends, and one entered paused. *Gate*: two approval rows are
one withdrawn and one given, a cap of two is a first and a last escalation, and one copy under way is enough to write
anything back, since it may be saved and read again without bound; two scans are two that overlap. *Merge*: three
tickets make a chain. *Quotes*: two prices tell a stale one from the row's, and the POST stays open beside everything
else. *Reminders*: six days hold a first reminder, a second on its day and one brought forward over a switch-off; two
tasks overlap.

`CHECK_DEADLOCK FALSE` appears only where the system may really come to rest: every user deleted and the
endpoint off (`WebhookOwnership`), every entry deleted with no invoice left to raise (`TimeBilling`), or,
by its bounds, the last hour modelled being over (`AutomationLimit`), and the quote deleted with its emails gone
(`QuoteLifecycle`).

## 5. Fairness

| module | assumed | because |
|---|---|---|
| `WebhookDelivery` | WF on a worker's next statement; SF on taking each row's message; WF on a whole sweep; WF on time | a Celery worker runs what it took (unless it dies, which the model lets happen `MaxFaults` times); the Redis list is first in, first out; beat starts the sweep each minute |
| `WebhookOwnership` | WF on requests, receivers and attempts | each runs to its end in its process; records keep changing, so attempts keep being made |
| `AutomationLimit` | WF on a process that began a rule | same; without it `SkipIsNoticed` fails, which is the hazard at engine.py 342 |
| `InvoiceLedger` | WF on the overdue sweep's two steps | beat runs it daily; nothing is assumed about people, payments or emails |
| `TimeBilling` | WF on starting a sweep; SF on its listing and on stopping each forgotten timer | beat starts it every half hour; a run may be cut short again and again, but not always before it has listed, or before the same timer |
| `RecurringInvoices` | WF on starting a run; WF on each run's steps, on completing a PUT, on a sweep's steps | beat starts the generator daily; a run, a PUT and a switch go on to their end (a worker may die `MaxFaults` times); a POST is not assumed to finish |
| `ProjectRetainer` | WF on months, the job's start and end; SF on billing and skipping | beat starts the job hourly; runs may fail, not every one before it has done one month |
| `QuoteLifecycle` | WF on the expiry sweep's two steps | as the overdue sweep; a POST is not assumed to finish |

No request, payment, answer, click or death is ever assumed to happen. `CaseGate`, `CaseMerge` and `PaymentReminders`
state safety only: nothing in them must happen (a reminder whose morning is missed is judged again the next).

## 6. The proofs

TLAPS checks these for every number of rows, workers, users, rules, payments, emails, entries, invoices, tickets, months
and calendars. Each `Invariance` theorem (or its like) proves an inductive invariant; the others follow from it. Every
invariant, action property and refinement that a run checks is a theorem; the strengthenings were model-checked first.

| proof module | theorems | the invariant, and why the property alone is not inductive |
|---|---|---|
| `WebhookDeliveryProofs` (if `MaxAge < Lease`) | `TypeCorrect`, `OneSenderAlways`, `RepeatsArePaidForAlways`, `AttemptsWereTriedAlways`, `ScheduledWhilePendingAlways`, `PromiseKept` | that two workers do not hold a row follows only from *when* the row is due: a holder's row is pending and due exactly when its lease ends (`HeldIsLeased`), so no other `now` can claim it. Repeats need an account of the attempt numbers POSTed by workers no longer there (`Owed`), each paid for by one death |
| `WebhookOwnershipProofs` | `TypeCorrect`, `NoLostWriteAlways`, `OneAuditRowPerPauseAlways`, `OnlyATakeOverTurnsOnAlways`, `UrlMovesWithCreatorAlways` | the lock is held by exactly the request between read and save (`LockIsHeld`); each audit row is paid for by a turn-on, with one left over while the endpoint is on (`PausesAreBounded`). The two action properties follow from the copy being the row |
| `AutomationProofs`: the limit | `TypeCorrect`, `OverrunBoundedAlways`, `SkipsCountedAlways`, `OneLimitNoticeAlways` | rows *plus runs under way* are bounded (`RunsAccounted`); who locked a skipped row read what it still counts; the key is there exactly if the notice is |
| `AutomationProofs`: the chain | `OncePerChainAlways`, `CauseIsTrueAlways`, `OneNetChangeAlways` | a run's cause is copied from the frame that led to it, so every frame on the stack, and every change put off, must already name a done run that wrote its record (`FrameTrue`); every run's pair is in `seen`, and the rule about to run is in it but in no run (`MayRun`). Buffers are sequences from which a merge drops an element: `RemovedChange` says what is left |
| `InvoiceLedgerProofs` | `TypeCorrect`, `BooksBalanceAlways`, `PaidIffCoveredAlways`, `TimeFollowsMoneyAlways`, `CancelledIsFinalAlways`, `SentFiguresFixedAlways`, `PromiseKeptAlways` | the books may lag behind a deletion, but only one way: they never show less than is banked nor more than is billed (`BooksBehind`), so what is accepted by the stale balance still fits. A draft has no money on it, a sent invoice is no draft; and Paid means covered even for an invoice of nothing (`PaidMeansCovered`), which the property does not ask |
| `ProjectProofs`: time | `TimeTypeCorrect`, `PointsAtItsInvoiceAlways`, `UnsweptBilledOnceAlways`, `ChargedIsMarkedAlways` | the sweep's copies point at no invoice (`CopiesAreUnbilled`); for entries it never lists, charged and marked are the same thing, and an entry points at one invoice |
| `ProjectProofs`: retainers | `TypeCorrect`, `NeverDraftedTwiceAlways`, `OnlyMonthsItRanAlways`, `OpenIffActiveAlways` | drafted months are behind the next one (`DraftedBehind`), and the months from there to the last are months it ran in (`DueMonthsRan`), with no day read from the future (`DaysRead`) |
| `RecurringInvoicesProofs` | `Typed`, `NextDateMoves`, `OncePerPeriodAlways`, `StartsFreshAlways`, `KeepsItsDayAlways` | who holds a row's lock read the row that is stored (`ClaimsHold`, `EditHolds`); a sweep's worked-out dates are no earlier than those read, on the same day of the month and, once written, past its day (`SweepHolds`); a schedule's next date is past the last one billed unless its POST set it back (`NextIsAhead`). All rest on `NextDateMoves`: the next date is later, and in the calendar, whatever the clamp |
| `CaseProofs`: the gate | `TypeCorrect`, `ClosedWasApprovedAlways`, `DuplicateIffMergedAlways`, `EscalationsCappedAlways`, `ApprovalIsKept` | an edit's copy becomes the row later, so all that is said of the row is said of every copy under way (`Sound`), and of a merged ticket what it will be once unmerged (`ToBeClosed`, and that it remembers no Duplicate); the escalations `alone` counts are at most the count in the row, in each edit's copy and in what each scan read. An approval given stays given (`ApprovalStays`), or a copy judged by it would go bad |
| `CaseProofs`: merges | `EveryMessageIsRouted`, `NothingOnAMergedAlways`, `MessagesFollowMergesAlways` | a merge lists only the messages it moved itself, and chains are of any length: for each ticket not `torn` there is a route, the tickets its messages were moved off in order, that ends where they are, is exactly the tickets whose record lists them, and follows `merged_into` (`Route`). Merging the end makes the route longer by one, unmerging its last step shorter; anything else leaves it or tears it |
| `ClientMailProofs`: quotes | `QuoteInvariance`, `MadeOnceAlways`, `QuotePromiseKept` | an email carries figures read before: they are still the quote's because the send that queued it took the quote out of Draft (`SentIsNoDraft`, `MailIsCurrent`), and only drafts are priced. What the POST's second save may find is a draft with nothing linked to it (`DraftIsBare`) or a quote whose progress it undoes; after that only the row's shape is claimed. The refinement goes by what each step makes of the row (`Stepped`) and of the POST (`Ended`) |
| `ClientMailProofs`: reminders | `RemindersInvariance`, `RemindersSpacedAlways`, `CadenceKeptAlways` | `excused >= 0` says nothing of tasks that have yet to mail: `Excuses` keeps one excuse in hand per such task, but for one once the last mail is an interval old, and for one if that mail's record was lost. The cadence is a lemma about rounding up whole intervals of any length (`WholeIntervals`, `ReminderDayIsFirst`) |

*What is computed by recursion.* The provers cannot use the library's induction theorems, which take an operator, but they
can use `WFMin`, that a non-empty set has a minimal element under a well-founded relation. From it and the well-foundedness
of strict subsets `InvoiceLedgerProofs` proves an induction over the parts of a finite set (`SmallerFirst`), that the
recursive function in the community modules' fold exists and is unique (`SumsExist`, `SumsAgree`), and what a sum of
payments is after one is added or dropped (`BankedAdds`, `BankedDrops`).

The assumptions beyond the constants' types are `AttemptsFitLease`, stated in each theorem that needs it; that null is no
value (`NullAssumption`, `RowsAssumption`, `NoInvoiceAssumption`) and that processes, payment rows and reminders are finitely
many; and those `RecurringInvoices` makes of the calendar (months are consecutive and not empty, and no period that begins
while the model runs leaves it). TLC evaluates all of them on every run.

*Model-checked only.* The liveness properties, for which TLAPS has no means (neither fairness nor `ENABLED`):
`EventuallySettles`, `UnfitGoesOff`, `SkipIsNoticed`, `OverdueIsNoticed`, `ForgottenIsStopped`, `OwedIsDrafted`,
`DueIsRaised` and `ExpiredIsNoticed`.

## 7. Where code and documentation disagree

Read in the code while modelling it; no run refutes these sentences. Where a property excuses one by name, it is named.

*Invoices and time*

* `api_views.py` 728 says a settled invoice must not be re-sent; the task it queues (`tasks.py` 128-143) never looks
  at the status, and mails an invoice paid or cancelled in between.
* `docs/features/projects.md` 200 says time is billed once. `auto_stop_stale_timers` (`cases/tasks.py` 755) saves stale
  copies whole: a timer stopped and billed after it was listed is unbilled, and billed again; entries deleted in between
  come back, and edits are undone (`UnsweptBilledOnce` speaks of the others).
* `tasks.py` 312 says a period is billed once. The POST inserts a schedule, which commits, then saves the whole
  copy again with its totals (`invoices/serializer.py` 1794, 1805): a run in between bills the first date, the save
  writes it back, the next run bills it again (`OncePerPeriod` excuses it; the PUT is locked against just this,
  `api_views.py` 2013).
* `docs/features/proposals.md` 56 says "Acceptance happens once, so nothing is made twice". The POST inserts a quote, which
  commits, then saves every column of that copy again (`serializer.py` 1486, 1497): a quote sent, answered or converted in
  between is a Draft without links once more, can be priced after it was mailed and converted a second time, and one
  deleted in between is inserted again (`undone`, which both quote properties excuse).
* The POST of an invoice has the same two saves (`serializer.py` 1080, 1093): a send or a cancel in between is written back
  to Draft. `InvoiceLedger` begins after the second, or with an invoice other code raises.
* A reminder that still waits when the next daily run judges the cadence is queued again and sent twice: the task does
  not ask again (`tasks.py` 482; `RemindersSpaced` excuses it).
* A draft quote can be opened by its link; its `viewed_at` is then set, and once sent it never reads Viewed
  (`public_views.py` 333). An Expired quote whose date is put off stays Expired: only conversion moves it.
* A quote's email may be sent after the client has answered (`tasks.py` 709-721 never look at the status).

*Cases*

* `threading.py` 23 says "Merge chains are forbidden at the API". A target merged elsewhere is refused
  (`merge_views.py` 225); a source that others were merged into is not. Email by subject tag for the first then lands
  on a merged ticket, and unmerging the first leaves behind what went on, though the record is kept "so unmerge can
  reverse them cleanly" (`merge_views.py` 236): `torn` in `CaseMerge`.
* A PUT, PATCH, bulk edit or macro saves every column of an unlocked copy (`updates.py` 116). It undoes or restores a
  merge made meanwhile, closes again a ticket a customer reopened, or lowers `escalation_count`, and the escalations
  go out again (`alone` leaves out the escalation written over). The board's move is locked for this reason (`kanban_views.py` 292).
* `cases/tasks.py` 52 says "Cap a single case at 3 escalations total". Two scans that overlap both read a count of 2, and
  both escalate (148-203: no lock, no second look at the row); `alone` counts the later only, and the cap holds of what it counts.
* `signals.py` 605 says a merged ticket's status is not changed but by an unmerge; the reply judged a copy read before
  the merge and updates by primary key, which leaves the ticket merged and open (`raced`).
* An edit that sends teams is judged by the stored ones, and neither that nor a change of rule looks at tickets
  already closed (`late`).
* Two requests at once leave two pending approvals, though the view answers 409 to the second (`approval_views.py` 341).
* The PATCH of `parent` takes no lock, unlike the link endpoint (`parent_views.py` 10), whose comment says why.

*Webhooks and automation*

* `engine.py` 8 says an org runs at most `RUNS_PER_HOUR` rules an hour; concurrent processes pass it
  (`OverrunBounded` says by how much).
* `webhooks/views.py` 17 says "only endpoints a demoted admin created are paused"; `ownership.py` 92 updates by
  primary key and `is_active` alone: A loses their standing, a receiver lists A's endpoint (`ownership.py` 123),
  B takes it over with a new URL, and the receiver turns B's endpoint off with A's reason. The sister code,
  `automation/ownership.py` 68, does ask for the owner.
* `serializer.py` 535 says a document that left `Draft` keeps its figures. An invoice a schedule raises is `Sent` with no
  `sent_at` until its email is recorded; a payment recorded and deleted before then makes it a `Draft` again
  (`models.py` 878), open to edits after the client was mailed.
* `docs/api/modules.md` 238 says that when Invoices comes back on "every schedule moves to its next date after
  today. No backlog is billed." `advance_missed` moves active schedules only (`schedules.py` 37): one paused then and
  resumed later bills each date since the time off, a date a run.
* A 410 that answers an old URL turns off the endpoint although it points elsewhere by then (`tasks.py` 149).
* An attempt that outlasts its claim is sent twice (`tasks.py` 107; the assumption `MaxAge < Lease`).
* Deleting a payment is two transactions; between them the invoice reads paid (`models.py` 837; `lost`).
* `docs/integrations/automation.md` 138 says a change that was rolled back sets nothing off. `_confirmed`
  (engine.py 231) tells one by re-reading the record; when another request saved the same value meanwhile,
  the rolled-back change is confirmed and its rule runs too: request A saves `won` and is rolled back, B saves
  `won` and keeps it, both hand over the move to `won`.
* Two requests that read a record before either saved it capture the same move twice.

## 8. What is not modelled

* Django admin edits, which bypass the handlers; app-owned webhook endpoints, which answer to the app.
* Event filters, payloads, signatures, address checks of webhooks: pure functions of a request.
* The POST of an invoice between its two saves (section 7). `InvoiceLedger` starts from an invoice as the generator or a
  conversion leaves it, or the POST once it is done.
* The Invoices module switched off during the sweeps for overdue invoices and lapsed quotes (`tasks.py` 414 and 656): they
  pass over an org without it, so `OverdueIsNoticed` and `ExpiredIsNoticed` speak of orgs that keep it on.
* Line arithmetic, discounts, tax, currency, PDF; the hours, carry-over and amount of a retainer month.
* A process that dies between a commit and its capture hand-over, or between a skipped row and its notice.
* In `RecurringInvoices`, the lines and the email of the invoice raised, the count of invoices raised, the command's
  dry run, two sweeps at once, and requests other than PUT and POST that span a switch-off.
* In `TimeBilling`, a deleted case that cascades to its entries, line edits of a draft (they do not free
  time), and the two transactions of a refund (`InvoiceLedger` has them). In `ProjectRetainer`, the Projects
  module is on.
* In `CaseGate` and `CaseMerge`: parent links and closing with children, alternative thread ids, the SLA clock and its
  pauses, the cool-down between escalations (the model may escalate at any time), a scan that dies after it notified and
  before it counts (the next one notifies again), WIP limits, the CSAT survey, tickets
  and leads raised by mail, comments, deletion. One rule stands for the several that may match.
* In `QuoteLifecycle`, the lines and what the invoices and the project say, notifications, the public link's switch.
* In `PaymentReminders`, the hour of the run, the client's address, and the change of time zone.
* Components marked `not_modelled` in `PROJECT.json`: CRUD under the tenant filter, clients, pure
  calendar arithmetic, and those of the plan.

## 9. Plan

Built in this order, most important first: delivery, ownership, limit, chain, ledger, time, retainer, recurring, then
case gate, case merge, quotes, reminders. Next:

1. Theorems that compose: an endpoint of `WebhookOwnership` changes only as `WebhookDelivery` lets its endpoints change,
   and the invoice of `InvoiceLedger` as `TimeBilling` and `PaymentReminders` let theirs.
2. Parent links of tickets: the cycle that an unlocked PATCH may make, and closing with children.
3. `AutomationOwners`: `WebhookOwnership`'s protocol with the owner condition, and the rotation cursor.
4. The waiting-lead reminder, a per-minute sweep with the shape of `auto_stop_stale_timers`.
