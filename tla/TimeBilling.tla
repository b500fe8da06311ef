---------------------------- MODULE TimeBilling ----------------------------
(***************************************************************************)
(* Logged time on its way to an invoice: timers are stopped, entries       *)
(* edited, billed and freed again under row locks, while the sweep for     *)
(* forgotten timers works from a list it read without one, and the         *)
(* Timesheet module it sweeps for is switched off and on again.            *)
(***************************************************************************)
EXTENDS Naturals, FiniteSets

CONSTANTS Entries,    \* time entries, each of another member
          Forgotten,  \* those that may run past the sweep's threshold
          Invoices,   \* bound: invoices raised from time
          MaxListed,  \* bound: a sweep starts while fewer copies than this wait
          NoInvoice

ASSUME ForgottenAreEntries == Forgotten \subseteq Entries
ASSUME NoInvoiceAssumption == NoInvoice \notin Invoices

VARIABLES
    entry,     \* per entry, its time_entry row
    invoice,   \* per invoice, its status, whether a payment is on it, and the
               \* entries its lines charge
    timesheet, \* the Timesheet module: on as it "always" was, "off", or "on" again
    sweep,     \* what the sweep about to list read of the module: "current", or
               \* "old" since a switch; else "none"
    late,      \* the timers that passed the threshold after that sweep's cutoff
    listed     \* the sweeps' lists: the copies they read and have yet to save

sweepVars == <<timesheet, sweep, late, listed>>
timeVars  == <<entry, invoice, sweepVars>>

\* A timer runs while ended_at is null: within the threshold ("running"), past it
\* ("overrun"), or past it already when the module was last switched on ("missed").
Timers == {"stopped", "running", "overrun", "missed"}

\* A row is there unless `state` says not.
EntryRows ==
    {row \in [state : {"none", "kept", "deleted"}, timer : Timers,
              billable : BOOLEAN, invoice : Invoices \cup {NoInvoice}] :
        row.invoice # NoInvoice => row.state = "kept" /\ row.timer = "stopped"}

TimeTypeOK ==
    /\ entry \in [Entries -> EntryRows]
    /\ invoice \in [Invoices -> [status : {"none", "standing", "cancelled"},
                                 paid : BOOLEAN, charged : SUBSET Entries]]
    /\ timesheet \in {"always", "off", "on"}
    /\ sweep \in {"none", "current", "old"}
    /\ late \subseteq Entries
    /\ listed \subseteq Entries \X EntryRows

TimeInit ==
    /\ entry = [e \in Entries |-> [state |-> "none", timer |-> "stopped",
                                   billable |-> FALSE, invoice |-> NoInvoice]]
    /\ invoice = [i \in Invoices |-> [status |-> "none", paid |-> FALSE,
                                    charged |-> {}]]
    /\ timesheet = "always" /\ sweep = "none" /\ late = {} /\ listed = {}

Kept(e)     == entry[e].state = "kept"
Unbilled(e) == Kept(e) /\ entry[e].invoice = NoInvoice
Runs(e)     == Kept(e) /\ entry[e].timer # "stopped"

\* The client owes an invoice, or has paid on it before it was cancelled.
Holds(i) ==
    \/ invoice[i].status = "standing"
    \/ invoice[i].status = "cancelled" /\ invoice[i].paid
-----------------------------------------------------------------------------
\* A request let in before the module was switched off may finish after: the
\* requests do not ask for it.

\* Where the started_at a request writes may stand: past the threshold is before
\* the cutoff of a sweep under way, too.
Started(e) ==
    {"stopped", "running"} \cup
    (IF e \notin Forgotten THEN {}
     ELSE IF timesheet = "always" THEN {"overrun"} ELSE {"overrun", "missed"})

\* The timer and `billable` of an entry, as a request leaves them.
Write(e, state) ==
    /\ \E timer \in Started(e), billable \in BOOLEAN :
         entry' = [entry EXCEPT ![e].state = state, ![e].timer = timer,
                                ![e].billable = billable]
    /\ UNCHANGED <<invoice, sweepVars>>

\* A timer started, or time logged by hand.
Log(e) == entry[e].state = "none" /\ Write(e, "kept")

Stop(e) ==
    /\ Runs(e)
    /\ entry' = [entry EXCEPT ![e].timer = "stopped"]
    /\ UNCHANGED <<invoice, sweepVars>>

\* PUT: anything but the invoice, the times and billable included, while unbilled.
Edit(e) == Unbilled(e) /\ Write(e, "kept")

Delete(e) ==
    /\ Unbilled(e)
    /\ entry' = [entry EXCEPT ![e].state = "deleted"]
    /\ UNCHANGED <<invoice, sweepVars>>

\* Mutant of Invoiceable: an entry that is on an invoice is billed again.
InvoiceableAgain(e) == Kept(e) /\ entry[e].timer = "stopped" /\ entry[e].billable

\* What build_invoice_lines_from_entries accepts, and unbilled_entries selects.
Invoiceable(e) == Unbilled(e) /\ entry[e].timer = "stopped" /\ entry[e].billable

\* The entries are locked, checked, put on a new draft's lines and pointed at it.
Bill(i) ==
    /\ invoice[i].status = "none"
    /\ \E taken \in SUBSET Entries :
         /\ taken # {} /\ \A e \in taken : Invoiceable(e)
         /\ invoice' = [invoice EXCEPT ![i].status = "standing",
                                       ![i].charged = taken]
         /\ entry' = [e \in Entries |->
                        IF e \in taken THEN [entry[e] EXCEPT !.invoice = i]
                                       ELSE entry[e]]
    /\ UNCHANGED sweepVars

FreedFrom(i) ==
    [e \in Entries |-> IF entry[e].invoice = i
                       THEN [entry[e] EXCEPT !.invoice = NoInvoice] ELSE entry[e]]

Pay(i) ==
    /\ invoice[i].status = "standing"
    /\ invoice' = [invoice EXCEPT ![i].paid = TRUE]
    /\ UNCHANGED <<entry, sweepVars>>

\* Its last payment is deleted; a cancelled invoice's time goes free then.
Refund(i) ==
    /\ invoice[i].paid
    /\ invoice' = [invoice EXCEPT ![i].paid = FALSE]
    /\ entry' = IF invoice[i].status = "cancelled" THEN FreedFrom(i) ELSE entry
    /\ UNCHANGED sweepVars

\* Mutant of Cancel: time is left on the invoice, paid for or not.
CancelKeepingTime(i) ==
    /\ invoice[i].status = "standing"
    /\ invoice' = [invoice EXCEPT ![i].status = "cancelled"]
    /\ UNCHANGED <<entry, sweepVars>>

\* Mutant of Cancel: time goes free although it was paid for.
CancelFreeingPaid(i) ==
    /\ invoice[i].status = "standing"
    /\ invoice' = [invoice EXCEPT ![i].status = "cancelled"]
    /\ entry' = FreedFrom(i)
    /\ UNCHANGED sweepVars

\* The time is billable again, unless money was taken for it.
Cancel(i) ==
    /\ invoice[i].status = "standing"
    /\ invoice' = [invoice EXCEPT ![i].status = "cancelled"]
    /\ entry' = IF invoice[i].paid THEN entry ELSE FreedFrom(i)
    /\ UNCHANGED sweepVars
-----------------------------------------------------------------------------
\* A running timer passes the threshold.
Overrun(e) ==
    /\ e \in Forgotten /\ Kept(e) /\ entry[e].timer = "running"
    /\ entry' = [entry EXCEPT ![e].timer = "overrun"]
    /\ late' = IF sweep = "none" THEN late ELSE late \cup {e}
    /\ UNCHANGED <<invoice, timesheet, sweep, listed>>

\* What a sweep read of the module before a switch is old after it.
Aged == IF sweep = "none" THEN "none" ELSE "old"

SwitchOff ==
    /\ timesheet # "off"
    /\ timesheet' = "off"
    /\ sweep' = Aged
    /\ UNCHANGED <<entry, invoice, late, listed>>

\* The moment is kept as module_on_since: what had overrun by now was missed.
SwitchOn ==
    /\ timesheet = "off"
    /\ timesheet' = "on"
    /\ sweep' = Aged
    /\ entry' = [e \in Entries |-> IF entry[e].timer = "overrun"
                                  THEN [entry[e] EXCEPT !.timer = "missed"]
                                  ELSE entry[e]]
    /\ UNCHANGED <<invoice, late, listed>>

\* auto_stop_stale_timers sets its cutoff and reads the org's row, an org with
\* the module on; nothing waits for an earlier run of it to end,
StartSweep ==
    /\ timesheet # "off"
    /\ sweep = "none" /\ Cardinality(listed) < MaxListed
    /\ sweep' = "current" /\ late' = {}
    /\ UNCHANGED <<entry, invoice, timesheet, listed>>

Stale(e) == Kept(e) /\ entry[e].timer = "overrun"
\* Stale by the module_on_since a sweep read before the last switch, perhaps.
StaleOnce(e) == Kept(e) /\ entry[e].timer = "missed"

\* reads every row that is stale by them,
ListStale ==
    /\ sweep # "none"
    /\ \E more \in SUBSET ({e \in late : Stale(e)} \cup
                            {e \in Entries : sweep = "old" /\ StaleOnce(e)}) :
         listed' = listed \cup {<<e, entry[e]>> :
                               e \in more \cup {f \in Entries \ late : Stale(f)}}
    /\ sweep' = "none" /\ late' = {}
    /\ UNCHANGED <<entry, invoice, timesheet>>

\* Mutant of StopListed: the last timer listed is left out.
StopListedButLast(e) ==
    /\ \E copy \in listed :
         /\ copy[1] = e
         /\ listed' = listed \ {copy}
         /\ entry' = IF listed' = {} THEN entry
                     ELSE [entry EXCEPT ![e] = [copy[2] EXCEPT !.timer = "stopped"]]
    /\ UNCHANGED <<invoice, timesheet, sweep, late>>

\* and saves each copy whole: columns changed since are written back, and a row
\* deleted since is inserted again.
StopListed(e) ==
    /\ \E copy \in listed :
         /\ copy[1] = e
         /\ listed' = listed \ {copy}
         /\ entry' = [entry EXCEPT ![e] = [copy[2] EXCEPT !.timer = "stopped"]]
    /\ UNCHANGED <<invoice, timesheet, sweep, late>>

\* An error, or the worker's death, ends a run of the sweep.
AbandonSweep ==
    /\ \/ sweep # "none" /\ sweep' = "none" /\ late' = {} /\ UNCHANGED listed
       \/ \E rest \in SUBSET listed : listed' = rest /\ UNCHANGED <<sweep, late>>
    /\ UNCHANGED <<entry, invoice, timesheet>>
-----------------------------------------------------------------------------
TimeNext ==
    \/ \E e \in Entries : Log(e) \/ Stop(e) \/ Edit(e) \/ Delete(e)
    \/ \E i \in Invoices : Bill(i) \/ Pay(i) \/ Refund(i) \/ Cancel(i)
    \/ SwitchOff \/ SwitchOn
    \/ StartSweep \/ ListStale \/ AbandonSweep
    \/ \E e \in Entries : Overrun(e) \/ StopListed(e)

\* Beat runs the sweep again and again, not every run is abandoned before it has
\* read its list, and no entry is one that every run is abandoned before.
TimeFairness ==
    /\ WF_timeVars(StartSweep) /\ SF_timeVars(ListStale)
    /\ \A e \in Forgotten : SF_timeVars(StopListed(e))

TimeSpec == TimeInit /\ [][TimeNext]_timeVars /\ TimeFairness
-----------------------------------------------------------------------------
(* Properties *)

\* No time is charged for twice: two invoices that charge the same entry are never
\* both owed or paid on ("a billed entry is never billed twice",
\* docs/features/projects.md), through cancelling, refunding and billing anew.
TwiceBilled(e) ==
    \E i, j \in Invoices : /\ i # j /\ Holds(i) /\ Holds(j)
                           /\ e \in invoice[i].charged \cap invoice[j].charged
\* It holds of every entry the sweep never lists.
UnsweptBilledOnce == \A e \in Entries \ Forgotten : ~TwiceBilled(e)

\* What an invoice charges is exactly what points at it, entries the sweep lists
\* apart: an entry on one is kept and stopped, and nothing unbilled_entries would
\* take again is charged already.
ChargedIsMarked ==
    \A i \in Invoices :
        Holds(i) => \A e \in Entries \ Forgotten :
                        e \in invoice[i].charged <=>
                            Kept(e) /\ entry[e].timer = "stopped" /\ entry[e].invoice = i

\* A timer that passes the threshold while Timesheet is on does not run on: the
\* sweep stops it, or someone does something about it first, or the module goes
\* off. One that went stale while it was off is left running, as the sweep's
\* docstring says.
ForgottenIsStopped ==
    \A e \in Forgotten :
        (timesheet # "off" /\ Stale(e)) ~> ~(timesheet # "off" /\ Stale(e))

\* Whatever the sweep writes back, an entry that points at an invoice points at one
\* that charges it and is owed or paid on, and was billable when it was put there.
PointsAtItsInvoice ==
    \A e \in Entries :
        entry[e].invoice # NoInvoice =>
            /\ Holds(entry[e].invoice)
            /\ e \in invoice[entry[e].invoice].charged
            /\ entry[e].billable
=============================================================================
