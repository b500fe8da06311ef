--------------------------- MODULE ProjectProofs ----------------------------
(***************************************************************************)
(* How projects are billed: logged time (TimeBilling), then the monthly    *)
(* fee (ProjectRetainer).                                                  *)
(***************************************************************************)
EXTENDS TimeBilling, ProjectRetainer, TLAPS

(***************************************************************************)
(* For any entries and invoices: an entry that points at an invoice is     *)
(* charged on it, and while the sweep has no timer to write back, nothing  *)
(* is billed twice.                                                        *)
(***************************************************************************)
USE NoInvoiceAssumption

\* The copies the sweep holds point at nothing: it listed running timers, and a
\* running timer is on no invoice.
CopiesAreUnbilled == \A copy \in listed : copy[2].invoice = NoInvoice

TimeInv == TimeTypeOK /\ CopiesAreUnbilled /\ PointsAtItsInvoice

\* What a row is, field by field.
LEMMA RowFields ==
    ASSUME NEW r \in EntryRows
    PROVE  /\ r.state \in {"none", "kept", "deleted"}
           /\ r.timer \in Timers /\ r.billable \in BOOLEAN
           /\ r.invoice \in Invoices \cup {NoInvoice}
           /\ r.invoice # NoInvoice => r.state = "kept" /\ r.timer = "stopped"
BY DEF EntryRows

\* Changing a row that is on no invoice, but for that, keeps it a row.
LEMMA UnbilledRow ==
    ASSUME NEW r \in EntryRows, r.invoice = NoInvoice,
           NEW state \in {"none", "kept", "deleted"},
           NEW timer \in Timers, NEW billable \in BOOLEAN
    PROVE  /\ [r EXCEPT !.state = state, !.timer = timer,
                        !.billable = billable] \in EntryRows
           /\ [r EXCEPT !.timer = timer, !.billable = billable] \in EntryRows
           /\ [r EXCEPT !.timer = timer] \in EntryRows
           /\ [r EXCEPT !.state = state] \in EntryRows
BY DEF EntryRows

LEMMA PointedRow ==
    ASSUME NEW r \in EntryRows, r.state = "kept", r.timer = "stopped", NEW i \in Invoices
    PROVE  [r EXCEPT !.invoice = i] \in EntryRows
BY DEF EntryRows

LEMMA FreedRow ==
    ASSUME NEW r \in EntryRows
    PROVE  [r EXCEPT !.invoice = NoInvoice] \in EntryRows
BY DEF EntryRows

LEMMA StartedAreTimers == \A e \in Entries : Started(e) \subseteq Timers
BY DEF Started, Timers

\* The clock, and the switch that dates what had overrun, move timers that run:
\* none of them is on an invoice, nor comes to be.
LEMMA ClockSteps ==
    ASSUME TimeTypeOK, SwitchOn \/ \E f \in Entries : Overrun(f)
    PROVE  /\ entry' \in [Entries -> EntryRows]
           /\ \A e \in Entries :
                 \/ entry'[e] = entry[e]
                 \/ /\ entry[e].invoice = NoInvoice /\ entry'[e].invoice = NoInvoice
                    /\ entry'[e].timer \in {"overrun", "missed"}
                    /\ entry[e].timer = "overrun" \/ e \in Forgotten
<1>0. entry \in [Entries -> EntryRows] /\ \A e \in Entries : entry[e] \in EntryRows
  BY DEF TimeTypeOK
<1>1. ASSUME NEW e \in Entries, NEW t \in {"overrun", "missed"},
             entry[e].timer # "stopped"
      PROVE  /\ entry[e].invoice = NoInvoice
             /\ [entry[e] EXCEPT !.timer = t] \in EntryRows
             /\ [entry[e] EXCEPT !.timer = t].invoice = NoInvoice
             /\ [entry[e] EXCEPT !.timer = t].timer = t
  <2>1. entry[e].invoice = NoInvoice /\ t \in Timers
    BY <1>0, <1>1, RowFields DEF Timers
  <2>2. [entry[e] EXCEPT !.timer = t] \in EntryRows
    BY <1>0, <2>1, UnbilledRow
  <2>3. /\ [entry[e] EXCEPT !.timer = t].invoice = entry[e].invoice
        /\ [entry[e] EXCEPT !.timer = t].timer = t
    BY <1>0 DEF EntryRows
  <2> QED  BY <2>1, <2>2, <2>3
<1>2. CASE SwitchOn
  <2>1. entry' = [e \in Entries |-> IF entry[e].timer = "overrun"
                                   THEN [entry[e] EXCEPT !.timer = "missed"]
                                   ELSE entry[e]]
    BY <1>2 DEF SwitchOn
  <2>2. ASSUME NEW e \in Entries, entry[e].timer = "overrun"
        PROVE  /\ entry[e].invoice = NoInvoice
               /\ [entry[e] EXCEPT !.timer = "missed"] \in EntryRows
               /\ [entry[e] EXCEPT !.timer = "missed"].invoice = NoInvoice
               /\ [entry[e] EXCEPT !.timer = "missed"].timer = "missed"
    BY <1>1, <2>2
  <2> QED  BY <1>0, <2>1, <2>2
<1>3. ASSUME NEW f \in Entries, Overrun(f)
      PROVE  /\ entry' = [entry EXCEPT ![f] = [entry[f] EXCEPT !.timer = "overrun"]]
             /\ entry[f].timer # "stopped" /\ f \in Forgotten
  BY <1>0, <1>3 DEF Overrun
<1>4. CASE \E f \in Entries : Overrun(f)
  <2>1. PICK f \in Entries : Overrun(f)
    BY <1>4
  <2>2. /\ entry[f].invoice = NoInvoice
        /\ [entry[f] EXCEPT !.timer = "overrun"] \in EntryRows
        /\ [entry[f] EXCEPT !.timer = "overrun"].invoice = NoInvoice
        /\ [entry[f] EXCEPT !.timer = "overrun"].timer = "overrun"
    BY <1>1, <1>3, <2>1
  <2> QED  BY <1>0, <1>3, <2>1, <2>2
<1> QED  BY <1>2, <1>4

LEMMA FreedEntries ==
    ASSUME TimeTypeOK, NEW i \in Invoices
    PROVE  FreedFrom(i) \in [Entries -> EntryRows]
BY FreedRow DEF FreedFrom, TimeTypeOK

\* The invoice rows, but for the bound on what an EXCEPT may put there.
InvoiceRows == [status : {"none", "standing", "cancelled"},
                paid : BOOLEAN, charged : SUBSET Entries]

LEMMA InitTimeInv == TimeInit => TimeInv
<1> SUFFICES ASSUME TimeInit PROVE TimeInv
  OBVIOUS
<1>1. TimeTypeOK
  BY DEF TimeInit, TimeTypeOK, EntryRows, Timers
<1> QED  BY <1>1 DEF TimeInv, CopiesAreUnbilled, PointsAtItsInvoice, TimeInit

LEMMA TimeTypeStep == TimeTypeOK /\ CopiesAreUnbilled /\ [TimeNext]_timeVars => TimeTypeOK'
<1> SUFFICES ASSUME TimeTypeOK, CopiesAreUnbilled, [TimeNext]_timeVars PROVE TimeTypeOK'
  OBVIOUS
<1>0. /\ \A e \in Entries : entry[e] \in EntryRows
      /\ invoice \in [Invoices -> InvoiceRows]
      /\ \A i \in Invoices : invoice[i] \in InvoiceRows
  BY DEF TimeTypeOK, InvoiceRows
<1>1. ASSUME NEW e \in Entries, Log(e) PROVE TimeTypeOK'
  <2>1. entry[e].invoice = NoInvoice
    BY <1>1, <1>0, RowFields DEF Log
  <2>2. PICK timer \in Timers, billable \in BOOLEAN :
          entry' = [entry EXCEPT ![e].state = "kept", ![e].timer = timer,
                                 ![e].billable = billable]
    BY <1>1, StartedAreTimers DEF Log, Write
  <2>3. entry' = [entry EXCEPT ![e] = [entry[e] EXCEPT !.state = "kept",
                      !.timer = timer, !.billable = billable]]
    BY <2>2 DEF TimeTypeOK
  <2>4. [entry[e] EXCEPT !.state = "kept", !.timer = timer, !.billable = billable]
           \in EntryRows
    BY <1>0, <2>1, UnbilledRow
  <2> QED  BY <1>1, <2>3, <2>4 DEF Log, Write, TimeTypeOK, sweepVars
<1>2. ASSUME NEW e \in Entries, Stop(e) PROVE TimeTypeOK'
  <2>1. entry[e].invoice = NoInvoice
    BY <1>2, <1>0, RowFields DEF Stop, Runs
  <2>2. entry' = [entry EXCEPT ![e] = [entry[e] EXCEPT !.timer = "stopped"]]
    BY <1>2 DEF Stop, TimeTypeOK
  <2>3. [entry[e] EXCEPT !.timer = "stopped"] \in EntryRows
    BY <1>0, <2>1, RowFields, UnbilledRow DEF Timers
  <2> QED  BY <1>2, <2>2, <2>3 DEF Stop, TimeTypeOK, sweepVars
<1>3. ASSUME NEW e \in Entries, Edit(e) PROVE TimeTypeOK'
  <2>1. PICK timer \in Timers, billable \in BOOLEAN :
          entry' = [entry EXCEPT ![e].state = "kept", ![e].timer = timer,
                                 ![e].billable = billable]
    BY <1>3, StartedAreTimers DEF Edit, Write
  <2>2. entry' = [entry EXCEPT ![e] = [entry[e] EXCEPT !.state = "kept",
                      !.timer = timer, !.billable = billable]]
    BY <2>1 DEF TimeTypeOK
  <2>3. [entry[e] EXCEPT !.state = "kept", !.timer = timer, !.billable = billable]
           \in EntryRows
    BY <1>0, <1>3, UnbilledRow DEF Edit, Unbilled
  <2> QED  BY <1>3, <2>2, <2>3 DEF Edit, Write, TimeTypeOK, sweepVars
<1>4. ASSUME NEW e \in Entries, Delete(e) PROVE TimeTypeOK'
  <2>1. entry' = [entry EXCEPT ![e] = [entry[e] EXCEPT !.state = "deleted"]]
    BY <1>4 DEF Delete, TimeTypeOK
  <2>2. [entry[e] EXCEPT !.state = "deleted"] \in EntryRows
    BY <1>4, <1>0, UnbilledRow, RowFields DEF Delete, Unbilled
  <2> QED  BY <1>4, <2>1, <2>2 DEF Delete, TimeTypeOK, sweepVars
<1>5. ASSUME NEW i \in Invoices, Bill(i) PROVE TimeTypeOK'
  <2>1. PICK taken \in SUBSET Entries :
          /\ \A e \in taken : Invoiceable(e)
          /\ invoice' = [invoice EXCEPT ![i].status = "standing",
                                        ![i].charged = taken]
          /\ entry' = [e \in Entries |->
                         IF e \in taken THEN [entry[e] EXCEPT !.invoice = i]
                                        ELSE entry[e]]
    BY <1>5 DEF Bill
  <2>2. ASSUME NEW e \in Entries
        PROVE  (IF e \in taken THEN [entry[e] EXCEPT !.invoice = i]
                               ELSE entry[e]) \in EntryRows
    BY <2>1, <1>0, PointedRow DEF Invoiceable, Unbilled, Kept
  <2>3. entry' \in [Entries -> EntryRows]
    BY <2>1, <2>2
  <2>4. invoice' \in [Invoices -> InvoiceRows]
    BY <2>1, <1>0 DEF InvoiceRows
  <2> QED  BY <1>5, <2>3, <2>4 DEF Bill, TimeTypeOK, InvoiceRows, sweepVars
<1>6. ASSUME NEW i \in Invoices, Pay(i) PROVE TimeTypeOK'
  BY <1>6 DEF Pay, TimeTypeOK, sweepVars
<1>7. ASSUME NEW i \in Invoices, Refund(i) PROVE TimeTypeOK'
  <2>1. entry' \in [Entries -> EntryRows]
    BY <1>7, FreedEntries DEF Refund, TimeTypeOK
  <2>2. invoice' \in [Invoices -> InvoiceRows]
    BY <1>7, <1>0 DEF Refund, InvoiceRows
  <2> QED  BY <1>7, <2>1, <2>2 DEF Refund, TimeTypeOK, InvoiceRows, sweepVars
<1>8. ASSUME NEW i \in Invoices, Cancel(i) PROVE TimeTypeOK'
  <2>1. entry' \in [Entries -> EntryRows]
    BY <1>8, FreedEntries DEF Cancel, TimeTypeOK
  <2>2. invoice' \in [Invoices -> InvoiceRows]
    BY <1>8, <1>0 DEF Cancel, InvoiceRows
  <2> QED  BY <1>8, <2>1, <2>2 DEF Cancel, TimeTypeOK, InvoiceRows, sweepVars
<1>9. CASE ListStale
  <2>1. listed' \subseteq Entries \X EntryRows
    <3>1. PICK more \in SUBSET Entries :
            listed' = listed \cup {<<e, entry[e]>> :
                                  e \in more \cup {f \in Entries \ late : Stale(f)}}
      BY <1>9 DEF ListStale, TimeTypeOK
    <3> QED  BY <1>0, <3>1 DEF TimeTypeOK
  <2> QED  BY <1>9, <2>1 DEF ListStale, TimeTypeOK
<1>10. ASSUME NEW e \in Entries, StopListed(e) PROVE TimeTypeOK'
  <2>1. PICK copy \in listed :
          /\ copy[1] = e
          /\ listed' = listed \ {copy}
          /\ entry' = [entry EXCEPT ![e] = [copy[2] EXCEPT !.timer = "stopped"]]
    BY <1>10 DEF StopListed
  <2>2. copy[2] \in EntryRows /\ copy[2].invoice = NoInvoice
    BY <2>1 DEF TimeTypeOK, CopiesAreUnbilled
  <2>3. [copy[2] EXCEPT !.timer = "stopped"] \in EntryRows
    BY <2>2, RowFields, UnbilledRow DEF Timers
  <2> QED  BY <1>10, <2>1, <2>3 DEF StopListed, TimeTypeOK
<1>11. CASE AbandonSweep
  BY <1>11 DEF AbandonSweep, TimeTypeOK
<1>12. CASE UNCHANGED timeVars
  BY <1>12 DEF timeVars, sweepVars, TimeTypeOK
<1>13. CASE SwitchOff \/ StartSweep
  BY <1>13 DEF SwitchOff, StartSweep, Aged, TimeTypeOK
<1>14. CASE SwitchOn \/ \E f \in Entries : Overrun(f)
  <2>1. entry' \in [Entries -> EntryRows]
    BY <1>14, ClockSteps DEF TimeTypeOK
  <2> QED  BY <1>14, <2>1 DEF SwitchOn, Overrun, Aged, TimeTypeOK
<1> QED
  BY <1>1, <1>2, <1>3, <1>4, <1>5, <1>6, <1>7, <1>8, <1>9, <1>10, <1>11, <1>12,
     <1>13, <1>14
     DEF TimeNext

LEMMA CopiesStep == TimeInv /\ [TimeNext]_timeVars => CopiesAreUnbilled'
<1> SUFFICES ASSUME TimeInv, [TimeNext]_timeVars PROVE CopiesAreUnbilled'
  OBVIOUS
<1>1. CASE ListStale
  <2>1. \A e \in Entries : Stale(e) \/ StaleOnce(e) => entry[e].invoice = NoInvoice
    BY RowFields DEF Stale, StaleOnce, TimeInv, TimeTypeOK
  <2>2. late \subseteq Entries
    BY DEF TimeInv, TimeTypeOK
  <2> QED  BY <1>1, <2>1, <2>2 DEF ListStale, CopiesAreUnbilled, TimeInv
<1>2. CASE AbandonSweep
  BY <1>2 DEF AbandonSweep, CopiesAreUnbilled, TimeInv
<1>3. ASSUME NEW e \in Entries, StopListed(e) PROVE CopiesAreUnbilled'
  <2>1. listed' \subseteq listed
    BY <1>3 DEF StopListed
  <2> QED  BY <2>1 DEF TimeInv, CopiesAreUnbilled
<1>4. CASE UNCHANGED listed
  BY <1>4 DEF TimeInv, CopiesAreUnbilled
<1>5. ASSUME NEW e \in Entries, Log(e) \/ Stop(e) \/ Edit(e) \/ Delete(e)
      PROVE  UNCHANGED listed
  BY <1>5 DEF Log, Stop, Edit, Delete, Write, sweepVars
<1>6. ASSUME NEW i \in Invoices, Bill(i) \/ Pay(i) \/ Refund(i) \/ Cancel(i)
      PROVE  UNCHANGED listed
  BY <1>6 DEF Bill, Pay, Refund, Cancel, sweepVars
<1>7. CASE SwitchOff \/ SwitchOn \/ StartSweep \/ \E e \in Entries : Overrun(e)
  BY <1>4, <1>7 DEF SwitchOff, SwitchOn, StartSweep, Overrun
<1> QED
  BY <1>1, <1>2, <1>3, <1>4, <1>5, <1>6, <1>7 DEF TimeNext, timeVars, sweepVars

\* What a member does to an entry leaves every other alone, and the invoice of
\* that one; one on an invoice can only be stopped, which it is.
LEMMA UnbilledSteps ==
    ASSUME TimeTypeOK, NEW f \in Entries, NEW e \in Entries,
           Log(f) \/ Stop(f) \/ Edit(f) \/ Delete(f)
    PROVE  /\ invoice' = invoice /\ entry'[e].invoice = entry[e].invoice
           /\ entry[e].invoice # NoInvoice => /\ entry'[e].billable = entry[e].billable
                                         /\ entry'[e] = entry[e]
<1>0. entry[e] \in EntryRows /\ entry \in [Entries -> EntryRows]
  BY DEF TimeTypeOK
<1>1. entry[e].invoice # NoInvoice => entry[e].state = "kept" /\ entry[e].timer = "stopped"
  BY <1>0, RowFields
<1>2. CASE e # f
  BY <1>0, <1>2 DEF Log, Stop, Edit, Delete, Write
<1>3. CASE e = f
  <2>1. CASE Log(e)
    <3>1. PICK timer \in Timers, billable \in BOOLEAN :
            entry' = [entry EXCEPT ![e].state = "kept", ![e].timer = timer,
                                   ![e].billable = billable]
      BY <2>1, StartedAreTimers DEF Log, Write
    <3>2. entry'[e] = [entry[e] EXCEPT !.state = "kept", !.timer = timer,
                                       !.billable = billable]
      BY <1>0, <3>1
    <3>3. entry'[e].invoice = entry[e].invoice
      BY <1>0, <3>2 DEF EntryRows
    <3> QED  BY <1>1, <1>3, <2>1, <3>3 DEF Log, Write
  <2>2. CASE Stop(e)
    BY <1>0, <1>1, <1>3, <2>2 DEF Stop, Runs, EntryRows
  <2>3. CASE Edit(e)
    <3>1. PICK timer \in Timers, billable \in BOOLEAN :
            entry' = [entry EXCEPT ![e].state = "kept", ![e].timer = timer,
                                   ![e].billable = billable]
      BY <2>3, StartedAreTimers DEF Edit, Write
    <3>2. entry'[e] = [entry[e] EXCEPT !.state = "kept", !.timer = timer,
                                       !.billable = billable]
      BY <1>0, <3>1
    <3>3. entry'[e].invoice = entry[e].invoice
      BY <1>0, <3>2 DEF EntryRows
    <3> QED  BY <1>3, <2>3, <3>3 DEF Edit, Write, Unbilled
  <2>4. CASE Delete(e)
    BY <1>0, <1>1, <2>4 DEF Delete, Unbilled, EntryRows
  <2> QED  BY <1>3, <2>1, <2>2, <2>3, <2>4
<1> QED  BY <1>2, <1>3

\* The part of PointsAtItsInvoice that is about one entry.
Points(e) == entry[e].invoice # NoInvoice =>
                /\ Holds(entry[e].invoice)
                /\ e \in invoice[entry[e].invoice].charged
                /\ entry[e].billable

LEMMA PointsStep == TimeInv /\ [TimeNext]_timeVars => PointsAtItsInvoice'
<1> SUFFICES ASSUME TimeInv, [TimeNext]_timeVars, NEW e \in Entries PROVE Points(e)'
  BY DEF PointsAtItsInvoice, Points
<1>0. /\ TimeTypeOK /\ Points(e) /\ entry[e] \in EntryRows
      /\ entry[e].invoice \in Invoices \cup {NoInvoice}
  BY RowFields DEF TimeInv, PointsAtItsInvoice, Points, TimeTypeOK
<1>1. ASSUME NEW f \in Entries, Log(f) \/ Stop(f) \/ Edit(f) \/ Delete(f)
      PROVE  Points(e)'
  <2>1. /\ invoice' = invoice /\ entry'[e].invoice = entry[e].invoice
        /\ entry[e].invoice # NoInvoice => entry'[e].billable = entry[e].billable
    BY <1>0, <1>1, UnbilledSteps
  <2> QED  BY <1>0, <2>1 DEF Points, Holds
<1>2. ASSUME NEW i \in Invoices, Bill(i) PROVE Points(e)'
  <2>1. PICK taken \in SUBSET Entries :
          /\ \A f \in taken : Invoiceable(f)
          /\ invoice' = [invoice EXCEPT ![i].status = "standing",
                                        ![i].charged = taken]
          /\ entry' = [f \in Entries |->
                         IF f \in taken THEN [entry[f] EXCEPT !.invoice = i]
                                        ELSE entry[f]]
    BY <1>2 DEF Bill
  <2>2. CASE e \in taken
    <3>1. entry'[e] = [entry[e] EXCEPT !.invoice = i]
      BY <2>1, <2>2
    <3>2. entry'[e].invoice = i /\ entry'[e].billable
      BY <1>0, <2>1, <2>2, <3>1 DEF EntryRows, Invoiceable
    <3>3. invoice'[i].status = "standing" /\ invoice'[i].charged = taken
      BY <1>0, <2>1 DEF TimeTypeOK
    <3> QED  BY <2>2, <3>2, <3>3 DEF Points, Holds
  <2>3. CASE e \notin taken
    <3>1. entry'[e] = entry[e]
      BY <2>1, <2>3
    <3>2. entry[e].invoice # i
      BY <1>0, <1>2 DEF Points, Holds, Bill
    <3>3. \A j \in Invoices : j # i => invoice'[j] = invoice[j]
      BY <1>0, <2>1 DEF TimeTypeOK
    <3> QED  BY <1>0, <3>1, <3>2, <3>3 DEF Points, Holds
  <2> QED  BY <2>2, <2>3
<1>3. ASSUME NEW i \in Invoices, Pay(i) PROVE Points(e)'
  <2>1. \A j \in Invoices : /\ invoice'[j].status = invoice[j].status
                            /\ invoice'[j].charged = invoice[j].charged
                            /\ invoice[j].paid => invoice'[j].paid
    BY <1>0, <1>3 DEF Pay, TimeTypeOK
  <2> QED  BY <1>0, <1>3, <2>1 DEF Points, Holds, Pay
<1>4. ASSUME NEW i \in Invoices, Refund(i) PROVE Points(e)'
  <2>1. \A j \in Invoices : /\ invoice'[j].status = invoice[j].status
                            /\ invoice'[j].charged = invoice[j].charged
                            /\ j # i => invoice'[j].paid = invoice[j].paid
    BY <1>0, <1>4 DEF Refund, TimeTypeOK
  <2>2. CASE entry'[e] = entry[e] /\ entry[e].invoice # i
    BY <1>0, <2>1, <2>2 DEF Points, Holds
  <2>3. CASE entry[e].invoice = i /\ invoice[i].status # "cancelled"
    BY <1>0, <1>4, <2>1, <2>3 DEF Points, Holds, Refund
  <2>4. CASE entry[e].invoice = i /\ invoice[i].status = "cancelled"
    <3>1. entry'[e] = [entry[e] EXCEPT !.invoice = NoInvoice]
      BY <1>4, <2>4 DEF Refund, FreedFrom
    <3> QED  BY <1>0, <3>1 DEF Points, EntryRows
  <2> QED  BY <1>4, <2>2, <2>3, <2>4 DEF Refund, FreedFrom
<1>5. ASSUME NEW i \in Invoices, Cancel(i) PROVE Points(e)'
  <2>1. \A j \in Invoices : /\ j # i => invoice'[j].status = invoice[j].status
                            /\ invoice'[j].charged = invoice[j].charged
                            /\ invoice'[j].paid = invoice[j].paid
    BY <1>0, <1>5 DEF Cancel, TimeTypeOK
  <2>2. CASE entry'[e] = entry[e] /\ entry[e].invoice # i
    BY <1>0, <2>1, <2>2 DEF Points, Holds
  <2>3. CASE entry[e].invoice = i /\ invoice[i].paid
    <3>1. entry' = entry /\ invoice'[i].status = "cancelled"
      BY <1>0, <1>5, <2>3 DEF Cancel, TimeTypeOK
    <3> QED  BY <1>0, <2>1, <2>3, <3>1 DEF Points, Holds
  <2>4. CASE entry[e].invoice = i /\ ~invoice[i].paid
    <3>1. entry'[e] = [entry[e] EXCEPT !.invoice = NoInvoice]
      BY <1>5, <2>4 DEF Cancel, FreedFrom
    <3> QED  BY <1>0, <3>1 DEF Points, EntryRows
  <2> QED  BY <1>5, <2>2, <2>3, <2>4 DEF Cancel, FreedFrom
<1>6. ASSUME NEW f \in Entries, StopListed(f) PROVE Points(e)'
  <2>1. PICK copy \in listed :
          /\ copy[1] = f
          /\ entry' = [entry EXCEPT ![f] = [copy[2] EXCEPT !.timer = "stopped"]]
    BY <1>6 DEF StopListed
  <2>2. copy[2] \in EntryRows /\ copy[2].invoice = NoInvoice
    BY <1>0, <2>1 DEF TimeInv, TimeTypeOK, CopiesAreUnbilled
  <2>3. CASE e = f
    <3>1. entry'[e] = [copy[2] EXCEPT !.timer = "stopped"]
      BY <1>0, <2>1, <2>3 DEF TimeTypeOK
    <3> QED  BY <2>2, <3>1 DEF Points, EntryRows
  <2>4. CASE e # f
    BY <1>0, <1>6, <2>1, <2>4 DEF Points, Holds, StopListed, TimeTypeOK
  <2> QED  BY <2>3, <2>4
<1>7. CASE UNCHANGED <<entry, invoice>>
  BY <1>0, <1>7 DEF Points, Holds
<1>8. CASE SwitchOn \/ \E f \in Entries : Overrun(f)
  <2>1. invoice' = invoice
    BY <1>8 DEF SwitchOn, Overrun
  <2> QED  BY <1>0, <1>8, <2>1, ClockSteps DEF Points, Holds
<1> QED
  BY <1>1, <1>2, <1>3, <1>4, <1>5, <1>6, <1>7, <1>8
     DEF TimeNext, timeVars, ListStale, AbandonSweep, SwitchOff, StartSweep

\* An invariant of every instance, sweep and all.
THEOREM TimeInvariance == TimeSpec => []TimeInv
<1>1. TimeInv /\ [TimeNext]_timeVars => TimeInv'
  BY TimeTypeStep, CopiesStep, PointsStep DEF TimeInv
<1> QED  BY <1>1, InitTimeInv, PTL DEF TimeSpec

\* Rows stay rows, and a row on an invoice is kept and stopped.
THEOREM TimeTypeCorrect == TimeSpec => []TimeTypeOK
BY TimeInvariance, PTL DEF TimeInv

\* With the stale saves of auto_stop_stale_timers too, an entry that points at an
\* invoice is charged on it, for an invoice that is owed or paid on.
THEOREM PointsAtItsInvoiceAlways == TimeSpec => []PointsAtItsInvoice
BY TimeInvariance, PTL DEF TimeInv

-----------------------------------------------------------------------------
\* Only forgotten timers pass the threshold, so the sweep writes back copies of
\* those only, and what an invoice charges of the other entries is exactly what
\* points at it.
OverrunAreForgotten ==
    \A e \in Entries : entry[e].timer \in {"overrun", "missed"} => e \in Forgotten

Unswept ==
    /\ ChargedIsMarked
    /\ OverrunAreForgotten
    /\ \A copy \in listed : copy[1] \in Forgotten

LEMMA OverrunStep ==
    ASSUME TimeInv, OverrunAreForgotten, [TimeNext]_timeVars
    PROVE  OverrunAreForgotten'
<1> SUFFICES ASSUME NEW e \in Entries, entry'[e].timer \in {"overrun", "missed"}
             PROVE  e \in Forgotten
  BY DEF OverrunAreForgotten
<1>0. /\ TimeTypeOK /\ entry \in [Entries -> EntryRows] /\ entry[e] \in EntryRows
      /\ entry[e].timer \in {"overrun", "missed"} => e \in Forgotten
  BY DEF TimeInv, TimeTypeOK, OverrunAreForgotten
<1>1. CASE entry'[e].timer = entry[e].timer
  BY <1>0, <1>1
<1>2. ASSUME NEW f \in Entries, Log(f) \/ Edit(f) PROVE e \in Forgotten
  <2>1. PICK timer \in Started(f), billable \in BOOLEAN :
          entry' = [entry EXCEPT ![f].state = "kept", ![f].timer = timer,
                                 ![f].billable = billable]
    BY <1>2 DEF Log, Edit, Write
  <2>2. CASE f = e
    <3>1. entry'[e] = [entry[e] EXCEPT !.state = "kept", !.timer = timer,
                                       !.billable = billable]
      BY <1>0, <2>1, <2>2
    <3>2. entry'[e].timer = timer
      BY <1>0, <3>1 DEF EntryRows
    <3> QED  BY <2>1, <2>2, <3>2 DEF Started
  <2>3. CASE f # e
    BY <1>0, <1>1, <2>1, <2>3
  <2> QED  BY <2>2, <2>3
<1>3. ASSUME NEW f \in Entries, Stop(f) \/ Delete(f) PROVE e \in Forgotten
  <2>1. entry'[e].timer \in {"stopped", entry[e].timer}
    BY <1>0, <1>3 DEF Stop, Delete, EntryRows
  <2> QED  BY <1>1, <2>1
<1>4. ASSUME NEW i \in Invoices, Bill(i) \/ Pay(i) \/ Refund(i) \/ Cancel(i)
      PROVE  e \in Forgotten
  <2>1. \/ entry'[e] = entry[e]
        \/ \E x \in Invoices \cup {NoInvoice} : entry'[e] = [entry[e] EXCEPT !.invoice = x]
    BY <1>4 DEF Bill, Pay, Refund, Cancel, FreedFrom
  <2>2. entry'[e].timer = entry[e].timer
    BY <1>0, <2>1 DEF EntryRows
  <2> QED  BY <1>1, <2>2
<1>5. ASSUME NEW f \in Entries, StopListed(f) PROVE e \in Forgotten
  <2>1. PICK copy \in listed :
          entry' = [entry EXCEPT ![f] = [copy[2] EXCEPT !.timer = "stopped"]]
    BY <1>5 DEF StopListed
  <2>2. copy[2] \in EntryRows
    BY <1>0, <2>1 DEF TimeTypeOK
  <2>3. entry'[e].timer \in {"stopped", entry[e].timer}
    BY <1>0, <2>1, <2>2 DEF EntryRows
  <2> QED  BY <1>1, <2>3
<1>6. CASE SwitchOn \/ \E f \in Entries : Overrun(f)
  BY <1>0, <1>1, <1>6, ClockSteps
<1>7. CASE UNCHANGED entry
  BY <1>1, <1>7
<1> QED
  BY <1>2, <1>3, <1>4, <1>5, <1>6, <1>7
     DEF TimeNext, timeVars, ListStale, AbandonSweep, SwitchOff, StartSweep

\* The part of ChargedIsMarked that is about one invoice and one entry.
Marked(i, e) == Holds(i) => (e \in invoice[i].charged <=>
                    Kept(e) /\ entry[e].timer = "stopped" /\ entry[e].invoice = i)

LEMMA UnsweptStep == TimeInv /\ Unswept /\ [TimeNext]_timeVars => Unswept'
<1> SUFFICES ASSUME TimeInv, Unswept, [TimeNext]_timeVars PROVE Unswept'
  OBVIOUS
<1>0. TimeTypeOK /\ PointsAtItsInvoice
  BY DEF TimeInv
<1>1. \A copy \in listed' : copy[1] \in Forgotten
  <2>1. ASSUME NEW e \in Entries, Log(e) \/ Stop(e) \/ Edit(e) \/ Delete(e)
        PROVE  UNCHANGED listed
    BY <2>1 DEF Log, Stop, Edit, Delete, Write, sweepVars
  <2>2. ASSUME NEW i \in Invoices, Bill(i) \/ Pay(i) \/ Refund(i) \/ Cancel(i)
        PROVE  UNCHANGED listed
    BY <2>2 DEF Bill, Pay, Refund, Cancel, sweepVars
  <2>3. CASE ListStale
    <3>1. \A e \in Entries : Stale(e) \/ StaleOnce(e) => e \in Forgotten
      BY DEF Unswept, OverrunAreForgotten, Stale, StaleOnce
    <3> QED  BY <1>0, <2>3, <3>1 DEF ListStale, Unswept, TimeTypeOK
  <2>4. ASSUME NEW e \in Entries, StopListed(e) PROVE listed' \subseteq listed
    BY <2>4 DEF StopListed
  <2>5. CASE SwitchOff \/ SwitchOn \/ StartSweep \/ \E e \in Entries : Overrun(e)
    BY <2>5 DEF SwitchOff, SwitchOn, StartSweep, Overrun, Unswept
  <2> QED
    BY <2>1, <2>2, <2>3, <2>4, <2>5 DEF TimeNext, timeVars, sweepVars, AbandonSweep, Unswept
<1>2. ASSUME NEW i \in Invoices, NEW e \in Entries \ Forgotten PROVE Marked(i, e)'
  <2>0. /\ Marked(i, e) /\ Points(e) /\ entry[e] \in EntryRows
        /\ entry[e].invoice \in Invoices \cup {NoInvoice}
    BY <1>0, RowFields
       DEF Unswept, ChargedIsMarked, Marked, PointsAtItsInvoice, Points, TimeTypeOK
  <2>1. ASSUME NEW f \in Entries, Log(f) \/ Stop(f) \/ Edit(f) \/ Delete(f)
        PROVE  Marked(i, e)'
    <3>1. /\ invoice' = invoice /\ entry'[e].invoice = entry[e].invoice
          /\ entry[e].invoice = i => entry'[e] = entry[e]
      BY <1>0, <2>1, UnbilledSteps
    <3> QED  BY <2>0, <3>1 DEF Marked, Holds, Kept
  <2>2. ASSUME NEW j \in Invoices, Bill(j) PROVE Marked(i, e)'
    <3>1. PICK taken \in SUBSET Entries :
            /\ \A f \in taken : Invoiceable(f)
            /\ invoice' = [invoice EXCEPT ![j].status = "standing",
                                          ![j].charged = taken]
            /\ entry' = [f \in Entries |->
                           IF f \in taken THEN [entry[f] EXCEPT !.invoice = j]
                                          ELSE entry[f]]
      BY <2>2 DEF Bill
    <3>2. /\ e \in taken => /\ Kept(e) /\ entry[e].timer = "stopped" /\ entry[e].invoice = NoInvoice
                            /\ entry'[e] = [entry[e] EXCEPT !.invoice = j]
          /\ e \notin taken => entry'[e] = entry[e]
      BY <3>1 DEF Invoiceable, Unbilled
    <3>3. /\ e \in taken => /\ entry'[e].state = "kept" /\ entry'[e].timer = "stopped"
                            /\ entry'[e].invoice = j
          /\ entry[e].invoice # j
      BY <2>0, <2>2, <3>2 DEF EntryRows, Kept, Points, Holds, Bill
    <3>4. CASE i = j
      <4>1. invoice'[i].charged = taken
        BY <1>0, <3>1, <3>4 DEF TimeTypeOK
      <4> QED  BY <3>2, <3>3, <3>4, <4>1 DEF Marked, Kept
    <3>5. CASE i # j
      <4>1. invoice'[i] = invoice[i]
        BY <1>0, <3>1, <3>5 DEF TimeTypeOK
      <4> QED  BY <2>0, <3>2, <3>3, <3>5, <4>1 DEF Marked, Holds, Kept
    <3> QED  BY <3>4, <3>5
  <2>3. ASSUME NEW j \in Invoices, Pay(j) PROVE Marked(i, e)'
    <3>1. /\ entry' = entry
          /\ invoice'[i].charged = invoice[i].charged
          /\ invoice'[i].status = invoice[i].status
          /\ i # j => invoice'[i] = invoice[i]
          /\ i = j => invoice[i].status = "standing"
      BY <1>0, <2>3 DEF Pay, TimeTypeOK
    <3> QED  BY <2>0, <3>1 DEF Marked, Holds, Kept
  <2>4. ASSUME NEW j \in Invoices, Refund(j) \/ Cancel(j) PROVE Marked(i, e)'
    <3>1. /\ invoice'[i].charged = invoice[i].charged
          /\ i # j => invoice'[i] = invoice[i]
      BY <1>0, <2>4 DEF Refund, Cancel, TimeTypeOK
    <3>2. \/ entry' = entry
          \/ entry' = FreedFrom(j) /\ ~Holds(j)'
      BY <1>0, <2>4 DEF Refund, Cancel, Holds, TimeTypeOK
    <3>3. Holds(i)' => Holds(i)
      BY <1>0, <2>4 DEF Refund, Cancel, Holds, TimeTypeOK
    <3>4. CASE entry' = entry
      BY <2>0, <3>1, <3>3, <3>4 DEF Marked, Kept
    <3>5. CASE entry' = FreedFrom(j) /\ ~Holds(j)'
      <4>1. entry'[e] = IF entry[e].invoice = j
                        THEN [entry[e] EXCEPT !.invoice = NoInvoice] ELSE entry[e]
        BY <3>5 DEF FreedFrom
      <4>2. CASE i # j
        <5>1. entry[e].invoice = j => entry'[e].invoice = NoInvoice
          BY <2>0, <4>1 DEF EntryRows
        <5> QED  BY <2>0, <3>1, <3>3, <4>1, <4>2, <5>1 DEF Marked, Kept
      <4> QED  BY <3>5, <4>2 DEF Marked
    <3> QED  BY <3>2, <3>4, <3>5
  <2>5. CASE UNCHANGED timeVars
    BY <2>0, <2>5 DEF Marked, Holds, Kept, timeVars
  <2>6. CASE ListStale \/ AbandonSweep \/ SwitchOff \/ StartSweep
    BY <2>0, <2>6
       DEF Marked, Holds, Kept, ListStale, AbandonSweep, SwitchOff, StartSweep
  <2>8. CASE SwitchOn \/ \E f \in Entries : Overrun(f)
    <3>1. entry'[e] = entry[e]
          \/ (entry[e].invoice = NoInvoice /\ entry'[e].invoice = NoInvoice)
      BY <1>0, <2>8, ClockSteps
    <3>2. invoice' = invoice
      BY <2>8 DEF SwitchOn, Overrun
    <3> QED  BY <2>0, <3>1, <3>2 DEF Marked, Holds, Kept
  <2>7. ASSUME NEW f \in Entries, StopListed(f) PROVE Marked(i, e)'
    <3>1. f \in Forgotten /\ invoice' = invoice
      BY <2>7 DEF StopListed, Unswept
    <3>2. entry'[e] = entry[e]
      BY <1>0, <2>7, <3>1 DEF StopListed, TimeTypeOK
    <3> QED  BY <2>0, <3>1, <3>2 DEF Marked, Holds, Kept
  <2> QED  BY <2>1, <2>2, <2>3, <2>4, <2>5, <2>6, <2>7, <2>8 DEF TimeNext
<1>3. OverrunAreForgotten'
  BY OverrunStep DEF Unswept
<1> QED  BY <1>1, <1>2, <1>3 DEF Unswept, ChargedIsMarked, Marked

\* "A billed entry is never billed twice" (docs/features/projects.md), for every
\* entry the sweep never lists: one that two invoices charge points at one of them
\* at most, and the other is neither owed nor paid on.
THEOREM UnsweptBilledOnceAlways == TimeSpec => []UnsweptBilledOnce
<1>1. TimeInit => Unswept
  BY DEF TimeInit, Unswept, OverrunAreForgotten, ChargedIsMarked, Holds
<1>2. TimeInv /\ Unswept /\ [TimeNext]_timeVars => Unswept'
  BY UnsweptStep
<1>3. TimeTypeOK /\ Unswept => UnsweptBilledOnce
  BY DEF TimeTypeOK, Unswept, ChargedIsMarked, UnsweptBilledOnce, TwiceBilled
<1>4. TimeInv => TimeTypeOK
  BY DEF TimeInv
<1> QED  BY <1>1, <1>2, <1>3, <1>4, TimeInvariance, PTL DEF TimeSpec

\* What an invoice charges of the entries the sweep never lists is what points at it.
THEOREM ChargedIsMarkedAlways == TimeSpec => []ChargedIsMarked
<1>1. TimeInit => Unswept
  BY DEF TimeInit, Unswept, OverrunAreForgotten, ChargedIsMarked, Holds
<1>2. TimeInv /\ Unswept /\ [TimeNext]_timeVars => Unswept'
  BY UnsweptStep
<1>3. Unswept => ChargedIsMarked
  BY DEF Unswept
<1> QED  BY <1>1, <1>2, <1>3, TimeInvariance, PTL DEF TimeSpec

-----------------------------------------------------------------------------
(***************************************************************************)
(* For any number of months, and the module and the billing type switched  *)
(* at will: no month of a retainer is drafted twice, and none it did not   *)
(* run in.                                                                 *)
(***************************************************************************)
USE LastMonthAssumption, NullAssumption

\* Every month drafted is behind the one to bill next.
DraftedBehind ==
    \A m \in Months : drafted[m] > 0 => project.next # Null /\ m < project.next

\* The months between the one to bill next and the last one, or today while the
\* retainer is open, are months it ran in; the last one is not yet to come.
DueMonthsRan ==
    project.type = "retainer" =>
        IF project.last = Null THEN \A m \in project.next..today : m \in ran
        ELSE /\ project.last <= today \/ project.last < project.next
             /\ \A m \in project.next..project.last : m \in ran

\* No run and no click works with a day that is not yet.
DaysRead ==
    /\ job # Null => job.day <= today
    /\ click # Null => click.day <= today

IInv == TypeOK /\ OpenIffActive /\ NeverDraftedTwice /\ OnlyMonthsItRan
        /\ DraftedBehind /\ DueMonthsRan /\ DaysRead

\* A project row, column by column.
LEMMA RowColumns ==
    ASSUME NEW p \in Projects
    PROVE  /\ p.type \in {"retainer", "other"} /\ p.status \in {"active", "idle"}
           /\ p.next \in 1..(LastMonth + 1) \cup {Null}
           /\ p.last \in 0..LastMonth \cup {Null}
           /\ p.type = "retainer" => p.next # Null
BY DEF Projects

LEMMA NextMoves ==
    ASSUME NEW p \in Projects, NEW month \in 1..(LastMonth + 1)
    PROVE  /\ [p EXCEPT !.next = month] \in Projects
           /\ [p EXCEPT !.next = month].next = month
           /\ [p EXCEPT !.next = month].type = p.type
           /\ [p EXCEPT !.next = month].status = p.status
           /\ [p EXCEPT !.next = month].last = p.last
BY DEF Projects

\* The row a PATCH saves, before the months are set.
Saved(p, type, status) == [p EXCEPT !.type = type, !.status = status]

LEMMA SavedRow ==
    ASSUME NEW p \in Projects, NEW type \in {"retainer", "other"},
           NEW status \in {"active", "idle"},
           type = "retainer" => p.next # Null
    PROVE  LET row == Saved(p, type, status)
           IN  /\ row \in Projects
               /\ row.type = type /\ row.status = status
               /\ row.next = p.next /\ row.last = p.last
BY DEF Projects, Saved

Dated(p, type, status, next, last) ==
    [Saved(p, type, status) EXCEPT !.next = next, !.last = last]

\* And after: with a new last month, and with both set.
LEMMA LastSet ==
    ASSUME NEW p \in Projects, NEW type \in {"retainer", "other"},
           NEW status \in {"active", "idle"}, NEW last \in 0..LastMonth \cup {Null},
           p.next # Null
    PROVE  LET row == [Saved(p, type, status) EXCEPT !.last = last]
           IN  /\ row \in Projects
               /\ row.type = type /\ row.status = status
               /\ row.next = p.next /\ row.last = last
BY DEF Projects, Saved

IsDated(row, type, status, next, last) ==
    /\ row \in Projects
    /\ row.type = type /\ row.status = status
    /\ row.next = next /\ row.last = last

LEMMA MonthsSet ==
    ASSUME NEW p \in Projects, NEW type \in {"retainer", "other"},
           NEW status \in {"active", "idle"}, NEW last \in 0..LastMonth \cup {Null},
           NEW next \in 1..(LastMonth + 1)
    PROVE  IsDated(Dated(p, type, status, next, last), type, status, next, last)
<1> DEFINE Rows == [type : {"retainer", "other"}, status : {"active", "idle"},
                    next : 1..(LastMonth + 1) \cup {Null},
                    last : 0..LastMonth \cup {Null}]
           row  == Dated(p, type, status, next, last)
<1>1. /\ Saved(p, type, status) \in Rows
      /\ Saved(p, type, status).type = type /\ Saved(p, type, status).status = status
  BY DEF Projects, Saved
<1>2. /\ row \in Rows /\ row.type = type /\ row.status = status
      /\ row.next = next /\ row.last = last
  BY <1>1 DEF Dated
<1>3. next # Null
  OBVIOUS
<1> QED  BY <1>2, <1>3 DEF Projects, IsDated

LEMMA InitIInv == Init => IInv
<1> SUFFICES ASSUME Init PROVE IInv
  OBVIOUS
<1>1. TypeOK
  BY DEF Init, TypeOK, Months, Projects
<1>2. project.type = "other" /\ job = Null /\ click = Null /\ drafted = [m \in Months |-> 0]
  BY DEF Init
<1> QED
  BY <1>1, <1>2 DEF IInv, OpenIffActive, NeverDraftedTwice, OnlyMonthsItRan,
                    DraftedBehind, DueMonthsRan, DaysRead

\* What BillMonth does to the invariant, when the month billed is due.
LEMMA BillMonthKeeps ==
    ASSUME IInv, BillMonth(project.next), Billable(project, today),
           UNCHANGED <<today, ran>>
    PROVE  /\ project' \in Projects /\ drafted' \in [Months -> Nat]
           /\ OpenIffActive' /\ NeverDraftedTwice' /\ OnlyMonthsItRan'
           /\ DraftedBehind' /\ DueMonthsRan'
<1> DEFINE month == project.next
<1>0. /\ project \in Projects /\ today \in Months /\ drafted \in [Months -> Nat]
      /\ project.type = "retainer" /\ month \in Months /\ month <= today
      /\ project.last \in 0..LastMonth \cup {Null}
      /\ project.last # Null => month <= project.last
  BY RowColumns DEF IInv, TypeOK, Billable, Months
<1>1. /\ project' \in Projects /\ project'.next = month + 1
      /\ project'.type = project.type /\ project'.status = project.status
      /\ project'.last = project.last
  <2>1. month + 1 \in 1..(LastMonth + 1)
    BY <1>0 DEF Months
  <2> QED  BY <1>0, <2>1, NextMoves DEF BillMonth
<1>2. month \in ran
  BY <1>0 DEF IInv, DueMonthsRan, Months
<1>3. /\ drafted' \in [Months -> Nat]
      /\ drafted'[month] = drafted[month] + 1
      /\ \A m \in Months : m # month => drafted'[m] = drafted[m]
  BY <1>0 DEF BillMonth
<1>4. drafted[month] = 0
  BY <1>0 DEF IInv, DraftedBehind, Months
<1>5. NeverDraftedTwice' /\ OnlyMonthsItRan'
  BY <1>0, <1>2, <1>3, <1>4 DEF IInv, NeverDraftedTwice, OnlyMonthsItRan
<1>8. DraftedBehind'
  <2> SUFFICES ASSUME NEW m \in Months, drafted'[m] > 0
               PROVE  project'.next # Null /\ m < project'.next
    BY DEF DraftedBehind
  <2>1. month + 1 # Null
    BY <1>0 DEF Months
  <2>2. m = month \/ m < month
    BY <1>0, <1>3 DEF IInv, DraftedBehind
  <2> QED  BY <1>0, <1>1, <2>1, <2>2 DEF Months
<1>6. OpenIffActive'
  BY <1>1 DEF IInv, OpenIffActive
<1>7. DueMonthsRan'
  BY <1>0, <1>1 DEF IInv, DueMonthsRan, Months
<1> QED  BY <1>1, <1>3, <1>5, <1>6, <1>7, <1>8

\* One PATCH: the months are moved and drafted by the rule that applies.
LEMMA SaveKeeps ==
    ASSUME IInv, NEW type \in {"retainer", "other"}, NEW status \in {"active", "idle"},
           NEW start \in Months \cup {Null}, Save(type, status, start)
    PROVE  IInv'
<1> DEFINE first == FirstMonth(project, start)
<1>0. /\ project \in Projects /\ today \in Months /\ drafted \in [Months -> Nat]
      /\ project.type \in {"retainer", "other"} /\ project.status \in {"active", "idle"}
      /\ project.next \in 1..(LastMonth + 1) \cup {Null}
      /\ project.last \in 0..LastMonth \cup {Null}
      /\ project.type = "retainer" => project.next # Null
  BY RowColumns DEF IInv, TypeOK
<1>1. /\ ran \subseteq ran' /\ ran' \subseteq Months
      /\ IsRunning(project') => today \in ran'
  BY <1>0 DEF Save, RunsIn, IInv, TypeOK
<1>2. UNCHANGED <<today, invoices, job, click>>
  BY DEF Save
<1>3. /\ ~Resumes(type, status) => drafted' = drafted
      /\ drafted' \in [Months -> Nat]
      /\ \A m \in Months : drafted'[m] = IF Resumes(type, status) /\ m \in OwedMonths(project)
                                        THEN drafted[m] + 1 ELSE drafted[m]
  BY <1>0 DEF Save
<1>4. CASE Becomes(type)
  <2>11. ~Pauses(type, status) /\ ~Resumes(type, status)
    BY <1>4 DEF Becomes, Pauses, Resumes, Stays
  <2>1. /\ first \in 1..(LastMonth + 1) /\ first >= today
        /\ project.next # Null => first >= project.next
    BY <1>0 DEF FirstMonth, Later, Months
  <2>2. FirstLast(status, first) \in 0..LastMonth \cup {Null}
    BY <2>1 DEF FirstLast
  <2>3. project' = Dated(project, type, status, first, FirstLast(status, first))
    BY <1>4, <2>11 DEF Save, Saved, Dated
  <2>4. /\ project' \in Projects /\ project'.type = type /\ project'.status = status
        /\ project'.next = first /\ project'.last = FirstLast(status, first)
    <3>1. IsDated(Dated(project, type, status, first, FirstLast(status, first)),
                  type, status, first, FirstLast(status, first))
      BY <1>0, <2>1, <2>2, MonthsSet
    <3> QED  BY <2>3, <3>1 DEF IsDated
  <2>5. ~Resumes(type, status)
    BY <2>11
  <2>6. first # Null /\ (status = "idle" => FirstLast(status, first) # Null)
    BY <2>1 DEF FirstLast
  <2>7. OpenIffActive'
    BY <2>4, <2>6 DEF OpenIffActive, FirstLast
  <2>8. DraftedBehind'
    BY <1>0, <1>3, <2>1, <2>4, <2>5, <2>6 DEF IInv, DraftedBehind, Months
  <2>9. DueMonthsRan'
    <3>1. CASE status = "active"
      BY <1>0, <1>1, <1>2, <2>1, <2>4, <3>1
         DEF DueMonthsRan, FirstLast, IsRunning, Becomes, Months
    <3>2. CASE status = "idle"
      BY <2>1, <2>4, <3>2 DEF DueMonthsRan, FirstLast
    <3> QED  BY <3>1, <3>2
  <2>10. NeverDraftedTwice' /\ OnlyMonthsItRan'
    BY <1>1, <1>3, <2>5 DEF IInv, NeverDraftedTwice, OnlyMonthsItRan
  <2> QED
    BY <1>1, <1>2, <1>3, <2>4, <2>7, <2>8, <2>9, <2>10 DEF IInv, TypeOK, DaysRead
<1>5. CASE Pauses(type, status)
  <2>1. /\ project.type = "retainer" /\ type = "retainer" /\ status = "idle"
        /\ project.status = "active" /\ project.next # Null /\ ~Becomes(type)
        /\ ~Resumes(type, status)
    BY <1>0, <1>5 DEF Pauses, Stays, Becomes, Resumes
  <2>2. project' = [Saved(project, type, status) EXCEPT !.last = today]
    BY <1>5, <2>1 DEF Save, Saved
  <2>3. today \in 0..LastMonth /\ today # Null
    BY <1>0 DEF Months
  <2>4. /\ project' \in Projects /\ project'.type = type /\ project'.status = status
        /\ project'.next = project.next /\ project'.last = today
    BY <1>0, <2>1, <2>2, <2>3, LastSet
  <2>5. OpenIffActive' /\ DraftedBehind' /\ NeverDraftedTwice' /\ OnlyMonthsItRan'
    BY <1>1, <1>3, <2>1, <2>3, <2>4
       DEF IInv, OpenIffActive, DraftedBehind, NeverDraftedTwice, OnlyMonthsItRan
  <2>6. DueMonthsRan'
    <3>1. project.last = Null
      BY <2>1 DEF IInv, OpenIffActive
    <3> QED  BY <1>0, <1>1, <1>2, <2>1, <2>3, <2>4, <3>1 DEF IInv, DueMonthsRan, Months
  <2> QED  BY <1>1, <1>2, <1>3, <2>4, <2>5, <2>6 DEF IInv, TypeOK, DaysRead
<1>6. CASE Resumes(type, status)
  <2>1. /\ project.type = "retainer" /\ type = "retainer" /\ status = "active"
        /\ project.status = "idle" /\ project.next # Null /\ ~Becomes(type)
        /\ ~Pauses(type, status) /\ project.last # Null
    BY <1>0, <1>6 DEF Pauses, Stays, Becomes, Resumes, IInv, OpenIffActive
  <2>2. project' = Dated(project, type, status, ResumedMonth(project), Null)
    BY <1>6, <2>1 DEF Save, Saved, Dated
  <2>3. /\ ResumedMonth(project) \in 1..(LastMonth + 1)
        /\ ResumedMonth(project) >= today /\ ResumedMonth(project) >= project.next
    BY <1>0, <2>1 DEF ResumedMonth, Later, Months
  <2>4. /\ project' \in Projects /\ project'.type = type /\ project'.status = status
        /\ project'.next = ResumedMonth(project) /\ project'.last = Null
    <3>1. IsDated(Dated(project, type, status, ResumedMonth(project), Null),
                  type, status, ResumedMonth(project), Null)
      BY <1>0, <2>3, MonthsSet
    <3> QED  BY <2>1, <2>2, <3>1 DEF IsDated
  <2>5. \A m \in OwedMonths(project) :
           m \in Months /\ m \in ran /\ m >= project.next /\ m < today
    BY <1>0, <2>1 DEF OwedMonths, IInv, DueMonthsRan, Months
  <2>6. \A m \in Months : m >= project.next => drafted[m] = 0
    <3> SUFFICES ASSUME NEW m \in Months, m >= project.next PROVE drafted[m] = 0
      OBVIOUS
    <3>1. ~(drafted[m] > 0)
      BY <1>0, <2>1 DEF IInv, DraftedBehind, Months
    <3> QED  BY <1>0, <3>1
  <2>7. NeverDraftedTwice' /\ OnlyMonthsItRan'
    BY <1>0, <1>1, <1>3, <2>5, <2>6 DEF IInv, NeverDraftedTwice, OnlyMonthsItRan
  <2>8. DraftedBehind'
    <3> SUFFICES ASSUME NEW m \in Months, drafted'[m] > 0
                 PROVE  project'.next # Null /\ m < project'.next
      BY DEF DraftedBehind
    <3>1. m < today \/ m < project.next
      BY <1>3, <2>1, <2>5 DEF IInv, DraftedBehind
    <3>2. /\ m \in Int /\ today \in Int /\ project.next \in Int
          /\ ResumedMonth(project) \in Int
      BY <1>0, <2>1, <2>3, LastMonthAssumption DEF Months
    <3>3. m < ResumedMonth(project)
      BY <2>3, <3>1, <3>2
    <3> QED  BY <2>3, <2>4, <3>2, <3>3
  <2>9. OpenIffActive'
    BY <2>1, <2>4 DEF OpenIffActive
  <2>10. DueMonthsRan'
    BY <1>0, <1>1, <1>2, <2>1, <2>3, <2>4 DEF DueMonthsRan, IsRunning, Months
  <2> QED
    BY <1>1, <1>2, <1>3, <2>4, <2>7, <2>8, <2>9, <2>10 DEF IInv, TypeOK, DaysRead
<1>7. CASE ~Becomes(type) /\ ~Pauses(type, status) /\ ~Resumes(type, status)
  <2>1. project' = Saved(project, type, status)
    BY <1>7 DEF Save, Saved
  <2>2. type = "retainer" => project.type = "retainer" /\ project.status = status
    BY <1>0, <1>7 DEF Becomes, Pauses, Resumes, Stays
  <2>3. /\ project' \in Projects /\ project'.type = type /\ project'.status = status
        /\ project'.next = project.next /\ project'.last = project.last
    BY <1>0, <2>1, <2>2, SavedRow
  <2>4. DueMonthsRan'
    BY <1>1, <1>2, <2>2, <2>3 DEF IInv, DueMonthsRan
  <2>5. OpenIffActive' /\ DraftedBehind' /\ NeverDraftedTwice' /\ OnlyMonthsItRan'
    BY <1>1, <1>3, <1>7, <2>2, <2>3
       DEF IInv, OpenIffActive, DraftedBehind, NeverDraftedTwice, OnlyMonthsItRan
  <2> QED  BY <1>1, <1>2, <1>3, <2>3, <2>4, <2>5 DEF IInv, TypeOK, DaysRead
<1> QED  BY <1>4, <1>5, <1>6, <1>7

LEMMA StepKeeps == IInv /\ [Next]_vars => IInv'
<1> SUFFICES ASSUME IInv, [Next]_vars PROVE IInv'
  OBVIOUS
<1>0. /\ project \in Projects /\ today \in Months
      /\ project.next \in 1..(LastMonth + 1) \cup {Null}
      /\ project.last \in 0..LastMonth \cup {Null}
      /\ job # Null => job.day \in Months /\ job.day <= today
      /\ click # Null => click.day \in Months /\ click.day <= today
  BY RowColumns DEF IInv, TypeOK, DaysRead
<1>1. ASSUME NEW type \in {"retainer", "other"}, NEW status \in {"active", "idle"},
             NEW start \in Months \cup {Null}, Save(type, status, start)
      PROVE  IInv'
  BY <1>1, SaveKeeps
<1>2. CASE MonthPasses
  <2>1. /\ today' = today + 1 /\ today' \in Months /\ ran \subseteq ran'
        /\ ran' \subseteq Months
        /\ project.type = "retainer" /\ project.status = "active" => today' \in ran'
        /\ UNCHANGED <<project, invoices, job, click, drafted>>
    <3>1. /\ today' = today + 1 /\ today < LastMonth
          /\ ran' = ran \cup RunsIn(today + 1, project)
          /\ UNCHANGED <<project, invoices, job, click, drafted>>
      BY <1>2 DEF MonthPasses
    <3>2. today' \in Months
      BY <1>0, <3>1 DEF Months
    <3>3. RunsIn(today + 1, project) \subseteq Months
      BY <3>1, <3>2 DEF RunsIn
    <3>4. ran' \subseteq Months
      BY <3>1, <3>3 DEF IInv, TypeOK
    <3>5. project.type = "retainer" /\ project.status = "active" => today' \in ran'
      BY <3>1 DEF RunsIn, IsRunning
    <3> QED  BY <3>1, <3>2, <3>4, <3>5
  <2>2. DueMonthsRan'
    <3>1. CASE project.last = Null
      BY <1>0, <2>1, <3>1 DEF IInv, DueMonthsRan, OpenIffActive, TypeOK, Projects, Months
    <3>2. CASE project.last # Null
      BY <1>0, <2>1, <3>2 DEF IInv, DueMonthsRan, Months
    <3> QED  BY <3>1, <3>2
  <2>3. DaysRead'
    BY <1>0, <2>1 DEF DaysRead, Months
  <2> QED
    BY <2>1, <2>2, <2>3
       DEF IInv, TypeOK, OpenIffActive, NeverDraftedTwice, OnlyMonthsItRan, DraftedBehind
<1>3. CASE SwitchInvoices \/ JobStarts \/ JobEnds \/ Click \/ ClickRefused \/ UNCHANGED vars
  <2>1. UNCHANGED <<today, project, drafted, ran>>
    BY <1>3 DEF SwitchInvoices, JobStarts, JobEnds, Click, ClickRefused, vars
  <2>2. invoices' \in [on : BOOLEAN, since : Months \cup {Null}]
    <3>1. CASE SwitchInvoices
      BY <1>0, <3>1 DEF SwitchInvoices, IInv, TypeOK
    <3>2. CASE UNCHANGED invoices
      BY <3>2 DEF IInv, TypeOK
    <3> QED
      BY <1>3, <3>1, <3>2 DEF JobStarts, JobEnds, Click, ClickRefused, vars
  <2>3. job' \in [day : Months, skip : Months \cup {Null}] \cup {Null}
    BY <1>3 DEF SwitchInvoices, JobStarts, JobEnds, Click, ClickRefused, vars, IInv, TypeOK
  <2>4. click' \in [month : 1..(LastMonth + 1) \cup {Null}, day : Months] \cup {Null}
    BY <1>0, <1>3
       DEF SwitchInvoices, JobStarts, JobEnds, Click, ClickRefused, vars, IInv, TypeOK
  <2>5. DaysRead'
    BY <1>0, <1>3, <2>1
       DEF SwitchInvoices, JobStarts, JobEnds, Click, ClickRefused, vars, IInv, DaysRead,
           Months
  <2> QED
    BY <2>1, <2>2, <2>3, <2>4, <2>5
       DEF IInv, TypeOK, OpenIffActive, NeverDraftedTwice, OnlyMonthsItRan,
           DraftedBehind, DueMonthsRan
<1>4. CASE JobBills
  <2>1. BillMonth(project.next) /\ Billable(project, today) /\ UNCHANGED <<today, ran>>
    BY <1>0, <1>4 DEF JobBills, Ended, Billable, Months, Projects
  <2> QED  BY <1>4, <2>1, BillMonthKeeps DEF JobBills, IInv, TypeOK, DaysRead
<1>5. CASE ClickBills
  <2>1. BillMonth(project.next) /\ Billable(project, today) /\ UNCHANGED <<today, ran>>
    BY <1>0, <1>5 DEF ClickBills, Billable, Months, Projects
  <2> QED  BY <1>5, <2>1, BillMonthKeeps DEF ClickBills, IInv, TypeOK, DaysRead
<1>6. CASE JobSkips
  <2>1. /\ project.type = "retainer" /\ project.next \in Months
        /\ project.next + 1 \in 1..(LastMonth + 1) /\ project.next + 1 # Null
        /\ project' = [project EXCEPT !.next = project.next + 1]
    BY <1>0, <1>6 DEF JobSkips, Ended, Billable, Months
  <2>2. /\ project' \in Projects /\ project'.next = project.next + 1
        /\ project'.type = project.type /\ project'.status = project.status
        /\ project'.last = project.last
    BY <1>0, <2>1, NextMoves
  <2>3. UNCHANGED <<today, invoices, job, click, drafted, ran>>
    BY <1>6 DEF JobSkips
  <2>4. DueMonthsRan'
    BY <1>0, <2>1, <2>2, <2>3 DEF IInv, DueMonthsRan, Months
  <2>5. DraftedBehind'
    BY <1>0, <2>1, <2>2, <2>3 DEF IInv, DraftedBehind, Months
  <2>6. OpenIffActive' /\ NeverDraftedTwice' /\ OnlyMonthsItRan'
    BY <2>2, <2>3 DEF IInv, OpenIffActive, NeverDraftedTwice, OnlyMonthsItRan
  <2> QED  BY <2>2, <2>3, <2>4, <2>5, <2>6 DEF IInv, TypeOK, DaysRead
<1> QED  BY <1>1, <1>2, <1>3, <1>4, <1>5, <1>6 DEF Next

\* An invariant of a project of any number of months.
THEOREM Invariance == Spec => []IInv
BY InitIInv, StepKeeps, PTL DEF Spec

\* The months stay in range, and a retainer always has one to bill next.
THEOREM TypeCorrect == Spec => []TypeOK
BY Invariance, PTL DEF IInv

\* "A month already invoiced is never drafted again" (docs/features/projects.md).
THEOREM NeverDraftedTwiceAlways == Spec => []NeverDraftedTwice
BY Invariance, PTL DEF IInv

\* Only months the project was an active retainer in are drafted.
THEOREM OnlyMonthsItRanAlways == Spec => []OnlyMonthsItRan
BY Invariance, PTL DEF IInv

\* `refusal` and retainer_candidates agree on which retainers are open.
THEOREM OpenIffActiveAlways == Spec => []OpenIffActive
BY Invariance, PTL DEF IInv
=============================================================================
