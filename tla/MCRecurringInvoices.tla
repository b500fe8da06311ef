------------------------ MODULE MCRecurringInvoices ------------------------
(* Instances of RecurringInvoices for TLC. *)
EXTENDS RecurringInvoices

\* Months of two, one, two, one and two days: a schedule that starts on the
\* second day is clamped in every other month.
MCCalendar == <<1, 3, 4, 6, 7, 9>>

MCMonthly == [unit |-> "months", n |-> 1]
MCDaily   == [unit |-> "days", n |-> 1]
MCFrequencies == {MCMonthly, MCDaily}

\* One that goes on, one that has ended by the third day, and one entered paused.
MCForms ==
    {[active |-> TRUE,  start |-> 2, next |-> 2, end |-> Null, frequency |-> MCMonthly],
     [active |-> TRUE,  start |-> 2, next |-> 2, end |-> 2,    frequency |-> MCDaily],
     [active |-> FALSE, start |-> 2, next |-> 2, end |-> Null, frequency |-> MCMonthly]}

=============================================================================
