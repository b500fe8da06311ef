------------------------- MODULE RecurringInvoices -------------------------
(***************************************************************************)
(* Recurring-invoice schedules: the daily generator (two runs of it may    *)
(* overlap), the owner's edits, pause and delete, Invoices switched off    *)
(* and on, which moves schedules past the dates missed, and the management *)
(* command that does so after an outage of beat.                           *)
(*                                                                         *)
(* A date is a day number; Calendar gives the first day of each month.     *)
(***************************************************************************)
EXTENDS Integers, Sequences

CONSTANTS Templates,    \* the schedules (rows of recurring_invoice)
          Workers,      \* processes that may run the generator
          Calendar,     \* Calendar[m]: the first day of month m; one past the last
          LastDay,      \* bound: the days that pass
          Frequencies,  \* [unit |-> "months" or "days", n |-> how many]
          Forms,        \* the rows owners enter
          MaxActs,      \* bound: what owners do to a schedule they created
          MaxFaults,    \* bound: failed and killed generations
          Null

Months == 1..(Len(Calendar) - 1)
Days   == 1..LastDay
Dates  == Calendar[1]..(Calendar[Len(Calendar)] - 1)

Length(m)  == Calendar[m + 1] - Calendar[m]
MonthOf(d) == CHOOSE m \in Months : Calendar[m] <= d /\ d < Calendar[m + 1]
DayOf(d)   == d - Calendar[MonthOf(d)] + 1

ASSUME CalendarAssumption ==
    /\ Calendar \in Seq(Nat) /\ Len(Calendar) > 1
    /\ Calendar[1] = 1
    /\ \A m, n \in 1..Len(Calendar) : m < n => Calendar[m] < Calendar[n]
    /\ \A d \in Dates : \E m \in Months : Calendar[m] <= d /\ d < Calendar[m + 1]
    /\ LastDay \in Dates

\* No period that begins by LastDay leaves the calendar.
ASSUME FrequencyAssumption ==
    \A f \in Frequencies :
        /\ f \in [unit : {"months", "days"}, n : Nat \ {0}]
        /\ f.unit = "months" => MonthOf(LastDay) + f.n \in Months
        /\ f.unit = "days" => LastDay + f.n \in Dates

ASSUME InputAssumption ==
    /\ MaxActs \in Nat /\ MaxFaults \in Nat
    /\ {"edit", "sweep", Null} \cap Workers = {} /\ Null \notin {"edit", "sweep"}

VARIABLES
    today,     \* the org's date
    available, \* whether Invoices is on
    schedule,  \* the stored rows
    lock,      \* who holds each row: a worker, "edit", "sweep" or Null
    run, held, \* per worker: its run of the generator; the row it has claimed
    edit,      \* the PUT in progress: its schedule and the row it read
    creating,  \* per schedule: the row its POST has inserted and is to save again
    sweep,     \* advance_missed in progress
    acts, faults,
    last,      \* latest date billed since the owner set the date, 0 for none
    twice,     \* schedules that billed a date a second time
    onDay,     \* the day Invoices last came back on, 0 for never
    moved,     \* the schedules it came back past, whose date nobody has set since
    rewound    \* schedules set back to a billed date by the POST that made them

bounds == <<acts, faults>>
ghosts == <<last, twice, onDay, moved, rewound>>
vars   == <<today, available, schedule, lock, run, held, edit, creating, sweep, bounds, ghosts>>

Rows == [active : BOOLEAN, start : Days, next : Dates, end : Days \cup {Null},
         frequency : Frequencies]

Runs   == [day : Days, todo : SUBSET Templates]
Copies == [of : Templates, row : Rows]
Sweeps == [switch : BOOLEAN, day : Days, todo : SUBSET Templates,
           lost : SUBSET Templates, read : [Templates -> Rows \cup {Null}],
           new : [Templates -> Dates \cup {0}]]

ASSUME FormAssumption == \A form \in Forms : form \in Rows /\ form.next \in Days

ASSUME NullAssumption ==
    /\ Null \notin Int /\ Null \notin Rows
    /\ Null \notin Runs /\ Null \notin Copies /\ Null \notin Sweeps

TypeOK ==
    /\ today \in Days /\ available \in BOOLEAN
    /\ schedule \in [Templates -> Rows \cup {Null}]
    /\ lock \in [Templates -> Workers \cup {"edit", "sweep", Null}]
    /\ run \in [Workers -> Runs \cup {Null}]
    /\ held \in [Workers -> Copies \cup {Null}]
    /\ edit \in Copies \cup {Null}
    /\ creating \in [Templates -> Rows \cup {Null}]
    /\ sweep \in Sweeps \cup {Null}
    /\ acts \in 0..MaxActs /\ faults \in 0..MaxFaults
    /\ last \in [Templates -> Days \cup {0}]
    /\ twice \subseteq Templates
    /\ onDay \in 0..LastDay
    /\ moved \subseteq Templates
    /\ rewound \subseteq Templates

Init ==
    /\ today = 1 /\ available = TRUE
    /\ schedule = [t \in Templates |-> Null]
    /\ lock = [t \in Templates |-> Null]
    /\ run = [w \in Workers |-> Null]
    /\ held = [w \in Workers |-> Null]
    /\ edit = Null /\ sweep = Null
    /\ creating = [t \in Templates |-> Null]
    /\ acts = 0 /\ faults = 0
    /\ last = [t \in Templates |-> 0]
    /\ twice = {}
    /\ onDay = 0
    /\ moved = {} /\ rewound = {}

-----------------------------------------------------------------------------
(* Dates.                                                                  *)

\* Mutant of Anchor: a date clamped to the end of a month stays at that day.
AnchorClamped(row) == DayOf(row.next)

\* The day of the month it bills on: that of the start date where the date is
\* the last of its month, and the month is too short for it.
Anchor(row) ==
    IF DayOf(row.next) = Length(MonthOf(row.next)) /\ DayOf(row.start) > DayOf(row.next)
    THEN DayOf(row.start) ELSE DayOf(row.next)

\* The `day` of month m, or its last where it has fewer.
Clamped(day, m) == Calendar[m] - 1 + (IF day <= Length(m) THEN day ELSE Length(m))

NextDate(row) ==
    IF row.frequency.unit = "days" THEN row.next + row.frequency.n
    ELSE Clamped(Anchor(row), MonthOf(row.next) + row.frequency.n)

-----------------------------------------------------------------------------
(* The owner.                                                              *)

\* A request to a module that is off answers 404. One let in stays in.
Admitted == available

Free(t) == lock[t] = Null

Act == acts < MaxActs /\ acts' = acts + 1

\* A row written by its owner: a date that is not the one stored is theirs.
OwnerWrites(t, row, date) ==
    /\ schedule' = [schedule EXCEPT ![t] = row]
    /\ last'  = [last EXCEPT ![t] = IF row = Null \/ row.next # date THEN 0 ELSE @]
    /\ moved' = IF row = Null \/ row.next # date THEN moved \ {t} ELSE moved
    /\ UNCHANGED <<twice, onDay, rewound>>

\* A POST inserts the row, which commits at once (ATOMIC_REQUESTS is off) ...
Create(t) ==
    /\ Admitted
    /\ schedule[t] = Null /\ creating[t] = Null
    /\ \E form \in Forms :
          /\ form.next >= form.start
          /\ OwnerWrites(t, form, Null)
          /\ creating' = [creating EXCEPT ![t] = form]
    /\ UNCHANGED <<today, available, lock, run, held, edit, sweep, bounds>>

\* ... and saves every column of it again, with its totals, whatever became of
\* it meanwhile (one deleted is inserted again). A POST cut off never does.
FinishCreate(t) ==
    LET row == creating[t]
    IN  /\ row # Null /\ Free(t)
        /\ schedule' = [schedule EXCEPT ![t] = row]
        /\ creating' = [creating EXCEPT ![t] = Null]
        /\ rewound' = IF row.next <= last[t] THEN rewound \cup {t} ELSE rewound
        /\ moved' = IF schedule[t] = Null \/ schedule[t].next # row.next
                    THEN moved \ {t} ELSE moved
        /\ UNCHANGED <<today, available, lock, run, held, edit, sweep, bounds,
                       last, twice, onDay>>

\* Mutant of OpenEdit: the row is read without its lock.
OpenEditUnlocked(t) ==
    /\ Admitted /\ edit = Null /\ schedule[t] # Null
    /\ Act
    /\ edit' = [of |-> t, row |-> schedule[t]]
    /\ UNCHANGED <<today, available, schedule, lock, run, held, creating, sweep, faults, ghosts>>

\* A PUT reads the row under its lock ...
OpenEdit(t) ==
    /\ Admitted /\ edit = Null /\ schedule[t] # Null /\ Free(t)
    /\ Act
    /\ edit' = [of |-> t, row |-> schedule[t]]
    /\ lock' = [lock EXCEPT ![t] = "edit"]
    /\ UNCHANGED <<today, available, schedule, run, held, creating, sweep, faults, ghosts>>

EditDone ==
    /\ edit' = Null
    /\ lock' = [lock EXCEPT ![edit.of] = IF @ = "edit" THEN Null ELSE @]
    /\ UNCHANGED <<today, available, run, held, creating, sweep, bounds>>

\* ... and saves every column of it.
SaveEdit ==
    /\ edit # Null
    /\ \E form \in Forms :
       \E start \in {form.start, edit.row.start}, next \in {form.next, edit.row.next} :
          /\ (start # edit.row.start \/ next # edit.row.next) => next >= start
          /\ OwnerWrites(edit.of, [form EXCEPT !.start = start, !.next = next],
                         edit.row.next)
    /\ EditDone

RefuseEdit ==
    /\ edit # Null
    /\ EditDone
    /\ UNCHANGED <<schedule, ghosts>>

Toggle(t) ==
    /\ Admitted /\ schedule[t] # Null /\ Free(t)
    /\ Act
    /\ schedule' = [schedule EXCEPT ![t].active = ~@]
    /\ UNCHANGED <<today, available, lock, run, held, edit, creating, sweep, faults, ghosts>>

Delete(t) ==
    /\ Admitted /\ schedule[t] # Null /\ Free(t)
    /\ Act
    /\ OwnerWrites(t, Null, Null)
    /\ UNCHANGED <<today, available, lock, run, held, edit, creating, sweep, faults>>

-----------------------------------------------------------------------------
(* The generator.                                                          *)

Due(row, day) == row # Null /\ row.active /\ row.next <= day

\* Mutant of DueOn: only what is due on the very day, no date that was missed.
DueOnThatDay(day) == {t \in Templates : Due(schedule[t], day) /\ schedule[t].next = day}

DueOn(day) == {t \in Templates : Due(schedule[t], day)}

\* A run looks whether Invoices is on, reads the day and lists what is due.
StartRun(w) ==
    /\ run[w] = Null /\ available
    /\ DueOn(today) # {}
    /\ run' = [run EXCEPT ![w] = [day |-> today, todo |-> DueOn(today)]]
    /\ UNCHANGED <<today, available, schedule, lock, held, edit, creating, sweep, bounds, ghosts>>

Working(w) == run[w] # Null /\ held[w] = Null

\* The run is done with t, and ends with the last.
DoneWith(w, t) ==
    run' = [run EXCEPT ![w] = IF run[w].todo = {t} THEN Null
                              ELSE [run[w] EXCEPT !.todo = @ \ {t}]]

\* Mutant of Claim: the row is read without its lock.
ClaimUnlocked(w, t) ==
    /\ Working(w) /\ t \in run[w].todo
    /\ Due(schedule[t], run[w].day)
    /\ held' = [held EXCEPT ![w] = [of |-> t, row |-> schedule[t]]]
    /\ UNCHANGED <<today, available, schedule, lock, run, edit, creating, sweep, bounds, ghosts>>

Claim(w, t) ==
    /\ Working(w) /\ t \in run[w].todo
    /\ Free(t) /\ Due(schedule[t], run[w].day)
    /\ held' = [held EXCEPT ![w] = [of |-> t, row |-> schedule[t]]]
    /\ lock' = [lock EXCEPT ![t] = w]
    /\ UNCHANGED <<today, available, schedule, run, edit, creating, sweep, bounds, ghosts>>

\* Held by another (skip_locked), gone, paused or moved since the listing.
PassOver(w, t) ==
    /\ Working(w) /\ t \in run[w].todo
    /\ ~(Free(t) /\ Due(schedule[t], run[w].day))
    /\ DoneWith(w, t)
    /\ UNCHANGED <<today, available, schedule, lock, held, edit, creating, sweep, bounds, ghosts>>

\* The transaction of the claimed row ends, and its lock with it.
Release(w) ==
    /\ held' = [held EXCEPT ![w] = Null]
    /\ lock' = [lock EXCEPT ![held[w].of] = IF @ = w THEN Null ELSE @]
    /\ DoneWith(w, held[w].of)
    /\ UNCHANGED <<today, available, edit, creating, sweep, acts>>

Ended(row, day) == row.end # Null /\ row.end < day

Deactivate(w) ==
    /\ held[w] # Null /\ Ended(held[w].row, run[w].day)
    /\ schedule' = [schedule EXCEPT ![held[w].of] = [held[w].row EXCEPT !.active = FALSE]]
    /\ Release(w)
    /\ UNCHANGED <<faults, ghosts>>

Bill(t, date) ==
    /\ last' = [last EXCEPT ![t] = date]
    /\ twice' = IF date <= last[t] THEN twice \cup {t} ELSE twice
    /\ UNCHANGED <<onDay, moved, rewound>>

\* One invoice for the date it was due, and the schedule moved a period on.
Raise(w) ==
    LET t == held[w].of
        row == held[w].row
    IN  /\ held[w] # Null /\ ~Ended(row, run[w].day)
        /\ Bill(t, row.next)
        /\ schedule' = [schedule EXCEPT ![t] = [row EXCEPT !.next = NextDate(row)]]
        /\ Release(w)
        /\ UNCHANGED faults

\* An error rolls the invoice back with the claim; the run goes on.
Fail(w) ==
    /\ held[w] # Null
    /\ faults < MaxFaults /\ faults' = faults + 1
    /\ Release(w)
    /\ UNCHANGED <<schedule, ghosts>>

WorkerDies(w) ==
    /\ run[w] # Null
    /\ faults < MaxFaults /\ faults' = faults + 1
    /\ run' = [run EXCEPT ![w] = Null]
    /\ held' = [held EXCEPT ![w] = Null]
    /\ lock' = [t \in Templates |-> IF lock[t] = w THEN Null ELSE lock[t]]
    /\ UNCHANGED <<today, available, schedule, edit, creating, sweep, acts, ghosts>>

-----------------------------------------------------------------------------
(* advance_missed, and Invoices off and on.                                *)

\* Switching on skips the dates up to its day, the command those before it.
Behind(s, date) == IF s.switch THEN date <= s.day ELSE date < s.day

Lives(row, day) == row # Null /\ row.active /\ ~Ended(row, day)

\* The schedules left behind are read, by a switch that turns Invoices on or
\* by the command.
StartSweep(switch) ==
    LET s == [switch |-> switch, day |-> today]
    IN  /\ sweep = Null
        /\ switch => ~available
        /\ sweep' = [switch |-> switch, day |-> today, read |-> schedule,
                     todo |-> {t \in Templates : /\ Lives(schedule[t], today)
                                                 /\ Behind(s, schedule[t].next)},
                     lost |-> {},
                     new |-> [t \in Templates |->
                                IF schedule[t] = Null THEN 0 ELSE schedule[t].next]]
        /\ UNCHANGED <<today, available, schedule, lock, run, held, edit, creating, bounds, ghosts>>

\* A period is skipped on the copy read.
SkipPeriod(t) ==
    /\ sweep # Null /\ t \in sweep.todo
    /\ Behind(sweep, sweep.new[t])
    /\ sweep' = [sweep EXCEPT !.new[t] = NextDate([sweep.read[t] EXCEPT !.next = sweep.new[t]])]
    /\ UNCHANGED <<today, available, schedule, lock, run, held, edit, creating, bounds, ghosts>>

\* The UPDATE's condition: the row still has the date that was read.
Unmoved(t) == schedule[t] # Null /\ schedule[t].next = sweep.read[t].next

\* The row is updated, not yet committed, or has been moved by someone else.
WriteMoved(t) ==
    /\ sweep # Null /\ t \in sweep.todo
    /\ ~Behind(sweep, sweep.new[t])
    /\ Free(t)
    /\ \/ /\ Unmoved(t)
          /\ lock' = [lock EXCEPT ![t] = "sweep"]
          /\ sweep' = [sweep EXCEPT !.todo = @ \ {t}]
       \/ /\ ~Unmoved(t)
          /\ sweep' = [sweep EXCEPT !.todo = @ \ {t}, !.lost = @ \cup {t}]
          /\ UNCHANGED lock
    /\ UNCHANGED <<today, available, schedule, run, held, edit, creating, bounds, ghosts>>

Updated(t) == lock[t] = "sweep"

\* Invoices comes back past this schedule's dates: it was live when read, and
\* nobody wrote it meanwhile.
StartedFresh(t) ==
    \/ Updated(t)
    \/ /\ t \notin sweep.lost
       /\ schedule[t] = sweep.read[t] /\ Lives(schedule[t], sweep.day)

\* The transaction commits, and a switch with it.
EndSweep ==
    /\ sweep # Null /\ sweep.todo = {}
    /\ schedule' = [t \in Templates |->
                      IF Updated(t) THEN [schedule[t] EXCEPT !.next = sweep.new[t]]
                      ELSE schedule[t]]
    /\ lock' = [t \in Templates |-> IF Updated(t) THEN Null ELSE lock[t]]
    /\ \/ /\ sweep.switch
          /\ available' = TRUE /\ onDay' = sweep.day
          /\ moved' = {t \in Templates : StartedFresh(t)}
       \/ ~sweep.switch /\ UNCHANGED <<available, onDay, moved>>
    /\ sweep' = Null
    /\ UNCHANGED <<today, run, held, edit, creating, bounds, last, twice, rewound>>

SwitchOff ==
    /\ available /\ available' = FALSE
    /\ UNCHANGED <<today, schedule, lock, run, held, edit, creating, sweep, bounds, ghosts>>

DayPasses ==
    /\ today < LastDay /\ today' = today + 1
    /\ UNCHANGED <<available, schedule, lock, run, held, edit, creating, sweep, bounds, ghosts>>

-----------------------------------------------------------------------------
Work(w) == \/ \E t \in Templates : Claim(w, t) \/ PassOver(w, t)
           \/ Deactivate(w) \/ Raise(w)

Sweeping == \/ \E t \in Templates : SkipPeriod(t) \/ WriteMoved(t)
            \/ EndSweep

Next ==
    \/ \E t \in Templates : \/ Create(t) \/ FinishCreate(t)
                            \/ OpenEdit(t) \/ Toggle(t) \/ Delete(t)
    \/ SaveEdit \/ RefuseEdit
    \/ \E w \in Workers : StartRun(w) \/ Work(w) \/ Fail(w) \/ WorkerDies(w)
    \/ \E switch \in BOOLEAN : StartSweep(switch)
    \/ Sweeping
    \/ SwitchOff
    \/ DayPasses

Spec == Init /\ [][Next]_vars

\* Beat starts the generator, what has begun goes on, and nothing else is due
\* to happen: no owner acts, no day passes.
Fairness ==
    /\ WF_vars(\E w \in Workers : StartRun(w))
    /\ \A w \in Workers : WF_vars(Work(w))
    /\ WF_vars(SaveEdit \/ RefuseEdit)
    /\ WF_vars(Sweeping)

FairSpec == Spec /\ Fairness

-----------------------------------------------------------------------------
(* Properties.                                                             *)

\* No schedule bills a date twice, however runs, edits, failures, pauses and
\* moves overlap, unless its owner set the date again, or the POST that made it
\* set it back.
OncePerPeriod == twice \subseteq rewound

\* After Invoices comes back on, a schedule that was live then and that nobody
\* wrote meanwhile has only dates after that day ahead of it, until its owner
\* sets one: a PUT or a run that read it before writes no older date back (the
\* POST that made it does, and counts as its owner's).
StartsFresh ==
    \A t \in moved : schedule[t].next > onDay

OnItsDay(row) ==
    row.frequency.unit = "months"
        => row.next = Clamped(DayOf(row.start), MonthOf(row.next))

ReadAsStored(t) ==
    /\ schedule[t].start = sweep.read[t].start
    /\ schedule[t].frequency = sweep.read[t].frequency

KeepsDay ==
    \A t \in Templates :
        (/\ schedule[t] # Null /\ schedule'[t] # Null
         /\ edit' = edit /\ creating' = creating
         /\ Updated(t) => ReadAsStored(t)
         /\ OnItsDay(schedule[t]))
        => OnItsDay(schedule'[t])

\* A monthly schedule on the day of its start date stays on it through every
\* short month: neither billing nor skipping periods moves it, only a PUT or POST
\* (a sweep works with the start date and frequency it read).
KeepsItsDay == [][KeepsDay]_vars

\* A due schedule catches up: while Invoices is on it does not stay due for
\* ever, whatever failed on the way and whoever held its row when a run came by
\* (once its owner leaves it alone it is billed for each date, or has ended).
DueIsRaised ==
    \A t \in Templates :
        (available /\ Due(schedule[t], today)) ~> ~(available /\ Due(schedule[t], today))
=============================================================================
