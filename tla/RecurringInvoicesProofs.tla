---------------------- MODULE RecurringInvoicesProofs ----------------------
(***************************************************************************)
(* Theorems about RecurringInvoices, for every calendar, every set of      *)
(* schedules and of workers, and every bound.                              *)
(*                                                                         *)
(* The invariant says what each holder of a row lock may rely on (the row  *)
(* it read is the row stored), what a sweep has worked out for the rows it *)
(* read, and that a schedule's next date is past every date it billed.     *)
(***************************************************************************)
EXTENDS RecurringInvoices, TLAPS

\* A worker holds the row it claimed, as it is stored, and has not billed it.
ClaimsHold ==
    /\ \A t \in Templates : lock[t] \in Workers =>
          held[lock[t]] # Null /\ held[lock[t]].of = t
    /\ \A w \in Workers : held[w] # Null =>
          /\ lock[held[w].of] = w /\ schedule[held[w].of] = held[w].row
          /\ run[w] # Null /\ held[w].row.next <= run[w].day

\* So does the PUT in progress.
EditHolds ==
    /\ \A t \in Templates : lock[t] = "edit" => edit # Null /\ edit.of = t
    /\ edit # Null => lock[edit.of] = "edit" /\ schedule[edit.of] = edit.row

\* What a sweep has worked out for one of the rows it read.
SweepOf(t) ==
    /\ sweep.read[t] = Null => t \notin sweep.todo
    /\ sweep.read[t] # Null =>
          /\ sweep.new[t] >= sweep.read[t].next
          /\ OnItsDay(sweep.read[t])
             => OnItsDay([sweep.read[t] EXCEPT !.next = sweep.new[t]])
          /\ (Lives(sweep.read[t], sweep.day) /\ t \notin sweep.todo
              /\ t \notin sweep.lost /\ lock[t] # "sweep")
             => ~Behind(sweep, sweep.read[t].next)

\* A row it has updated is still the row its condition matched.
UpdatedHolds(t) ==
    lock[t] = "sweep" =>
        /\ sweep # Null
        /\ t \notin sweep.todo
        /\ sweep.read[t] # Null /\ Unmoved(t)
        /\ ~Behind(sweep, sweep.new[t])

SweepHolds ==
    /\ sweep # Null => \A t \in Templates : SweepOf(t)
    /\ \A t \in Templates : UpdatedHolds(t)

NextIsAhead ==
    \A t \in Templates \ rewound : schedule[t] # Null => last[t] < schedule[t].next

FreshHolds ==
    \A t \in moved : schedule[t] # Null /\ schedule[t].next > onDay

IInv == /\ TypeOK /\ ClaimsHold /\ EditHolds /\ SweepHolds
        /\ NextIsAhead /\ FreshHolds /\ OncePerPeriod
-----------------------------------------------------------------------------
(* Dates.                                                                  *)

\* A date lies in its month.
LEMMA MonthOfDate ==
    ASSUME NEW d \in Dates
    PROVE  /\ MonthOf(d) \in Months
           /\ Calendar[MonthOf(d)] <= d /\ d < Calendar[MonthOf(d) + 1]
BY CalendarAssumption DEF MonthOf

\* The first days of months grow with the months, from 1.
LEMMA CalendarGrows ==
    /\ Len(Calendar) \in Nat
    /\ \A m \in 1..Len(Calendar) : Calendar[m] \in Nat /\ Calendar[m] >= 1
    /\ \A m \in Months : /\ m \in 1..Len(Calendar) /\ m + 1 \in 1..Len(Calendar)
                         /\ m \in Nat /\ Calendar[m] \in Nat /\ Calendar[m + 1] \in Nat
                         /\ Calendar[m] < Calendar[m + 1]
    /\ \A d \in Dates : d \in Int
    /\ \A m, n \in 1..Len(Calendar) : m <= n => Calendar[m] <= Calendar[n]
<1>1. Len(Calendar) \in Nat /\ Len(Calendar) > 1
  BY CalendarAssumption
<1>2. \A m \in 1..Len(Calendar) : Calendar[m] \in Nat
  BY <1>1, CalendarAssumption
<1>3. \A m, n \in 1..Len(Calendar) : m <= n => Calendar[m] <= Calendar[n]
  BY <1>1, <1>2, CalendarAssumption
<1>4. \A m \in 1..Len(Calendar) : Calendar[m] >= 1
  BY <1>1, <1>2, <1>3, CalendarAssumption
<1>5. \A m \in Months : /\ m \in 1..Len(Calendar) /\ m + 1 \in 1..Len(Calendar)
                        /\ m \in Nat
  BY <1>1 DEF Months
<1>6. \A m \in Months : Calendar[m] < Calendar[m + 1]
  BY <1>2, <1>5, CalendarAssumption
<1>7. \A d \in Dates : d \in Int
  BY DEF Dates
<1> QED BY <1>1, <1>2, <1>3, <1>4, <1>5, <1>6, <1>7

\* The calendar's first and last day, and the last that is reached.
LEMMA CalendarEnds ==
    /\ Calendar[1] = 1 /\ Calendar[Len(Calendar)] \in Nat
    /\ LastDay \in Nat /\ LastDay \in Dates
    /\ \A m \in Months : Calendar[m + 1] <= Calendar[Len(Calendar)]
<1>1. /\ Calendar[1] = 1 /\ LastDay \in Dates
      /\ Len(Calendar) \in 1..Len(Calendar)
  BY CalendarAssumption, CalendarGrows
<1>2. Calendar[Len(Calendar)] \in Nat
  BY <1>1, CalendarGrows
<1>3. LastDay \in Nat
  BY <1>1, <1>2 DEF Dates
<1>4. \A m \in Months : m + 1 <= Len(Calendar)
  BY CalendarGrows
<1> QED BY <1>1, <1>2, <1>3, <1>4, CalendarGrows

\* A date lies in no other month.
LEMMA MonthUnique ==
    ASSUME NEW d \in Dates, NEW m \in Months,
           Calendar[m] <= d, d < Calendar[m + 1]
    PROVE  MonthOf(d) = m
<1> DEFINE n == MonthOf(d)
<1>1. n \in Months /\ Calendar[n] <= d /\ d < Calendar[n + 1]
  BY MonthOfDate
<1>2. m \in Nat /\ n \in Nat /\ d \in Int
  BY <1>1, CalendarGrows
<1>3. ~(m < n)
  BY <1>1, <1>2, CalendarGrows
<1>4. ~(n < m)
  BY <1>1, <1>2, CalendarGrows
<1> QED BY <1>2, <1>3, <1>4

\* A later date lies in no earlier month.
LEMMA MonthsInOrder ==
    ASSUME NEW d \in Dates, NEW e \in Dates, d <= e
    PROVE  MonthOf(d) <= MonthOf(e)
<1> DEFINE m == MonthOf(d)
           n == MonthOf(e)
<1>1. m \in Months /\ Calendar[m] <= d /\ n \in Months /\ e < Calendar[n + 1]
  BY MonthOfDate
<1>2. m \in Nat /\ n \in Nat /\ d \in Int /\ e \in Int
  BY <1>1, CalendarGrows
<1>3. SUFFICES ASSUME n < m PROVE FALSE
  BY <1>2
<1> HIDE DEF m, n
<1>4. Calendar[n + 1] <= Calendar[m]
  BY <1>1, <1>2, <1>3, CalendarGrows
<1> QED BY <1>1, <1>2, <1>4, CalendarGrows

\* Days are dates, and a date has a day in its month.
LEMMA DaysAreDates ==
    /\ Days \subseteq Dates
    /\ \A d \in Dates : d \in Nat /\ d >= 1
    /\ \A d \in Dates : DayOf(d) \in Nat \ {0} /\ DayOf(d) <= Length(MonthOf(d))
<1>1. /\ LastDay \in Dates /\ Calendar[1] = 1 /\ Len(Calendar) \in 1..Len(Calendar)
  BY CalendarAssumption, CalendarGrows
<1>2. \A d \in Dates : d \in Nat /\ d >= 1
  BY <1>1, CalendarGrows DEF Dates
<1>3. Days \subseteq Dates
  BY <1>1, <1>2, CalendarGrows DEF Days, Dates
<1>4. ASSUME NEW d \in Dates
      PROVE  DayOf(d) \in Nat \ {0} /\ DayOf(d) <= Length(MonthOf(d))
  BY <1>2, MonthOfDate, CalendarGrows DEF DayOf, Length
<1> QED BY <1>2, <1>3, <1>4

\* A day clamped to a month lies in it.
LEMMA ClampedLies ==
    ASSUME NEW m \in Months, NEW day \in Nat \ {0}
    PROVE  /\ Clamped(day, m) \in Dates
           /\ Calendar[m] <= Clamped(day, m) /\ Clamped(day, m) < Calendar[m + 1]
           /\ MonthOf(Clamped(day, m)) = m
<1>1. /\ m \in Nat /\ Calendar[m] \in Nat /\ Calendar[m + 1] \in Nat
      /\ Calendar[m] >= 1 /\ Calendar[m + 1] <= Calendar[Len(Calendar)]
      /\ Calendar[Len(Calendar)] \in Nat /\ Calendar[1] = 1
  BY CalendarGrows, CalendarEnds
<1>2. Calendar[m] < Calendar[m + 1]
  BY CalendarGrows
<1>3. /\ Calendar[m] <= Clamped(day, m) /\ Clamped(day, m) < Calendar[m + 1]
      /\ Clamped(day, m) \in Int
  BY <1>1, <1>2 DEF Clamped, Length
<1>4. Clamped(day, m) \in Dates
  BY <1>1, <1>3 DEF Dates
<1> QED BY <1>3, <1>4, MonthUnique

\* The month a period on from a date that has come is in the calendar.
LEMMA PeriodStays ==
    ASSUME NEW d \in Dates, d <= LastDay, NEW f \in Frequencies
    PROVE  /\ f.n \in Nat \ {0}
           /\ f.unit = "months" => MonthOf(d) + f.n \in Months
           /\ f.unit = "days" => d + f.n \in Dates
           /\ f.unit \in {"months", "days"}
<1>1. f \in [unit : {"months", "days"}, n : Nat \ {0}] /\ LastDay \in Dates
  BY FrequencyAssumption, CalendarAssumption
<1>2. ASSUME f.unit = "months" PROVE MonthOf(d) + f.n \in Months
  <2>1. MonthOf(d) <= MonthOf(LastDay)
    BY <1>1, MonthsInOrder
  <2>2. MonthOf(LastDay) + f.n \in Months
    BY <1>2, FrequencyAssumption
  <2>3. MonthOf(d) \in Months /\ MonthOf(LastDay) \in Months
    BY <1>1, MonthOfDate
  <2> QED BY <1>1, <2>1, <2>2, <2>3, CalendarGrows DEF Months
<1>3. ASSUME f.unit = "days" PROVE d + f.n \in Dates
  <2>1. LastDay + f.n \in Dates
    BY <1>3, FrequencyAssumption
  <2>2. d + f.n \in Int /\ d + f.n <= LastDay + f.n /\ d + f.n >= Calendar[1]
    BY <1>1, DaysAreDates, CalendarEnds
  <2>3. LastDay + f.n \in Int /\ LastDay + f.n <= Calendar[Len(Calendar)] - 1
    BY <2>1 DEF Dates
  <2>4. Calendar[1] \in Int /\ Calendar[Len(Calendar)] \in Int
    BY CalendarEnds
  <2> QED BY <2>2, <2>3, <2>4 DEF Dates
<1> QED BY <1>1, <1>2, <1>3

\* Moving a row's next date changes no other column.
LEMMA RowMoved ==
    ASSUME NEW row \in Rows, NEW d \in Dates
    PROVE  /\ [row EXCEPT !.next = d] \in Rows
           /\ [row EXCEPT !.next = d].next = d
           /\ [row EXCEPT !.next = d].start = row.start
           /\ [row EXCEPT !.next = d].frequency = row.frequency
           /\ [row EXCEPT !.next = d].active = row.active
           /\ [row EXCEPT !.next = d].end = row.end
BY DEF Rows

LEMMA RowToggled ==
    ASSUME NEW row \in Rows, NEW b \in BOOLEAN
    PROVE  /\ [row EXCEPT !.active = b] \in Rows
           /\ [row EXCEPT !.active = b].next = row.next
           /\ [row EXCEPT !.active = b].start = row.start
           /\ [row EXCEPT !.active = b].frequency = row.frequency
BY DEF Rows

\* A period on from a date that has come is a later date of the calendar, and
\* a monthly schedule on the day of its start date stays on it.
THEOREM NextDateMoves ==
    ASSUME NEW row \in Rows, row.next <= LastDay
    PROVE  /\ NextDate(row) \in Dates
           /\ NextDate(row) > row.next
           /\ OnItsDay(row) => OnItsDay([row EXCEPT !.next = NextDate(row)])
<1> DEFINE f == row.frequency
           m == MonthOf(row.next)
<1>1. /\ row.next \in Dates /\ row.start \in Dates /\ f \in Frequencies
      /\ row.next \in Nat
  BY DaysAreDates DEF Rows
<1>2. /\ f.n \in Nat \ {0} /\ f.unit \in {"months", "days"}
      /\ f.unit = "months" => m + f.n \in Months
      /\ f.unit = "days" => row.next + f.n \in Dates
  BY <1>1, PeriodStays
<1>3. CASE f.unit = "days"
  <2>1. NextDate(row) = row.next + f.n /\ f.unit # "months"
    BY <1>3 DEF NextDate
  <2>2. NextDate(row) \in Dates /\ NextDate(row) > row.next
    BY <1>1, <1>2, <1>3, <2>1
  <2>3. OnItsDay([row EXCEPT !.next = NextDate(row)])
    BY <2>1, <2>2, RowMoved DEF OnItsDay
  <2> QED BY <2>2, <2>3
<1>4. CASE f.unit = "months"
  <2> DEFINE to == m + f.n
  <2>1. NextDate(row) = Clamped(Anchor(row), to)
    BY <1>4 DEF NextDate
  <2>2. /\ m \in Months /\ to \in Months /\ m \in Nat
        /\ Calendar[m] <= row.next /\ row.next < Calendar[m + 1]
    BY <1>1, <1>2, <1>4, MonthOfDate, CalendarGrows DEF Months
  <2>3. /\ DayOf(row.next) \in Nat \ {0} /\ DayOf(row.start) \in Nat \ {0}
        /\ DayOf(row.next) <= Length(m)
    BY <1>1, DaysAreDates
  <2>4. Anchor(row) \in Nat \ {0}
    BY <2>3 DEF Anchor
  <2>5. /\ NextDate(row) \in Dates /\ MonthOf(NextDate(row)) = to
        /\ Calendar[to] <= NextDate(row)
    BY <2>1, <2>2, <2>4, ClampedLies
  <2>6. Calendar[m + 1] <= Calendar[to]
    BY <1>2, <2>2, CalendarGrows
  <2>7. NextDate(row) > row.next
    <3>1. Calendar[to] \in Nat /\ Calendar[m + 1] \in Nat /\ NextDate(row) \in Int
      BY <2>2, <2>5, CalendarGrows
    <3> QED BY <1>1, <2>2, <2>5, <2>6, <3>1
  <2>8. ASSUME OnItsDay(row)
        PROVE  OnItsDay([row EXCEPT !.next = NextDate(row)])
    <3>1. row.next = Clamped(DayOf(row.start), m)
      BY <1>4, <2>8 DEF OnItsDay
    <3>2. DayOf(row.next) = row.next - Calendar[m] + 1
      BY DEF DayOf
    <3>3. Length(m) \in Nat /\ Calendar[m] \in Nat
      BY <2>2, CalendarGrows DEF Length
    <3>4. DayOf(row.next) = IF DayOf(row.start) <= Length(m) THEN DayOf(row.start)
                                                             ELSE Length(m)
      BY <1>1, <2>3, <3>1, <3>2, <3>3 DEF Clamped
    <3>5. Anchor(row) = DayOf(row.start)
      BY <2>3, <3>3, <3>4 DEF Anchor
    <3> QED BY <1>1, <2>1, <2>5, <3>5, RowMoved DEF OnItsDay
  <2> QED BY <2>5, <2>7, <2>8
<1> QED BY <1>2, <1>3, <1>4
-----------------------------------------------------------------------------
(* The steps of the owner.                                                 *)

LEMMA NullIsApart ==
    /\ Null \notin Int /\ Null \notin Rows
    /\ Null \notin Runs /\ Null \notin Copies /\ Null \notin Sweeps
    /\ "edit" \notin Workers /\ "sweep" \notin Workers /\ Null \notin Workers
    /\ Null # "edit" /\ Null # "sweep"
BY NullAssumption, InputAssumption

\* The columns of a row.
LEMMA Columns ==
    ASSUME NEW row \in Rows
    PROVE  /\ row.active \in BOOLEAN /\ row.start \in Days /\ row.next \in Dates
           /\ row.end \in Days \cup {Null} /\ row.frequency \in Frequencies
           /\ row.next \in Nat /\ row.next >= 1 /\ row # Null
BY NullIsApart, DaysAreDates DEF Rows

\* A row is changed while nobody holds it, or by its holder as it lets go of
\* it: what the others hold stays as they read it.
LEMMA OthersHold ==
    ASSUME TypeOK, ClaimsHold, EditHolds, SweepHolds,
           NEW t \in Templates, NEW row,
           schedule' = [schedule EXCEPT ![t] = row],
           lock' = [lock EXCEPT ![t] = Null],
           lock[t] # "sweep", UNCHANGED sweep,
           \A w \in Workers : IF held[w] # Null /\ held[w].of = t THEN held'[w] = Null
                              ELSE held'[w] = held[w] /\ run'[w] = run[w],
           IF edit # Null /\ edit.of = t THEN edit' = Null ELSE edit' = edit
    PROVE  ClaimsHold' /\ EditHolds' /\ SweepHolds'
<1> USE NullIsApart
<1>1. \A u \in Templates : u # t => schedule'[u] = schedule[u] /\ lock'[u] = lock[u]
  BY DEF TypeOK
<1>2. lock'[t] = Null
  BY DEF TypeOK
<1>3. ClaimsHold'
  <2>1. ASSUME NEW u \in Templates, lock'[u] \in Workers
        PROVE  held'[lock'[u]] # Null /\ held'[lock'[u]].of = u
    BY <1>1, <1>2, <2>1 DEF ClaimsHold
  <2>2. ASSUME NEW w \in Workers, held'[w] # Null
        PROVE  /\ lock'[held'[w].of] = w /\ schedule'[held'[w].of] = held'[w].row
               /\ run'[w] # Null /\ held'[w].row.next <= run'[w].day
    <3>1. held'[w] = held[w] /\ run'[w] = run[w] /\ held[w].of # t
      BY <2>2
    <3>2. held[w].of \in Templates
      BY <2>2, <3>1 DEF TypeOK, Copies
    <3> QED BY <1>1, <2>2, <3>1, <3>2 DEF ClaimsHold
  <2> QED BY <2>1, <2>2 DEF ClaimsHold
<1>4. EditHolds'
  <2>1. edit' # Null => edit' = edit /\ edit.of \in Templates /\ edit.of # t
    BY DEF TypeOK, Copies
  <2>2. ASSUME NEW u \in Templates, lock'[u] = "edit" PROVE edit' # Null /\ edit'.of = u
    BY <1>1, <1>2, <2>2 DEF EditHolds
  <2> QED BY <1>1, <2>1, <2>2 DEF EditHolds
<1>5. SweepHolds'
  <2>1. \A u \in Templates : UpdatedHolds(u)'
    BY <1>1, <1>2 DEF SweepHolds, UpdatedHolds, Unmoved, Behind
  <2>2. sweep # Null => \A u \in Templates : SweepOf(u)'
    BY <1>1, <1>2 DEF SweepHolds, SweepOf, Behind, Lives, Ended, OnItsDay
  <2> QED BY <2>1, <2>2 DEF SweepHolds
<1> QED BY <1>3, <1>4, <1>5

\* A row somebody holds exists.
LEMMA HeldExists ==
    ASSUME TypeOK, ClaimsHold, EditHolds, SweepHolds, NEW t \in Templates,
           schedule[t] = Null
    PROVE  lock[t] = Null
<1> USE NullIsApart
<1>1. lock[t] \notin Workers
  <2>1. SUFFICES ASSUME lock[t] \in Workers PROVE FALSE
    OBVIOUS
  <2>2. held[lock[t]] \in Copies /\ schedule[t] = held[lock[t]].row
    BY <2>1 DEF TypeOK, ClaimsHold
  <2> QED BY <2>2 DEF Copies
<1>2. lock[t] # "edit"
  BY DEF TypeOK, EditHolds, Copies
<1>3. lock[t] # "sweep"
  BY DEF SweepHolds, UpdatedHolds, Unmoved
<1> QED BY <1>1, <1>2, <1>3 DEF TypeOK

\* Nobody works with a row that is not locked.
LEMMA FreeIsUnread ==
    ASSUME TypeOK, ClaimsHold, EditHolds, NEW t \in Templates, lock[t] = Null
    PROVE  /\ \A w \in Workers : ~(held[w] # Null /\ held[w].of = t)
           /\ ~(edit # Null /\ edit.of = t)
           /\ lock = [lock EXCEPT ![t] = Null]
<1> USE NullIsApart
<1>1. lock = [lock EXCEPT ![t] = Null]
  BY DEF TypeOK
<1>2. \A w \in Workers : ~(held[w] # Null /\ held[w].of = t)
  BY DEF ClaimsHold
<1> QED BY <1>1, <1>2 DEF EditHolds

LEMMA FreeRowWritten ==
    ASSUME TypeOK, ClaimsHold, EditHolds, SweepHolds,
           NEW t \in Templates, lock[t] = Null, NEW row,
           schedule' = [schedule EXCEPT ![t] = row],
           UNCHANGED <<lock, run, held, edit, sweep>>
    PROVE  ClaimsHold' /\ EditHolds' /\ SweepHolds'
<1>1. /\ \A w \in Workers : ~(held[w] # Null /\ held[w].of = t)
      /\ ~(edit # Null /\ edit.of = t)
      /\ lock' = [lock EXCEPT ![t] = Null]
  BY FreeIsUnread
<1>2. lock[t] # "sweep"
  BY NullIsApart
<1> QED BY <1>1, <1>2, OthersHold

\* What an owner writes keeps the history true: a new date starts it again.
LEMMA OwnerKeepsHistory ==
    ASSUME IInv, NEW t \in Templates, NEW row \in Rows \cup {Null}, NEW date,
           OwnerWrites(t, row, date),
           schedule[t] = Null => date = Null,
           schedule[t] # Null /\ row # Null => date = schedule[t].next
    PROVE  /\ schedule' \in [Templates -> Rows \cup {Null}]
           /\ last' \in [Templates -> Days \cup {0}]
           /\ moved' \subseteq Templates
           /\ NextIsAhead' /\ FreshHolds' /\ OncePerPeriod'
           /\ UNCHANGED <<twice, onDay, rewound>>
<1> USE NullIsApart
<1>1. TypeOK /\ NextIsAhead /\ FreshHolds /\ OncePerPeriod
  BY DEF IInv
<1>2. /\ schedule' = [schedule EXCEPT ![t] = row]
      /\ last' = [last EXCEPT ![t] = IF row = Null \/ row.next # date THEN 0 ELSE @]
      /\ moved' = IF row = Null \/ row.next # date THEN moved \ {t} ELSE moved
      /\ UNCHANGED <<twice, onDay, rewound>>
  BY DEF OwnerWrites
<1>3. /\ schedule' \in [Templates -> Rows \cup {Null}]
      /\ last' \in [Templates -> Days \cup {0}]
      /\ moved' \subseteq Templates
  BY <1>1, <1>2 DEF TypeOK
<1>4. ASSUME row # Null, ~(row.next # date)
      PROVE  schedule[t] # Null /\ row.next = schedule[t].next
  BY <1>4, Columns
<1>5. ASSUME NEW u \in Templates \ rewound, schedule'[u] # Null
      PROVE  last'[u] < schedule'[u].next
  <2>1. CASE u # t
    BY <1>1, <1>2, <1>5, <2>1 DEF TypeOK, NextIsAhead
  <2>2. CASE u = t
    <3>1. schedule'[t] = row /\ row # Null /\ row \in Rows
      BY <1>1, <1>2, <1>5, <2>2 DEF TypeOK
    <3>2. CASE row.next # date
      BY <1>1, <1>2, <2>2, <3>1, <3>2, Columns DEF TypeOK
    <3>3. CASE row.next = date
      BY <1>1, <1>2, <1>4, <2>2, <3>1, <3>3 DEF TypeOK, NextIsAhead
    <3> QED BY <3>2, <3>3
  <2> QED BY <2>1, <2>2
<1>6. ASSUME NEW u \in moved'
      PROVE  schedule'[u] # Null /\ schedule'[u].next > onDay'
  <2>1. CASE u # t
    BY <1>1, <1>2, <1>6, <2>1 DEF TypeOK, FreshHolds
  <2>2. CASE u = t
    <3>1. row # Null /\ ~(row.next # date) /\ t \in moved /\ schedule'[t] = row
      BY <1>1, <1>2, <1>6, <2>2 DEF TypeOK
    <3> QED BY <1>1, <1>2, <1>4, <2>2, <3>1 DEF FreshHolds
  <2> QED BY <2>1, <2>2
<1> QED
  BY <1>1, <1>2, <1>3, <1>5, <1>6 DEF NextIsAhead, FreshHolds, OncePerPeriod

LEMMA CreateKeeps ==
    ASSUME IInv, NEW t \in Templates, Create(t)
    PROVE  IInv'
<1> USE NullIsApart
<1>1. PICK row \in Rows : OwnerWrites(t, row, Null) /\ creating' = [creating EXCEPT ![t] = row]
  BY FormAssumption DEF Create
<1>2. schedule[t] = Null
  BY DEF Create
<1>3. /\ schedule' \in [Templates -> Rows \cup {Null}]
      /\ last' \in [Templates -> Days \cup {0}]
      /\ moved' \subseteq Templates
      /\ NextIsAhead' /\ FreshHolds' /\ OncePerPeriod' /\ UNCHANGED <<twice, onDay, rewound>>
  BY <1>1, <1>2, OwnerKeepsHistory
<1>4. TypeOK'
  <2>1. creating' \in [Templates -> Rows \cup {Null}]
    BY <1>1 DEF IInv, TypeOK
  <2> QED BY <1>3, <2>1 DEF IInv, TypeOK, Create, bounds
<1>5. lock[t] = Null
  BY <1>2, HeldExists DEF IInv
<1>6. ClaimsHold' /\ EditHolds' /\ SweepHolds'
  <2>1. schedule' = [schedule EXCEPT ![t] = row] /\ UNCHANGED <<lock, run, held, edit, sweep>>
    BY <1>1 DEF OwnerWrites, Create
  <2> QED BY <1>5, <2>1, FreeRowWritten DEF IInv
<1> QED BY <1>3, <1>4, <1>6 DEF IInv

LEMMA FinishCreateKeeps ==
    ASSUME IInv, NEW t \in Templates, FinishCreate(t)
    PROVE  IInv'
<1> USE NullIsApart
<1> DEFINE row == creating[t]
<1>1. /\ TypeOK /\ ClaimsHold /\ EditHolds /\ SweepHolds
      /\ NextIsAhead /\ FreshHolds /\ OncePerPeriod
      /\ row \in Rows /\ row # Null /\ lock[t] = Null
      /\ schedule' = [schedule EXCEPT ![t] = row]
      /\ creating' = [creating EXCEPT ![t] = Null]
      /\ rewound' = IF row.next <= last[t] THEN rewound \cup {t} ELSE rewound
      /\ moved' = IF schedule[t] = Null \/ schedule[t].next # row.next
                  THEN moved \ {t} ELSE moved
      /\ UNCHANGED <<today, available, lock, run, held, edit, sweep, bounds,
                     last, twice, onDay>>
  BY DEF FinishCreate, Free, IInv, TypeOK
<1> HIDE DEF row
<1>2. TypeOK'
  BY <1>1 DEF TypeOK, bounds
<1>3. ClaimsHold' /\ EditHolds' /\ SweepHolds'
  BY <1>1, FreeRowWritten
<1>4. \A u \in Templates : schedule'[u] = IF u = t THEN row ELSE schedule[u]
  BY <1>1 DEF TypeOK
<1>5. NextIsAhead'
  <2>1. row.next \in Int /\ last[t] \in Int
    BY <1>1, Columns DEF TypeOK, Days
  <2> QED BY <1>1, <1>4, <2>1 DEF NextIsAhead
<1>6. FreshHolds'
  BY <1>1, <1>4 DEF FreshHolds, TypeOK
<1>7. OncePerPeriod'
  BY <1>1 DEF OncePerPeriod
<1> QED BY <1>2, <1>3, <1>5, <1>6, <1>7 DEF IInv

LEMMA DeleteKeeps ==
    ASSUME IInv, NEW t \in Templates, Delete(t)
    PROVE  IInv'
<1> USE NullIsApart
<1>1. OwnerWrites(t, Null, Null) /\ lock[t] = Null /\ schedule[t] # Null
  BY DEF Delete, Free
<1>2. /\ schedule' \in [Templates -> Rows \cup {Null}]
      /\ last' \in [Templates -> Days \cup {0}]
      /\ moved' \subseteq Templates
      /\ NextIsAhead' /\ FreshHolds' /\ OncePerPeriod' /\ UNCHANGED <<twice, onDay, rewound>>
  BY <1>1, OwnerKeepsHistory
<1>3. TypeOK'
  BY <1>2, InputAssumption DEF IInv, TypeOK, Delete, Act
<1>4. ClaimsHold' /\ EditHolds' /\ SweepHolds'
  <2>1. schedule' = [schedule EXCEPT ![t] = Null] /\ UNCHANGED <<lock, run, held, edit, sweep>>
    BY <1>1 DEF OwnerWrites, Delete
  <2> QED BY <1>1, <2>1, FreeRowWritten DEF IInv
<1> QED BY <1>2, <1>3, <1>4 DEF IInv

LEMMA ToggleKeeps ==
    ASSUME IInv, NEW t \in Templates, Toggle(t)
    PROVE  IInv'
<1> USE NullIsApart
<1> DEFINE row == [schedule[t] EXCEPT !.active = ~@]
<1>1. /\ schedule[t] # Null /\ lock[t] = Null /\ UNCHANGED <<last, moved, twice, onDay, rewound>>
      /\ schedule' = [schedule EXCEPT ![t] = row]
      /\ TypeOK /\ ClaimsHold /\ EditHolds /\ SweepHolds
      /\ NextIsAhead /\ FreshHolds /\ OncePerPeriod
  BY DEF Toggle, Free, ghosts, IInv, TypeOK
<1>2. schedule[t] \in Rows /\ row \in Rows /\ row.next = schedule[t].next
  <2>1. schedule[t] \in Rows
    BY <1>1 DEF TypeOK
  <2>2. row = [schedule[t] EXCEPT !.active = ~schedule[t].active]
    OBVIOUS
  <2> QED BY <2>1, <2>2, RowToggled, Columns
<1>3. TypeOK'
  BY <1>1, <1>2, InputAssumption DEF TypeOK, Toggle, Act
<1>4. ClaimsHold' /\ EditHolds' /\ SweepHolds'
  <2>1. UNCHANGED <<lock, run, held, edit, sweep>>
    BY DEF Toggle
  <2> QED BY <1>1, <2>1, FreeRowWritten
<1>5. \A u \in Templates : /\ schedule'[u] = Null <=> schedule[u] = Null
                           /\ schedule[u] # Null => schedule'[u].next = schedule[u].next
  BY <1>1, <1>2 DEF TypeOK
<1>6. NextIsAhead' /\ FreshHolds' /\ OncePerPeriod'
  BY <1>1, <1>5 DEF NextIsAhead, FreshHolds, OncePerPeriod
<1> QED BY <1>3, <1>4, <1>6 DEF IInv

LEMMA OpenEditKeeps ==
    ASSUME IInv, NEW t \in Templates, OpenEdit(t)
    PROVE  IInv'
<1> USE NullIsApart
<1>1. /\ TypeOK /\ ClaimsHold /\ EditHolds /\ SweepHolds
      /\ NextIsAhead /\ FreshHolds /\ OncePerPeriod
  BY DEF IInv
<1>2. /\ edit = Null /\ schedule[t] \in Rows /\ lock[t] = Null
      /\ edit' = [of |-> t, row |-> schedule[t]]
      /\ lock' = [lock EXCEPT ![t] = "edit"]
      /\ UNCHANGED <<schedule, run, held, sweep, last, twice, onDay, moved, rewound>>
  BY <1>1 DEF OpenEdit, Free, ghosts, TypeOK
<1>3. TypeOK'
  BY <1>1, <1>2, InputAssumption DEF TypeOK, OpenEdit, Act, Copies
<1>4. \A u \in Templates : IF u = t THEN lock'[u] = "edit" ELSE lock'[u] = lock[u]
  BY <1>1, <1>2 DEF TypeOK
<1>5. ClaimsHold'
  <2>1. \A w \in Workers : held[w] # Null => held[w].of \in Templates \ {t}
    BY <1>1, <1>2, FreeIsUnread DEF TypeOK, Copies
  <2> QED BY <1>1, <1>2, <1>4, <2>1 DEF ClaimsHold
<1>6. EditHolds'
  <2>1. edit' \in Copies /\ edit'.of = t /\ edit'.row = schedule[t]
    BY <1>2 DEF Copies
  <2>2. \A u \in Templates : lock'[u] = "edit" => u = t
    BY <1>1, <1>2, <1>4 DEF EditHolds
  <2> QED BY <1>2, <1>4, <2>1, <2>2 DEF EditHolds
<1>7. SweepHolds'
  <2>1. \A u \in Templates : UpdatedHolds(u)'
    BY <1>1, <1>2, <1>4 DEF SweepHolds, UpdatedHolds, Unmoved, Behind
  <2>2. sweep # Null => \A u \in Templates : SweepOf(u)'
    BY <1>1, <1>2, <1>4 DEF SweepHolds, SweepOf, Behind, Lives, Ended, OnItsDay
  <2> QED BY <1>2, <2>1, <2>2 DEF SweepHolds
<1>8. NextIsAhead' /\ FreshHolds' /\ OncePerPeriod'
  BY <1>1, <1>2 DEF NextIsAhead, FreshHolds, OncePerPeriod
<1> QED BY <1>3, <1>5, <1>6, <1>7, <1>8 DEF IInv

\* The PUT lets go of the row it read, whatever it wrote.
LEMMA EditDoneReleases ==
    ASSUME TypeOK, ClaimsHold, EditHolds, SweepHolds, edit # Null, EditDone, NEW row,
           schedule' = [schedule EXCEPT ![edit.of] = row]
    PROVE  ClaimsHold' /\ EditHolds' /\ SweepHolds'
<1> USE NullIsApart
<1> DEFINE t == edit.of
<1>1. t \in Templates /\ lock[t] = "edit"
  BY DEF TypeOK, Copies, EditHolds
<1>2. lock' = [lock EXCEPT ![t] = Null] /\ edit' = Null /\ UNCHANGED <<run, held, sweep>>
  BY <1>1 DEF EditDone, TypeOK
<1>3. \A w \in Workers : ~(held[w] # Null /\ held[w].of = t)
  BY <1>1 DEF ClaimsHold
<1> HIDE DEF t
<1>4. IF edit # Null /\ edit.of = t THEN edit' = Null ELSE edit' = edit
  BY <1>2 DEF t
<1>5. schedule' = [schedule EXCEPT ![t] = row]
  BY DEF t
<1> QED BY <1>1, <1>2, <1>3, <1>4, <1>5, OthersHold

LEMMA EditDoneTyped ==
    ASSUME TypeOK, edit # Null, EditDone
    PROVE  /\ lock' \in [Templates -> Workers \cup {"edit", "sweep", Null}]
           /\ edit' \in Copies \cup {Null}
           /\ UNCHANGED <<today, available, run, held, creating, sweep, acts, faults>>
BY DEF TypeOK, EditDone, bounds

LEMMA SaveEditKeeps ==
    ASSUME IInv, SaveEdit
    PROVE  IInv'
<1> USE NullIsApart
<1>1. /\ TypeOK /\ ClaimsHold /\ EditHolds /\ SweepHolds /\ edit # Null /\ EditDone
      /\ edit.of \in Templates /\ edit.row \in Rows /\ schedule[edit.of] = edit.row
  BY DEF IInv, SaveEdit, TypeOK, Copies, EditHolds
<1>2. PICK row \in Rows : OwnerWrites(edit.of, row, edit.row.next)
  <2>1. PICK form \in Forms :
             \E start \in {form.start, edit.row.start}, next \in {form.next, edit.row.next} :
             OwnerWrites(edit.of, [form EXCEPT !.start = start, !.next = next], edit.row.next)
    BY DEF SaveEdit
  <2>2. PICK start \in {form.start, edit.row.start}, next \in {form.next, edit.row.next} :
             OwnerWrites(edit.of, [form EXCEPT !.start = start, !.next = next], edit.row.next)
    BY <2>1
  <2>3. form \in Rows /\ start \in Days /\ next \in Dates
    BY <1>1, FormAssumption, Columns
  <2> QED BY <2>2, <2>3 DEF Rows
<1>3. /\ schedule' \in [Templates -> Rows \cup {Null}]
      /\ last' \in [Templates -> Days \cup {0}]
      /\ moved' \subseteq Templates
      /\ NextIsAhead' /\ FreshHolds' /\ OncePerPeriod' /\ UNCHANGED <<twice, onDay, rewound>>
  BY <1>1, <1>2, Columns, OwnerKeepsHistory
<1>4. TypeOK'
  BY <1>1, <1>3, EditDoneTyped DEF TypeOK
<1>5. ClaimsHold' /\ EditHolds' /\ SweepHolds'
  BY <1>1, <1>2, EditDoneReleases DEF OwnerWrites
<1> QED BY <1>3, <1>4, <1>5 DEF IInv

LEMMA RefuseEditKeeps ==
    ASSUME IInv, RefuseEdit
    PROVE  IInv'
<1>1. /\ TypeOK /\ ClaimsHold /\ EditHolds /\ SweepHolds /\ edit # Null /\ EditDone
      /\ NextIsAhead /\ FreshHolds /\ OncePerPeriod /\ UNCHANGED <<schedule, ghosts>>
  BY DEF IInv, RefuseEdit
<1>2. TypeOK'
  BY <1>1, EditDoneTyped DEF TypeOK, ghosts
<1>3. schedule' = [schedule EXCEPT ![edit.of] = schedule[edit.of]]
  BY <1>1 DEF TypeOK
<1>4. ClaimsHold' /\ EditHolds' /\ SweepHolds'
  BY <1>1, <1>3, EditDoneReleases
<1>5. NextIsAhead' /\ FreshHolds' /\ OncePerPeriod'
  BY <1>1 DEF NextIsAhead, FreshHolds, OncePerPeriod, ghosts
<1> QED BY <1>2, <1>4, <1>5 DEF IInv
-----------------------------------------------------------------------------
(* The steps of the generator.                                             *)

\* Steps that touch neither a row, a lock nor what is worked with them.
LEMMA RunsMove ==
    ASSUME IInv, run' \in [Workers -> Runs \cup {Null}],
           \A w \in Workers : held[w] # Null => run'[w] = run[w],
           today' \in Days, available' \in BOOLEAN,
           UNCHANGED <<schedule, lock, held, edit, creating, sweep, bounds, ghosts>>
    PROVE  IInv'
<1>1. /\ TypeOK /\ ClaimsHold /\ EditHolds /\ SweepHolds
      /\ NextIsAhead /\ FreshHolds /\ OncePerPeriod
  BY DEF IInv
<1>2. TypeOK'
  BY <1>1 DEF TypeOK, bounds, ghosts
<1>3. ClaimsHold' /\ EditHolds'
  BY <1>1 DEF ClaimsHold, EditHolds
<1>4. SweepHolds'
  BY <1>1 DEF SweepHolds, SweepOf, UpdatedHolds, Unmoved, Behind, Lives, Ended, OnItsDay
<1>5. NextIsAhead' /\ FreshHolds' /\ OncePerPeriod'
  BY <1>1 DEF NextIsAhead, FreshHolds, OncePerPeriod, ghosts
<1> QED BY <1>2, <1>3, <1>4, <1>5 DEF IInv

LEMMA StartRunKeeps ==
    ASSUME IInv, NEW w \in Workers, StartRun(w)
    PROVE  IInv'
<1> USE NullIsApart
<1>1. [day |-> today, todo |-> DueOn(today)] \in Runs
  BY DEF IInv, TypeOK, Runs, DueOn
<1>2. run' \in [Workers -> Runs \cup {Null}]
  BY <1>1 DEF IInv, TypeOK, StartRun
<1>3. \A v \in Workers : held[v] # Null => run'[v] = run[v]
  BY DEF IInv, TypeOK, StartRun, ClaimsHold
<1> QED BY <1>2, <1>3, RunsMove DEF StartRun, IInv, TypeOK

\* A run shrinks by what it is done with.
LEMMA DoneWithTyped ==
    ASSUME run \in [Workers -> Runs \cup {Null}], NEW w \in Workers, run[w] # Null,
           NEW t, DoneWith(w, t)
    PROVE  /\ run' \in [Workers -> Runs \cup {Null}]
           /\ \A v \in Workers \ {w} : run'[v] = run[v]
<1>1. run[w] \in Runs
  OBVIOUS
<1>2. [run[w] EXCEPT !.todo = run[w].todo \ {t}] \in Runs
  BY <1>1 DEF Runs
<1> QED BY <1>1, <1>2 DEF DoneWith

LEMMA PassOverKeeps ==
    ASSUME IInv, NEW w \in Workers, NEW t \in Templates, PassOver(w, t)
    PROVE  IInv'
<1>1. run \in [Workers -> Runs \cup {Null}] /\ run[w] # Null /\ held[w] = Null
  BY DEF IInv, TypeOK, PassOver, Working
<1>2. /\ run' \in [Workers -> Runs \cup {Null}]
      /\ \A v \in Workers \ {w} : run'[v] = run[v]
  BY <1>1, DoneWithTyped DEF PassOver
<1> QED BY <1>1, <1>2, RunsMove DEF PassOver, IInv, TypeOK

LEMMA ClaimKeeps ==
    ASSUME IInv, NEW w \in Workers, NEW t \in Templates, Claim(w, t)
    PROVE  IInv'
<1> USE NullIsApart
<1> DEFINE copy == [of |-> t, row |-> schedule[t]]
<1>1. /\ TypeOK /\ ClaimsHold /\ EditHolds /\ SweepHolds
      /\ NextIsAhead /\ FreshHolds /\ OncePerPeriod
  BY DEF IInv
<1>2. /\ lock[t] = Null /\ schedule[t] \in Rows /\ run[w] # Null /\ held[w] = Null
      /\ schedule[t].next <= run[w].day
      /\ held' = [held EXCEPT ![w] = copy] /\ lock' = [lock EXCEPT ![t] = w]
      /\ UNCHANGED <<today, available, schedule, run, edit, creating, sweep, bounds, ghosts>>
  BY <1>1 DEF Claim, Free, Due, Working, TypeOK
<1>3. copy \in Copies /\ copy.of = t /\ copy.row = schedule[t] /\ copy # Null
  BY <1>2 DEF Copies
<1> HIDE DEF copy
<1>4. TypeOK'
  BY <1>1, <1>2, <1>3 DEF TypeOK, bounds, ghosts
<1>5. \A u \in Templates : IF u = t THEN lock'[u] = w ELSE lock'[u] = lock[u]
  BY <1>1, <1>2 DEF TypeOK
<1>6. \A v \in Workers : IF v = w THEN held'[v] = copy ELSE held'[v] = held[v]
  BY <1>1, <1>2 DEF TypeOK
<1>7. ClaimsHold'
  <2>1. \A u \in Templates : lock[u] # w
    BY <1>1, <1>2 DEF ClaimsHold
  <2>2. ASSUME NEW u \in Templates, lock'[u] \in Workers
        PROVE  held'[lock'[u]] # Null /\ held'[lock'[u]].of = u
    BY <1>1, <1>3, <1>5, <1>6, <2>1, <2>2 DEF ClaimsHold
  <2>3. ASSUME NEW v \in Workers, held'[v] # Null
        PROVE  /\ lock'[held'[v].of] = v /\ schedule'[held'[v].of] = held'[v].row
               /\ run'[v] # Null /\ held'[v].row.next <= run'[v].day
    <3>1. CASE v = w
      BY <1>2, <1>3, <1>5, <1>6, <3>1
    <3>2. CASE v # w
      <4>1. held'[v] = held[v] /\ held[v].of \in Templates
        BY <1>1, <1>6, <2>3, <3>2 DEF TypeOK, Copies
      <4>2. held[v].of # t
        BY <1>1, <1>2, <2>3, <4>1 DEF ClaimsHold
      <4> QED BY <1>1, <1>2, <1>5, <2>3, <4>1, <4>2 DEF ClaimsHold
    <3> QED BY <3>1, <3>2
  <2> QED BY <2>2, <2>3 DEF ClaimsHold
<1>8. EditHolds'
  <2>1. edit # Null => edit.of \in Templates /\ edit.of # t
    BY <1>1, <1>2 DEF TypeOK, Copies, EditHolds
  <2> QED BY <1>1, <1>2, <1>5, <2>1 DEF EditHolds
<1>9. SweepHolds'
  <2>1. \A u \in Templates : UpdatedHolds(u)'
    BY <1>1, <1>2, <1>5 DEF SweepHolds, UpdatedHolds, Unmoved, Behind
  <2>2. sweep # Null => \A u \in Templates : SweepOf(u)'
    BY <1>1, <1>2, <1>5 DEF SweepHolds, SweepOf, Behind, Lives, Ended, OnItsDay
  <2> QED BY <1>2, <2>1, <2>2 DEF SweepHolds
<1>10. NextIsAhead' /\ FreshHolds' /\ OncePerPeriod'
  BY <1>1, <1>2 DEF NextIsAhead, FreshHolds, OncePerPeriod, ghosts
<1> QED BY <1>4, <1>7, <1>8, <1>9, <1>10 DEF IInv

\* A worker lets go of the row it claimed, whatever it wrote.
LEMMA ReleaseKeepsHolds ==
    ASSUME TypeOK, ClaimsHold, EditHolds, SweepHolds,
           NEW w \in Workers, held[w] # Null, Release(w), NEW row,
           schedule' = [schedule EXCEPT ![held[w].of] = row]
    PROVE  ClaimsHold' /\ EditHolds' /\ SweepHolds'
<1> USE NullIsApart
<1> DEFINE t == held[w].of
<1>1. t \in Templates /\ lock[t] = w /\ run[w] # Null
  BY DEF TypeOK, Copies, ClaimsHold
<1>2. /\ lock' = [lock EXCEPT ![t] = Null] /\ held' = [held EXCEPT ![w] = Null]
      /\ UNCHANGED <<edit, sweep>>
  BY <1>1 DEF Release, TypeOK
<1>3. \A v \in Workers \ {w} : run'[v] = run[v] /\ held'[v] = held[v]
  BY <1>1, <1>2, DoneWithTyped DEF Release, TypeOK
<1>4. \A v \in Workers : (held[v] # Null /\ held[v].of = t) => v = w
  BY <1>1 DEF ClaimsHold
<1>5. held'[w] = Null
  BY <1>2 DEF TypeOK
<1>6. ~(edit # Null /\ edit.of = t)
  BY <1>1 DEF EditHolds
<1>7. \A v \in Workers : IF held[v] # Null /\ held[v].of = t THEN held'[v] = Null
                         ELSE held'[v] = held[v] /\ run'[v] = run[v]
  BY <1>3, <1>4, <1>5
<1>8. schedule' = [schedule EXCEPT ![t] = row] /\ lock[t] # "sweep"
  BY <1>1
<1>9. IF edit # Null /\ edit.of = t THEN edit' = Null ELSE edit' = edit
  BY <1>2, <1>6
<1>10. t \in Templates /\ lock' = [lock EXCEPT ![t] = Null] /\ UNCHANGED sweep
  BY <1>1, <1>2
<1> HIDE DEF t
<1>11. ClaimsHold' /\ EditHolds' /\ SweepHolds'
  BY <1>7, <1>8, <1>9, <1>10, OthersHold
<1> QED BY <1>11

LEMMA ReleaseTyped ==
    ASSUME TypeOK, ClaimsHold, NEW w \in Workers, held[w] # Null, Release(w)
    PROVE  /\ lock' \in [Templates -> Workers \cup {"edit", "sweep", Null}]
           /\ held' \in [Workers -> Copies \cup {Null}]
           /\ run' \in [Workers -> Runs \cup {Null}]
           /\ UNCHANGED <<today, available, edit, creating, sweep, acts>>
<1>1. run[w] # Null
  BY DEF ClaimsHold
<1> QED BY <1>1, DoneWithTyped DEF TypeOK, Release

\* What a worker may rely on of the row it claimed.
LEMMA ClaimedRow ==
    ASSUME TypeOK, ClaimsHold, NEW w \in Workers, held[w] # Null
    PROVE  /\ held[w].of \in Templates /\ held[w].row \in Rows
           /\ schedule[held[w].of] = held[w].row
           /\ held[w].row.next \in Days
<1>1. /\ held[w].of \in Templates /\ held[w].row \in Rows
      /\ schedule[held[w].of] = held[w].row
      /\ run[w] \in Runs /\ held[w].row.next <= run[w].day
  BY DEF TypeOK, Copies, ClaimsHold
<1>2. run[w].day \in Days
  BY <1>1 DEF Runs
<1> QED BY <1>1, <1>2, Columns, DaysAreDates, CalendarAssumption DEF Days

LEMMA DeactivateKeeps ==
    ASSUME IInv, NEW w \in Workers, Deactivate(w)
    PROVE  IInv'
<1> USE NullIsApart
<1> DEFINE t == held[w].of
           row == [held[w].row EXCEPT !.active = FALSE]
<1>1. /\ TypeOK /\ ClaimsHold /\ EditHolds /\ SweepHolds
      /\ NextIsAhead /\ FreshHolds /\ OncePerPeriod
      /\ held[w] # Null /\ Release(w) /\ UNCHANGED <<faults, ghosts>>
      /\ schedule' = [schedule EXCEPT ![t] = row]
  BY DEF IInv, Deactivate
<1>2. /\ t \in Templates /\ held[w].row \in Rows /\ schedule[t] = held[w].row
  BY <1>1, ClaimedRow
<1>3. row \in Rows /\ row.next = schedule[t].next /\ row # Null /\ schedule[t] # Null
  BY <1>2, RowToggled, Columns
<1>4. TypeOK'
  BY <1>1, <1>2, <1>3, ReleaseTyped DEF TypeOK, ghosts
<1>5. ClaimsHold' /\ EditHolds' /\ SweepHolds'
  BY <1>1, ReleaseKeepsHolds
<1> HIDE DEF row, t
<1>6. \A u \in Templates : /\ schedule'[u] = Null <=> schedule[u] = Null
                           /\ schedule[u] # Null => schedule'[u].next = schedule[u].next
  BY <1>1, <1>2, <1>3 DEF TypeOK
<1>7. moved \subseteq Templates
  BY <1>1 DEF TypeOK
<1>8. NextIsAhead' /\ FreshHolds' /\ OncePerPeriod'
  BY <1>1, <1>6, <1>7 DEF NextIsAhead, FreshHolds, OncePerPeriod, ghosts
<1> QED BY <1>4, <1>5, <1>8 DEF IInv

LEMMA RaiseKeeps ==
    ASSUME IInv, NEW w \in Workers, Raise(w)
    PROVE  IInv'
<1> USE NullIsApart
<1> DEFINE t == held[w].of
           old == held[w].row
           row == [old EXCEPT !.next = NextDate(old)]
<1>1. /\ TypeOK /\ ClaimsHold /\ EditHolds /\ SweepHolds
      /\ NextIsAhead /\ FreshHolds /\ OncePerPeriod
      /\ held[w] # Null /\ Release(w) /\ UNCHANGED <<faults, onDay, moved, rewound>>
      /\ schedule' = [schedule EXCEPT ![t] = row]
      /\ last' = [last EXCEPT ![t] = old.next]
      /\ twice' = IF old.next <= last[t] THEN twice \cup {t} ELSE twice
  BY DEF IInv, Raise, Bill
<1>2. /\ t \in Templates /\ old \in Rows /\ schedule[t] = old /\ old.next \in Days
      /\ old.next \in Int
  BY <1>1, ClaimedRow, Columns
<1>3. NextDate(old) \in Dates /\ NextDate(old) > old.next
  <2>1. old.next <= LastDay
    BY <1>2 DEF Days
  <2> HIDE DEF old
  <2> QED BY <1>2, <2>1, NextDateMoves
<1>4. row \in Rows /\ row.next > old.next /\ row # Null /\ schedule[t] # Null
  BY <1>2, <1>3, RowMoved, Columns
<1>5. t \notin rewound => last[t] < old.next
  BY <1>1, <1>2, <1>4 DEF NextIsAhead
<1>6. twice' \subseteq rewound' /\ twice' \subseteq Templates
  BY <1>1, <1>2, <1>5 DEF TypeOK, Days, OncePerPeriod
<1>7. TypeOK'
  BY <1>1, <1>2, <1>4, <1>6, ReleaseTyped DEF TypeOK
<1>8. ClaimsHold' /\ EditHolds' /\ SweepHolds'
  BY <1>1, ReleaseKeepsHolds
<1> HIDE DEF row, t, old
<1>9. \A u \in Templates : IF u = t THEN schedule'[u] = row /\ last'[u] = old.next
                           ELSE schedule'[u] = schedule[u] /\ last'[u] = last[u]
  BY <1>1, <1>2 DEF TypeOK
<1>10. NextIsAhead'
  BY <1>1, <1>4, <1>9 DEF NextIsAhead
<1>11. FreshHolds'
  <2>1. ASSUME NEW u \in moved
        PROVE  schedule'[u] # Null /\ schedule'[u].next > onDay
    <3>1. u \in Templates /\ schedule[u] # Null /\ schedule[u].next > onDay
      BY <1>1, <2>1 DEF FreshHolds, TypeOK
    <3>2. onDay \in Int
      BY <1>1 DEF TypeOK
    <3>3. row.next \in Int
      BY <1>4, Columns
    <3> QED BY <1>2, <1>4, <1>9, <3>1, <3>2, <3>3
  <2> QED BY <1>1, <2>1 DEF FreshHolds
<1> QED BY <1>1, <1>6, <1>7, <1>8, <1>10, <1>11 DEF IInv, OncePerPeriod

LEMMA FailKeeps ==
    ASSUME IInv, NEW w \in Workers, Fail(w)
    PROVE  IInv'
<1>1. /\ TypeOK /\ ClaimsHold /\ EditHolds /\ SweepHolds
      /\ NextIsAhead /\ FreshHolds /\ OncePerPeriod
      /\ held[w] # Null /\ Release(w) /\ UNCHANGED <<schedule, ghosts>>
      /\ faults' \in 0..MaxFaults
  BY InputAssumption DEF IInv, Fail, TypeOK
<1>2. TypeOK'
  BY <1>1, ReleaseTyped DEF TypeOK, ghosts
<1>3. schedule' = [schedule EXCEPT ![held[w].of] = schedule[held[w].of]]
  BY <1>1 DEF TypeOK
<1>4. ClaimsHold' /\ EditHolds' /\ SweepHolds'
  BY <1>1, <1>3, ReleaseKeepsHolds
<1>5. NextIsAhead' /\ FreshHolds' /\ OncePerPeriod'
  BY <1>1 DEF NextIsAhead, FreshHolds, OncePerPeriod, ghosts
<1> QED BY <1>2, <1>4, <1>5 DEF IInv

LEMMA WorkerDiesKeeps ==
    ASSUME IInv, NEW w \in Workers, WorkerDies(w)
    PROVE  IInv'
<1> USE NullIsApart
<1>1. /\ TypeOK /\ ClaimsHold /\ EditHolds /\ SweepHolds
      /\ NextIsAhead /\ FreshHolds /\ OncePerPeriod
      /\ UNCHANGED <<today, available, schedule, edit, creating, sweep, acts, ghosts>>
      /\ faults' \in 0..MaxFaults
      /\ run' = [run EXCEPT ![w] = Null] /\ held' = [held EXCEPT ![w] = Null]
      /\ lock' = [t \in Templates |-> IF lock[t] = w THEN Null ELSE lock[t]]
  BY InputAssumption DEF IInv, WorkerDies, TypeOK
<1>2. TypeOK'
  BY <1>1 DEF TypeOK, ghosts
<1>3. \A v \in Workers : IF v = w THEN held'[v] = Null
                         ELSE held'[v] = held[v] /\ run'[v] = run[v]
  BY <1>1 DEF TypeOK
<1>4. \A u \in Templates : IF lock[u] = w THEN lock'[u] = Null ELSE lock'[u] = lock[u]
  BY <1>1
<1>5. ClaimsHold'
  <2>1. \A v \in Workers : held[v] # Null => held[v].of \in Templates
    BY <1>1 DEF TypeOK, Copies
  <2>2. ASSUME NEW u \in Templates, lock'[u] \in Workers
        PROVE  held'[lock'[u]] # Null /\ held'[lock'[u]].of = u
    BY <1>1, <1>3, <1>4, <2>2 DEF ClaimsHold
  <2>3. ASSUME NEW v \in Workers, held'[v] # Null
        PROVE  /\ lock'[held'[v].of] = v /\ schedule'[held'[v].of] = held'[v].row
               /\ run'[v] # Null /\ held'[v].row.next <= run'[v].day
    BY <1>1, <1>3, <1>4, <2>1, <2>3 DEF ClaimsHold
  <2> QED BY <2>2, <2>3 DEF ClaimsHold
<1>6. EditHolds'
  <2>1. edit # Null => edit.of \in Templates
    BY <1>1 DEF TypeOK, Copies
  <2> QED BY <1>1, <1>4, <2>1 DEF EditHolds
<1>7. SweepHolds'
  <2>1. \A u \in Templates : UpdatedHolds(u)'
    BY <1>1, <1>4 DEF SweepHolds, UpdatedHolds, Unmoved, Behind
  <2>2. sweep # Null => \A u \in Templates : SweepOf(u)'
    BY <1>1, <1>4 DEF SweepHolds, SweepOf, Behind, Lives, Ended, OnItsDay
  <2> QED BY <1>1, <2>1, <2>2 DEF SweepHolds
<1>8. NextIsAhead' /\ FreshHolds' /\ OncePerPeriod'
  BY <1>1 DEF NextIsAhead, FreshHolds, OncePerPeriod, ghosts
<1> QED BY <1>2, <1>5, <1>6, <1>7, <1>8 DEF IInv
-----------------------------------------------------------------------------
(* The steps of a sweep.                                                   *)

LEMMA StartSweepKeeps ==
    ASSUME IInv, NEW switch \in BOOLEAN, StartSweep(switch)
    PROVE  IInv'
<1> USE NullIsApart
<1> DEFINE s == [switch |-> switch, day |-> today]
           todo == {t \in Templates : /\ Lives(schedule[t], today)
                                      /\ Behind(s, schedule[t].next)}
           new == [t \in Templates |->
                     IF schedule[t] = Null THEN 0 ELSE schedule[t].next]
<1>1. /\ TypeOK /\ ClaimsHold /\ EditHolds /\ SweepHolds
      /\ NextIsAhead /\ FreshHolds /\ OncePerPeriod
      /\ sweep = Null
      /\ sweep' = [switch |-> switch, day |-> today, read |-> schedule,
                   todo |-> todo, lost |-> {}, new |-> new]
      /\ UNCHANGED <<today, available, schedule, lock, run, held, edit, creating, bounds, ghosts>>
  BY DEF IInv, StartSweep
<1>2. new \in [Templates -> Dates \cup {0}]
  BY <1>1, Columns DEF TypeOK
<1>3. /\ sweep' \in Sweeps /\ sweep'.switch = switch /\ sweep'.day = today
      /\ sweep'.read = schedule /\ sweep'.todo = todo /\ sweep'.new = new
  BY <1>1, <1>2 DEF TypeOK, Sweeps
<1>4. TypeOK'
  BY <1>1, <1>3 DEF TypeOK, bounds, ghosts
<1>5. ClaimsHold' /\ EditHolds'
  BY <1>1 DEF ClaimsHold, EditHolds
<1>6. SweepHolds'
  <2>1. \A t \in Templates : lock'[t] # "sweep"
    BY <1>1 DEF SweepHolds, UpdatedHolds
  <2>2. ASSUME NEW t \in Templates PROVE SweepOf(t)'
    <3>1. CASE schedule[t] = Null
      BY <1>3, <3>1 DEF SweepOf, Lives
    <3>2. CASE schedule[t] # Null
      <4>1. schedule[t] \in Rows /\ schedule[t].next \in Dates
        BY <1>1, <3>2, Columns DEF TypeOK
      <4>2. sweep'.new[t] = schedule[t].next /\ sweep'.read[t] = schedule[t]
        BY <1>3, <3>2
      <4>3. OnItsDay(schedule[t])
            => OnItsDay([schedule[t] EXCEPT !.next = schedule[t].next])
        BY <4>1, RowMoved DEF OnItsDay
      <4>4. (Lives(schedule[t], today) /\ t \notin todo)
            => ~Behind(s, schedule[t].next)
        OBVIOUS
      <4>5. (Lives(sweep'.read[t], sweep'.day) /\ t \notin sweep'.todo)
            => ~Behind(sweep', sweep'.read[t].next)
        BY <1>3, <4>2, <4>4 DEF Behind
      <4>6. sweep'.new[t] >= sweep'.read[t].next
        BY <4>1, <4>2, DaysAreDates
      <4> HIDE DEF todo, new
      <4> QED BY <3>2, <4>2, <4>3, <4>5, <4>6 DEF SweepOf
    <3> QED BY <3>1, <3>2
  <2> QED BY <2>1, <2>2 DEF SweepHolds, UpdatedHolds
<1>7. NextIsAhead' /\ FreshHolds' /\ OncePerPeriod'
  BY <1>1 DEF NextIsAhead, FreshHolds, OncePerPeriod, ghosts
<1> QED BY <1>4, <1>5, <1>6, <1>7 DEF IInv

\* The date a sweep has reached for a row it will move is a date of the
\* calendar that has come, and the next one keeps what is claimed of it.
LEMMA SkippedPeriod ==
    ASSUME IInv, NEW t \in Templates, sweep # Null, t \in sweep.todo,
           Behind(sweep, sweep.new[t])
    PROVE  LET date == NextDate([sweep.read[t] EXCEPT !.next = sweep.new[t]])
           IN  /\ date \in Dates /\ date >= sweep.read[t].next
               /\ OnItsDay(sweep.read[t])
                  => OnItsDay([sweep.read[t] EXCEPT !.next = date])
<1> DEFINE row == sweep.read[t]
           new == sweep.new[t]
           at == [row EXCEPT !.next = new]
           date == NextDate(at)
<1>1. /\ row \in Rows /\ new \in Dates \cup {0} /\ new >= row.next
      /\ sweep.day \in Days
      /\ OnItsDay(row) => OnItsDay(at)
  BY DEF IInv, TypeOK, SweepHolds, SweepOf, Sweeps
<1>2. row.next \in Nat /\ row.next >= 1
  BY <1>1, Columns
<1>3. new \in Dates
  BY <1>1, <1>2
<1>4. new <= LastDay
  <2>1. new \in Nat /\ LastDay \in Nat
    BY <1>3, DaysAreDates, CalendarEnds
  <2> QED BY <1>1, <2>1 DEF Behind, Days
<1> HIDE DEF row, new
<1>5. at \in Rows /\ at.next = new /\ at.start = row.start /\ at.frequency = row.frequency
  BY <1>1, <1>3, RowMoved
<1>6. date \in Dates /\ date > new /\ (OnItsDay(at) => OnItsDay([at EXCEPT !.next = date]))
  BY <1>3, <1>4, <1>5, NextDateMoves
<1>7. OnItsDay([at EXCEPT !.next = date]) => OnItsDay([row EXCEPT !.next = date])
  BY <1>1, <1>5, <1>6, RowMoved DEF OnItsDay
<1>8. date >= row.next
  BY <1>1, <1>2, <1>3, <1>6, DaysAreDates
<1> QED BY <1>1, <1>6, <1>7, <1>8 DEF row, new

LEMMA SkipPeriodKeeps ==
    ASSUME IInv, NEW t \in Templates, SkipPeriod(t)
    PROVE  IInv'
<1> USE NullIsApart
<1> DEFINE date == NextDate([sweep.read[t] EXCEPT !.next = sweep.new[t]])
<1>1. /\ TypeOK /\ ClaimsHold /\ EditHolds /\ SweepHolds
      /\ NextIsAhead /\ FreshHolds /\ OncePerPeriod
      /\ sweep # Null /\ t \in sweep.todo /\ Behind(sweep, sweep.new[t])
      /\ sweep' = [sweep EXCEPT !.new[t] = date]
      /\ UNCHANGED <<today, available, schedule, lock, run, held, edit, creating, bounds, ghosts>>
  BY DEF IInv, SkipPeriod
<1>2. /\ date \in Dates /\ date >= sweep.read[t].next
      /\ OnItsDay(sweep.read[t]) => OnItsDay([sweep.read[t] EXCEPT !.next = date])
  BY <1>1, SkippedPeriod
<1> HIDE DEF date
<1>3. sweep \in Sweeps
  BY <1>1 DEF TypeOK
<1>4. /\ sweep' \in Sweeps /\ sweep'.switch = sweep.switch /\ sweep'.day = sweep.day
      /\ sweep'.read = sweep.read /\ sweep'.todo = sweep.todo
      /\ sweep'.lost = sweep.lost
      /\ \A u \in Templates : sweep'.new[u] = IF u = t THEN date ELSE sweep.new[u]
  BY <1>1, <1>2, <1>3 DEF Sweeps
<1>5. TypeOK'
  BY <1>1, <1>4 DEF TypeOK, bounds, ghosts
<1>6. ClaimsHold' /\ EditHolds'
  BY <1>1 DEF ClaimsHold, EditHolds
<1>7. SweepHolds'
  <2>1. ASSUME NEW u \in Templates PROVE UpdatedHolds(u)'
    BY <1>1, <1>4 DEF SweepHolds, UpdatedHolds, Unmoved, Behind
  <2>2. ASSUME NEW u \in Templates PROVE SweepOf(u)'
    <3>1. SweepOf(u)
      BY <1>1 DEF SweepHolds
    <3>2. CASE u = t
      <4>1. sweep.read[t] # Null /\ sweep'.new[t] = date /\ sweep'.read[t] = sweep.read[t]
        BY <1>1, <1>4, <3>1, <3>2 DEF SweepOf
      <4> QED BY <1>1, <1>2, <1>4, <3>2, <4>1 DEF SweepOf
    <3>3. CASE u # t
      BY <1>1, <1>4, <3>1, <3>3 DEF SweepOf, Behind
    <3> QED BY <3>2, <3>3
  <2> QED BY <2>1, <2>2 DEF SweepHolds
<1>8. NextIsAhead' /\ FreshHolds' /\ OncePerPeriod'
  BY <1>1 DEF NextIsAhead, FreshHolds, OncePerPeriod, ghosts
<1> QED BY <1>5, <1>6, <1>7, <1>8 DEF IInv

LEMMA WriteMovedKeeps ==
    ASSUME IInv, NEW t \in Templates, WriteMoved(t)
    PROVE  IInv'
<1> USE NullIsApart
<1>1. /\ TypeOK /\ ClaimsHold /\ EditHolds /\ SweepHolds
      /\ NextIsAhead /\ FreshHolds /\ OncePerPeriod
      /\ sweep # Null /\ sweep \in Sweeps /\ t \in sweep.todo /\ lock[t] = Null
      /\ ~Behind(sweep, sweep.new[t])
      /\ UNCHANGED <<today, available, schedule, run, held, edit, creating, bounds, ghosts>>
  BY DEF IInv, WriteMoved, Free, TypeOK
<1>2. /\ sweep' \in Sweeps /\ sweep'.switch = sweep.switch /\ sweep'.day = sweep.day
      /\ sweep'.read = sweep.read /\ sweep'.new = sweep.new
      /\ sweep'.todo = sweep.todo \ {t}
      /\ \/ Unmoved(t) /\ lock' = [lock EXCEPT ![t] = "sweep"] /\ sweep'.lost = sweep.lost
         \/ lock' = lock /\ sweep'.lost = sweep.lost \cup {t}
  <2>1. \/ /\ Unmoved(t) /\ lock' = [lock EXCEPT ![t] = "sweep"]
           /\ sweep' = [sweep EXCEPT !.todo = @ \ {t}]
        \/ /\ lock' = lock
           /\ sweep' = [sweep EXCEPT !.todo = @ \ {t}, !.lost = @ \cup {t}]
    BY DEF WriteMoved
  <2>2. CASE /\ Unmoved(t) /\ lock' = [lock EXCEPT ![t] = "sweep"]
             /\ sweep' = [sweep EXCEPT !.todo = @ \ {t}]
    BY <1>1, <2>2 DEF Sweeps
  <2>3. CASE /\ lock' = lock
             /\ sweep' = [sweep EXCEPT !.todo = @ \ {t}, !.lost = @ \cup {t}]
    BY <1>1, <2>3 DEF Sweeps
  <2> QED BY <2>1, <2>2, <2>3
<1>3. TypeOK'
  BY <1>1, <1>2 DEF TypeOK, bounds, ghosts
<1>4. \A u \in Templates : u # t => lock'[u] = lock[u]
  BY <1>1, <1>2 DEF TypeOK
<1>5. \/ Unmoved(t) /\ lock'[t] = "sweep" /\ sweep'.lost = sweep.lost
      \/ lock'[t] = Null /\ sweep'.lost = sweep.lost \cup {t}
  BY <1>1, <1>2 DEF TypeOK
<1>6. ClaimsHold'
  <2>1. \A w \in Workers : held[w] # Null => held[w].of \in Templates \ {t}
    BY <1>1, FreeIsUnread DEF TypeOK, Copies
  <2>2. lock'[t] \notin Workers
    BY <1>5
  <2> QED BY <1>1, <1>4, <2>1, <2>2 DEF ClaimsHold
<1>7. EditHolds'
  <2>1. edit # Null => edit.of \in Templates \ {t}
    BY <1>1, FreeIsUnread DEF TypeOK, Copies
  <2>2. lock'[t] # "edit"
    BY <1>5
  <2> QED BY <1>1, <1>4, <2>1, <2>2 DEF EditHolds
<1>8. SweepHolds'
  <2>1. sweep.read[t] # Null
    BY <1>1 DEF SweepHolds, SweepOf
  <2>2. ASSUME NEW u \in Templates PROVE UpdatedHolds(u)'
    BY <1>1, <1>2, <1>4, <1>5, <2>1 DEF SweepHolds, UpdatedHolds, Unmoved, Behind
  <2>3. ASSUME NEW u \in Templates PROVE SweepOf(u)'
    <3>1. SweepOf(u) /\ sweep'.read[u] = sweep.read[u] /\ sweep'.new[u] = sweep.new[u]
      BY <1>1, <1>2 DEF SweepHolds
    <3>2. (u \notin sweep'.todo /\ u \notin sweep'.lost /\ lock'[u] # "sweep")
          => (u \notin sweep.todo /\ u \notin sweep.lost /\ lock[u] # "sweep")
      BY <1>2, <1>4, <1>5
    <3>3. sweep'.read[u] = Null => u \notin sweep'.todo
      BY <1>2, <3>1 DEF SweepOf
    <3> QED BY <1>2, <3>1, <3>2, <3>3 DEF SweepOf, Behind
  <2> QED BY <2>2, <2>3 DEF SweepHolds
<1>9. NextIsAhead' /\ FreshHolds' /\ OncePerPeriod'
  BY <1>1 DEF NextIsAhead, FreshHolds, OncePerPeriod, ghosts
<1> QED BY <1>3, <1>6, <1>7, <1>8, <1>9 DEF IInv

\* A row a sweep moves goes forward, past the dates it skips.
LEMMA MovedOn ==
    ASSUME IInv, NEW t \in Templates, Updated(t)
    PROVE  /\ sweep \in Sweeps /\ sweep # Null
           /\ schedule[t] \in Rows /\ sweep.read[t] \in Rows
           /\ schedule[t].next = sweep.read[t].next
           /\ sweep.new[t] \in Dates
           /\ sweep.new[t] >= schedule[t].next
           /\ ~Behind(sweep, sweep.new[t])
<1>1. /\ sweep \in Sweeps /\ sweep # Null
      /\ schedule[t] \in Rows /\ sweep.read[t] \in Rows
      /\ schedule[t].next = sweep.read[t].next
      /\ ~Behind(sweep, sweep.new[t])
  BY DEF IInv, TypeOK, SweepHolds, UpdatedHolds, Unmoved, Updated, Sweeps
<1>2. sweep.new[t] \in Dates \cup {0} /\ sweep.new[t] >= sweep.read[t].next
  BY <1>1, NullIsApart DEF IInv, SweepHolds, SweepOf, Sweeps
<1>3. schedule[t].next \in Nat /\ schedule[t].next >= 1
  BY <1>1, Columns
<1> QED BY <1>1, <1>2, <1>3

LEMMA EndSweepKeeps ==
    ASSUME IInv, EndSweep
    PROVE  IInv'
<1> USE NullIsApart
<1>1. /\ TypeOK /\ ClaimsHold /\ EditHolds /\ SweepHolds
      /\ NextIsAhead /\ FreshHolds /\ OncePerPeriod
      /\ sweep # Null /\ sweep \in Sweeps /\ sweep.todo = {} /\ sweep' = Null
      /\ UNCHANGED <<today, run, held, edit, creating, bounds, last, twice, rewound>>
  BY DEF IInv, EndSweep, TypeOK
<1>2. \A t \in Templates :
        schedule'[t] = IF Updated(t) THEN [schedule[t] EXCEPT !.next = sweep.new[t]]
                       ELSE schedule[t]
  BY DEF EndSweep
<1>3. \A t \in Templates : lock'[t] = IF Updated(t) THEN Null ELSE lock[t]
  BY DEF EndSweep
<1>4. \A t \in Templates : Updated(t) =>
        /\ schedule'[t] \in Rows /\ schedule'[t].next = sweep.new[t]
        /\ schedule'[t].next >= schedule[t].next
        /\ schedule[t] \in Rows
  <2>1. ASSUME NEW t \in Templates, Updated(t)
        PROVE  /\ schedule'[t] \in Rows /\ schedule'[t].next = sweep.new[t]
               /\ schedule'[t].next >= schedule[t].next
               /\ schedule[t] \in Rows
    <3>1. /\ schedule[t] \in Rows /\ sweep.new[t] \in Dates
          /\ sweep.new[t] >= schedule[t].next
      BY <2>1, MovedOn
    <3>2. schedule'[t] = [schedule[t] EXCEPT !.next = sweep.new[t]]
      BY <1>2, <2>1
    <3> QED BY <3>1, <3>2, RowMoved
  <2> QED BY <2>1
<1>5. TypeOK'
  <2>1. schedule' \in [Templates -> Rows \cup {Null}]
    BY <1>1, <1>2, <1>4 DEF TypeOK, EndSweep
  <2>2. lock' \in [Templates -> Workers \cup {"edit", "sweep", Null}]
    BY <1>1 DEF TypeOK, EndSweep
  <2>3. /\ available' \in BOOLEAN /\ onDay' \in 0..LastDay
        /\ moved' \subseteq Templates
    <3>1. sweep.day \in Days /\ LastDay \in Nat
      BY <1>1, DaysAreDates, CalendarAssumption DEF Sweeps
    <3>2. /\ available \in BOOLEAN /\ onDay \in 0..LastDay
          /\ moved \subseteq Templates
      BY <1>1 DEF TypeOK
    <3>3. CASE sweep.switch
      BY <3>1, <3>3 DEF EndSweep, Days
    <3>4. CASE ~sweep.switch
      BY <3>2, <3>4 DEF EndSweep
    <3> QED BY <3>3, <3>4
  <2> QED BY <1>1, <2>1, <2>2, <2>3 DEF TypeOK, bounds
<1>6. ClaimsHold'
  <2>1. \A w \in Workers : held[w] # Null =>
          held[w].of \in Templates /\ lock[held[w].of] # "sweep"
    BY <1>1 DEF TypeOK, Copies, ClaimsHold
  <2> QED BY <1>1, <1>2, <1>3, <2>1 DEF ClaimsHold, Updated
<1>7. EditHolds'
  <2>1. edit # Null => edit.of \in Templates /\ lock[edit.of] # "sweep"
    BY <1>1 DEF TypeOK, Copies, EditHolds
  <2> QED BY <1>1, <1>2, <1>3, <2>1 DEF EditHolds, Updated
<1>8. SweepHolds'
  BY <1>1, <1>3 DEF SweepHolds, UpdatedHolds, Updated
<1>9. NextIsAhead'
  <2>1. ASSUME NEW t \in Templates \ rewound, schedule'[t] # Null
        PROVE  last[t] < schedule'[t].next
    <3>1. CASE Updated(t)
      <4>1. schedule[t] # Null /\ last[t] < schedule[t].next
        BY <1>1, <1>4, <3>1 DEF NextIsAhead
      <4>2. schedule[t].next \in Int /\ schedule'[t].next \in Int /\ last[t] \in Int
        BY <1>1, <1>4, <3>1, Columns DEF TypeOK, Days
      <4> QED BY <1>4, <3>1, <4>1, <4>2
    <3>2. CASE ~Updated(t)
      BY <1>1, <1>2, <2>1, <3>2 DEF NextIsAhead
    <3> QED BY <3>1, <3>2
  <2> QED BY <1>1, <2>1 DEF NextIsAhead
<1>10. FreshHolds'
  <2>1. CASE sweep.switch
    <3>1. /\ onDay' = sweep.day /\ sweep.day \in Int
          /\ \A t \in moved' : t \in Templates /\ StartedFresh(t)
      BY <1>1, <2>1 DEF EndSweep, Sweeps, Days
    <3>2. ASSUME NEW t \in Templates, t \in moved'
          PROVE  schedule'[t] # Null /\ schedule'[t].next > sweep.day
      <4>1. CASE Updated(t)
        <5>1. ~Behind(sweep, sweep.new[t]) /\ sweep.new[t] \in Dates
          BY <4>1, MovedOn
        <5>2. sweep.new[t] > sweep.day
          BY <2>1, <3>1, <5>1, DaysAreDates DEF Behind
        <5> QED BY <1>4, <4>1, <5>2
      <4>2. CASE ~Updated(t)
        <5>1. /\ schedule'[t] = schedule[t] /\ schedule[t] = sweep.read[t]
              /\ Lives(schedule[t], sweep.day) /\ t \notin sweep.lost
          BY <1>2, <3>1, <3>2, <4>2 DEF StartedFresh
        <5>2. schedule[t] \in Rows /\ schedule[t].next \in Int
          BY <1>1, <5>1, Columns DEF TypeOK, Lives
        <5>3. ~Behind(sweep, schedule[t].next)
          BY <1>1, <4>2, <5>1, <5>2 DEF SweepHolds, SweepOf, Updated
        <5> QED BY <2>1, <3>1, <5>1, <5>2, <5>3 DEF Behind
      <4> QED BY <4>1, <4>2
    <3> QED BY <3>1, <3>2 DEF FreshHolds
  <2>2. CASE ~sweep.switch
    <3>1. UNCHANGED <<onDay, moved>>
      BY <2>2 DEF EndSweep
    <3>2. ASSUME NEW t \in Templates, t \in moved
          PROVE  schedule'[t] # Null /\ schedule'[t].next > onDay
      <4>1. schedule[t] # Null /\ schedule[t].next > onDay /\ onDay \in Int
        BY <1>1, <3>2 DEF FreshHolds, TypeOK
      <4>2. CASE Updated(t)
        <5>1. schedule[t].next \in Int /\ schedule'[t].next \in Int
          BY <1>4, <4>2, Columns
        <5> QED BY <1>4, <4>1, <4>2, <5>1
      <4>3. CASE ~Updated(t)
        BY <1>2, <4>1, <4>3
      <4> QED BY <4>2, <4>3
    <3>3. moved \subseteq Templates
      BY <1>1 DEF TypeOK
    <3> QED BY <3>1, <3>2, <3>3 DEF FreshHolds
  <2> QED BY <2>1, <2>2
<1> QED BY <1>1, <1>5, <1>6, <1>7, <1>8, <1>9, <1>10 DEF IInv, OncePerPeriod
-----------------------------------------------------------------------------
(* The day of the month.                                                   *)

\* A row with the same dates and frequency is on its day as it was.
LEMMA SameDay ==
    ASSUME NEW row, NEW old, row.next = old.next, row.start = old.start,
           row.frequency = old.frequency, OnItsDay(old)
    PROVE  OnItsDay(row)
BY DEF OnItsDay

LEMMA ToggleKeepsDay ==
    ASSUME IInv, NEW u \in Templates, Toggle(u),
           NEW t \in Templates, schedule[t] # Null, OnItsDay(schedule[t])
    PROVE  OnItsDay(schedule'[t])
<1> DEFINE row == [schedule[u] EXCEPT !.active = ~@]
<1>1. schedule \in [Templates -> Rows \cup {Null}]
  BY DEF IInv, TypeOK
<1>2. schedule[u] # Null /\ schedule' = [schedule EXCEPT ![u] = row]
  BY DEF Toggle
<1>3. CASE u = t
  <2>1. schedule[t] \in Rows /\ row = [schedule[t] EXCEPT !.active = ~schedule[t].active]
    BY <1>1, <1>2, <1>3
  <2>2. /\ row.next = schedule[t].next /\ row.start = schedule[t].start
        /\ row.frequency = schedule[t].frequency
    BY <2>1 DEF Rows
  <2>3. schedule'[t] = row
    BY <1>1, <1>2, <1>3
  <2> HIDE DEF row
  <2> QED BY <2>2, <2>3, SameDay
<1>4. CASE u # t
  BY <1>1, <1>2, <1>4
<1> QED BY <1>3, <1>4

LEMMA DeactivateKeepsDay ==
    ASSUME IInv, NEW w \in Workers, Deactivate(w),
           NEW t \in Templates, schedule[t] # Null, OnItsDay(schedule[t])
    PROVE  OnItsDay(schedule'[t])
<1> DEFINE u == held[w].of
           row == [held[w].row EXCEPT !.active = FALSE]
<1>1. schedule \in [Templates -> Rows \cup {Null}]
  BY DEF IInv, TypeOK
<1>2. schedule' = [schedule EXCEPT ![u] = row]
  BY DEF Deactivate
<1>3. u \in Templates /\ held[w].row \in Rows /\ schedule[u] = held[w].row
  BY ClaimedRow DEF IInv, Deactivate
<1>4. /\ row.next = held[w].row.next /\ row.start = held[w].row.start
      /\ row.frequency = held[w].row.frequency
  BY <1>3, RowToggled
<1> HIDE DEF row, u
<1>5. CASE u = t
  BY <1>1, <1>2, <1>3, <1>4, <1>5, SameDay
<1>6. CASE u # t
  BY <1>1, <1>2, <1>6
<1> QED BY <1>5, <1>6

LEMMA RaiseKeepsDay ==
    ASSUME IInv, NEW w \in Workers, Raise(w),
           NEW t \in Templates, schedule[t] # Null, OnItsDay(schedule[t])
    PROVE  OnItsDay(schedule'[t])
<1> DEFINE u == held[w].of
           old == held[w].row
           row == [old EXCEPT !.next = NextDate(old)]
<1>1. schedule \in [Templates -> Rows \cup {Null}]
  BY DEF IInv, TypeOK
<1>2. schedule' = [schedule EXCEPT ![u] = row]
  BY DEF Raise
<1>3. u \in Templates /\ old \in Rows /\ schedule[u] = old /\ old.next \in Days
  BY ClaimedRow DEF IInv, Raise
<1>4. OnItsDay(old) => OnItsDay(row)
  <2>1. old.next <= LastDay
    BY <1>3 DEF Days
  <2> HIDE DEF old
  <2> QED BY <1>3, <2>1, NextDateMoves
<1> HIDE DEF row, u, old
<1>5. CASE u = t
  BY <1>1, <1>2, <1>3, <1>4, <1>5
<1>6. CASE u # t
  BY <1>1, <1>2, <1>6
<1> QED BY <1>5, <1>6

LEMMA EndSweepKeepsDay ==
    ASSUME IInv, EndSweep, NEW t \in Templates, schedule[t] # Null,
           Updated(t) => ReadAsStored(t), OnItsDay(schedule[t])
    PROVE  OnItsDay(schedule'[t])
<1>1. schedule'[t] = IF Updated(t) THEN [schedule[t] EXCEPT !.next = sweep.new[t]]
                     ELSE schedule[t]
  BY DEF EndSweep
<1>2. CASE Updated(t)
  <2> DEFINE read == [sweep.read[t] EXCEPT !.next = sweep.new[t]]
             row == [schedule[t] EXCEPT !.next = sweep.new[t]]
  <2>1. /\ sweep # Null /\ schedule[t] \in Rows /\ sweep.read[t] \in Rows
        /\ schedule[t].next = sweep.read[t].next /\ sweep.new[t] \in Dates
    BY <1>2, MovedOn
  <2>2. /\ schedule[t].start = sweep.read[t].start
        /\ schedule[t].frequency = sweep.read[t].frequency
    BY <1>2 DEF ReadAsStored
  <2>3. OnItsDay(sweep.read[t])
    BY <2>1, <2>2, SameDay
  <2>4. OnItsDay(read)
    BY <2>1, <2>3, NullIsApart DEF IInv, SweepHolds, SweepOf
  <2>5. row.next = read.next /\ row.start = read.start /\ row.frequency = read.frequency
    BY <2>1, <2>2, RowMoved
  <2>6. schedule'[t] = row
    BY <1>1, <1>2
  <2> HIDE DEF read, row
  <2> QED BY <2>4, <2>5, <2>6, SameDay
<1>3. CASE ~Updated(t)
  BY <1>1, <1>3
<1> QED BY <1>2, <1>3

\* Whoever else writes a row: it was not there, is gone, or is a PUT's or POST's.
LEMMA KeepsItsDayStep == IInv /\ [Next]_vars => KeepsDay
<1> SUFFICES ASSUME IInv, [Next]_vars, NEW t \in Templates,
                    schedule[t] # Null, edit' = edit, creating' = creating,
                    schedule'[t] # Null,
                    Updated(t) => ReadAsStored(t), OnItsDay(schedule[t])
             PROVE  OnItsDay(schedule'[t])
  BY DEF KeepsDay
<1>1. schedule \in [Templates -> Rows \cup {Null}]
  BY DEF IInv, TypeOK
<1>2. ASSUME schedule'[t] = schedule[t] PROVE OnItsDay(schedule'[t])
  BY <1>2
<1>3. ASSUME NEW u \in Templates, Create(u) \/ Delete(u)
      PROVE  schedule'[t] = schedule[t]
  BY <1>1, <1>3 DEF Create, Delete, OwnerWrites
<1>4. ASSUME NEW u \in Templates, OpenEdit(u) PROVE FALSE
  BY <1>4, NullIsApart DEF OpenEdit, IInv, TypeOK, Copies
<1>4a. ASSUME NEW u \in Templates, FinishCreate(u) PROVE FALSE
  BY <1>4a, NullIsApart DEF FinishCreate, IInv, TypeOK
<1>5. ASSUME SaveEdit \/ RefuseEdit PROVE FALSE
  BY <1>5 DEF SaveEdit, RefuseEdit, EditDone
<1>6. ASSUME NEW w \in Workers, StartRun(w) \/ Fail(w) \/ WorkerDies(w)
      PROVE  schedule'[t] = schedule[t]
  BY <1>6 DEF StartRun, Fail, WorkerDies
<1>7. ASSUME NEW w \in Workers, NEW u \in Templates, Claim(w, u) \/ PassOver(w, u)
      PROVE  schedule'[t] = schedule[t]
  BY <1>7 DEF Claim, PassOver
<1>8. ASSUME NEW w \in Workers, Work(w) PROVE OnItsDay(schedule'[t])
  BY <1>2, <1>7, <1>8, DeactivateKeepsDay, RaiseKeepsDay DEF Work
<1>9. ASSUME NEW switch \in BOOLEAN, StartSweep(switch)
      PROVE  schedule'[t] = schedule[t]
  BY <1>9 DEF StartSweep
<1>10. ASSUME NEW u \in Templates, SkipPeriod(u) \/ WriteMoved(u)
       PROVE  schedule'[t] = schedule[t]
  BY <1>10 DEF SkipPeriod, WriteMoved
<1>11. ASSUME Sweeping PROVE OnItsDay(schedule'[t])
  BY <1>2, <1>10, <1>11, EndSweepKeepsDay DEF Sweeping
<1>12. ASSUME SwitchOff \/ DayPasses \/ UNCHANGED vars
       PROVE  schedule'[t] = schedule[t]
  BY <1>12 DEF SwitchOff, DayPasses, vars
<1>13. CASE Next
  BY <1>2, <1>3, <1>4, <1>4a, <1>5, <1>6, <1>8, <1>9, <1>11, <1>12, <1>13,
     ToggleKeepsDay
     DEF Next
<1> QED BY <1>2, <1>12, <1>13
-----------------------------------------------------------------------------
(* The theorems.                                                           *)

LEMMA InitHolds == Init => IInv
<1> SUFFICES ASSUME Init PROVE IInv
  OBVIOUS
<1> USE NullIsApart
<1>1. 1 \in Days /\ 0 \in 0..LastDay /\ 0 \in 0..MaxActs /\ 0 \in 0..MaxFaults
  BY CalendarAssumption, DaysAreDates, InputAssumption DEF Days
<1>2. TypeOK
  BY <1>1 DEF Init, TypeOK
<1>3. ClaimsHold /\ EditHolds /\ SweepHolds /\ NextIsAhead /\ FreshHolds
  BY DEF Init, ClaimsHold, EditHolds, SweepHolds, UpdatedHolds, NextIsAhead, FreshHolds
<1> QED BY <1>2, <1>3 DEF IInv, Init, OncePerPeriod

LEMMA StepHolds == IInv /\ [Next]_vars => IInv'
<1> SUFFICES ASSUME IInv, [Next]_vars PROVE IInv'
  OBVIOUS
<1>1. ASSUME NEW t \in Templates,
             Create(t) \/ FinishCreate(t) \/ OpenEdit(t) \/ Toggle(t) \/ Delete(t)
      PROVE  IInv'
  BY <1>1, CreateKeeps, FinishCreateKeeps, OpenEditKeeps, ToggleKeeps, DeleteKeeps
<1>2. ASSUME SaveEdit \/ RefuseEdit PROVE IInv'
  BY <1>2, SaveEditKeeps, RefuseEditKeeps
<1>3. ASSUME NEW w \in Workers, StartRun(w) \/ Work(w) \/ Fail(w) \/ WorkerDies(w)
      PROVE  IInv'
  BY <1>3, StartRunKeeps, ClaimKeeps, PassOverKeeps, DeactivateKeeps, RaiseKeeps,
     FailKeeps, WorkerDiesKeeps DEF Work
<1>4. ASSUME NEW switch \in BOOLEAN, StartSweep(switch) PROVE IInv'
  BY <1>4, StartSweepKeeps
<1>5. ASSUME Sweeping PROVE IInv'
  BY <1>5, SkipPeriodKeeps, WriteMovedKeeps, EndSweepKeeps DEF Sweeping
<1>6. CASE SwitchOff
  BY <1>6, RunsMove DEF SwitchOff, IInv, TypeOK
<1>7. CASE DayPasses
  <2>1. today \in Days /\ today' \in Days
    BY <1>7, CalendarEnds DEF DayPasses, IInv, TypeOK, Days
  <2> QED BY <1>7, <2>1, RunsMove DEF DayPasses, IInv, TypeOK
<1>8. CASE UNCHANGED vars
  BY <1>8, RunsMove DEF vars, IInv, TypeOK
<1> QED BY <1>1, <1>2, <1>3, <1>4, <1>5, <1>6, <1>7, <1>8 DEF Next

\* Whatever the calendar and however runs, owners and sweeps interleave, every
\* variable keeps its type and the invariant holds.
THEOREM Inductive == Spec => []IInv
<1>1. Init => IInv
  BY InitHolds
<1>2. IInv /\ [Next]_vars => IInv'
  BY StepHolds
<1> QED BY <1>1, <1>2, PTL DEF Spec

THEOREM Typed == Spec => []TypeOK
<1>1. IInv => TypeOK
  BY DEF IInv
<1> QED BY <1>1, Inductive, PTL

\* No schedule bills a date twice (invoices/tasks.py, `_generate_one`).
THEOREM OncePerPeriodAlways == Spec => []OncePerPeriod
<1>1. IInv => OncePerPeriod
  BY DEF IInv
<1> QED BY <1>1, Inductive, PTL

\* A schedule that Invoices came back past has only later dates ahead
\* (invoices/schedules.py, `start_fresh`).
THEOREM StartsFreshAlways == Spec => []StartsFresh
<1>1. IInv => StartsFresh
  BY DEF IInv, FreshHolds, StartsFresh
<1> QED BY <1>1, Inductive, PTL

\* Billing and skipping periods leave a monthly schedule on the day of its
\* start date, short months or not (invoices/models.py, `calculate_next_date`).
THEOREM KeepsItsDayAlways == Spec => KeepsItsDay
<1>1. IInv /\ [Next]_vars => [KeepsDay]_vars
  BY KeepsItsDayStep
<1> QED BY <1>1, Inductive, PTL DEF Spec, KeepsItsDay
=============================================================================
