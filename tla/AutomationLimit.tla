-------------------------- MODULE AutomationLimit --------------------------
(***************************************************************************)
(* An org's hourly limit on automation runs. Every request, Celery task    *)
(* and command that saved something runs rules in its own process; each    *)
(* counts the runs of the hour before a run and records the run after it,  *)
(* and past the limit counts the rule on the one skipped row it has for    *)
(* the hour.                                                               *)
(***************************************************************************)
EXTENDS Integers, FiniteSets

CONSTANTS Processes,
          Rules,
          RUNS_PER_HOUR,
          MaxHour,       \* bound: hours 0..MaxHour are modelled
          MaxSkips,      \* bound: skips of one rule counted in an hour
          Null

ASSUME LimitAssumption ==
    /\ IsFiniteSet(Processes) /\ Processes # {}
    /\ RUNS_PER_HOUR \in Nat \ {0}
    /\ MaxHour \in Nat
    /\ Null \notin Processes

VARIABLES
    hour,
    process,   \* where each process is in considering a rule
    ran,       \* rows of the hour, skipped ones apart
    skipRow,   \* skipped_count of the rule's skipped row for the hour, 0 if none
    holder,    \* the transaction holding that row, or Null
    skipped,   \* history: how often the rule was skipped in the hour
    noticeKey, \* whether the cache holds the hour's automation-limit key
    notices    \* limit notices the org's admins got for the hour

vars == <<hour, process, ran, skipRow, holder, skipped, noticeKey, notices>>

Hours == 0..MaxHour
Idle  == [stage |-> "idle"]

ProcessStates ==
    {Idle} \cup [stage : {"running"}, rule : Rules]
           \cup [stage : {"limited"}, rule : Rules, window : Hours]
           \cup [stage : {"skipping"}, rule : Rules, window : Hours, first : BOOLEAN]
           \cup [stage : {"locked"}, rule : Rules, window : Hours, first : BOOLEAN,
                 read : Nat]
           \cup [stage : {"notifying"}, window : Hours]

TypeOK ==
    /\ hour \in Hours
    /\ process \in [Processes -> ProcessStates]
    /\ ran \in [Hours -> Nat]
    /\ skipRow \in [Hours -> [Rules -> Nat]]
    /\ holder \in [Hours -> [Rules -> Processes \cup {Null}]]
    /\ skipped \in [Hours -> [Rules -> Nat]]
    /\ noticeKey \in [Hours -> BOOLEAN]
    /\ notices \in [Hours -> Nat]

Init ==
    /\ hour = 0
    /\ process = [p \in Processes |-> Idle]
    /\ ran = [h \in Hours |-> 0]
    /\ skipRow = [h \in Hours |-> [r \in Rules |-> 0]]
    /\ holder = [h \in Hours |-> [r \in Rules |-> Null]]
    /\ skipped = [h \in Hours |-> [r \in Rules |-> 0]]
    /\ noticeKey = [h \in Hours |-> FALSE]
    /\ notices = [h \in Hours |-> 0]

-----------------------------------------------------------------------------
\* Mutant of AtLimit: one run more than the limit.
AtLimitAfter(window) == ran[window] > RUNS_PER_HOUR

\* _runs_since(org, window) >= RUNS_PER_HOUR. Counted within its own hour, so
\* no later hour has a row yet.
AtLimit(window) == ran[window] >= RUNS_PER_HOUR

\* The rule's trigger and conditions hold: count the hour's runs, then run it
\* or skip it.
Consider(p, r) ==
    /\ process[p] = Idle
    /\ process' = [process EXCEPT ![p] =
                     IF AtLimit(hour)
                     THEN [stage |-> "limited", rule |-> r, window |-> hour]
                     ELSE [stage |-> "running", rule |-> r]]
    /\ UNCHANGED <<hour, ran, skipRow, holder, skipped, noticeKey, notices>>

\* The run is over, done or failed: its row is written, at the time it is now.
WriteRun(p) ==
    /\ process[p].stage = "running"
    /\ process' = [process EXCEPT ![p] = Idle]
    /\ ran' = [ran EXCEPT ![hour] = @ + 1]
    /\ UNCHANGED <<hour, skipRow, holder, skipped, noticeKey, notices>>

\* The run breaks before its row is written, or its process is killed.
BreakRun(p) ==
    /\ process[p].stage = "running"
    /\ process' = [process EXCEPT ![p] = Idle]
    /\ UNCHANGED <<hour, ran, skipRow, holder, skipped, noticeKey, notices>>

-----------------------------------------------------------------------------
(* _skip. Its transaction's row is seen by others only once it commits.    *)

\* Mutant of NoSkipYet: the window is left out of the filter.
NoSkipEver(w) == w \in Hours /\ \A h \in Hours, r \in Rules : skipRow[h][r] = 0

\* The org has no skipped row for the window.
NoSkipYet(w) == \A r \in Rules : skipRow[w][r] = 0

FirstSkip(p) ==
    LET w == process[p].window IN
    /\ process[p].stage = "limited"
    /\ process' = [process EXCEPT ![p] =
          [stage |-> "skipping", rule |-> @.rule, window |-> w,
           first |-> NoSkipYet(w)]]
    /\ UNCHANGED <<hour, ran, skipRow, holder, skipped, noticeKey, notices>>

\* Mutant of RowFree: the row is read without FOR UPDATE.
RowAlwaysFree(w, r) == r \in Rules

\* Nobody else has the row locked or is inserting it (uniq_automation_skip_window).
RowFree(w, r) == holder[w][r] = Null

\* The count an existing row has; a row created takes 1 as if it had none.
CountRead(w, r) == skipRow[w][r]

LockRow(p) ==
    LET w == process[p].window
        r == process[p].rule
    IN  /\ process[p].stage = "skipping"
        /\ RowFree(w, r)
        /\ skipped[w][r] < MaxSkips
        /\ holder' = [holder EXCEPT ![w][r] = p]
        /\ process' = [process EXCEPT ![p] =
              [stage |-> "locked", rule |-> r, window |-> w, first |-> @.first,
               read |-> CountRead(w, r)]]
        /\ UNCHANGED <<hour, ran, skipRow, skipped, noticeKey, notices>>

\* The row is created with a count of 1 or saved with one more, and committed.
SaveRow(p) ==
    LET w == process[p].window
        r == process[p].rule
    IN  /\ process[p].stage = "locked"
        /\ skipRow' = [skipRow EXCEPT ![w][r] = process[p].read + 1]
        /\ skipped' = [skipped EXCEPT ![w][r] = @ + 1]
        /\ holder' = [holder EXCEPT ![w][r] = Null]
        /\ process' = [process EXCEPT ![p] =
              IF @.first THEN [stage |-> "notifying", window |-> w] ELSE Idle]
        /\ UNCHANGED <<hour, ran, noticeKey, notices>>

\* cache.add answers whether the key was not there yet.
NoticeDue(w) == ~noticeKey[w]

NotifyLimit(p) ==
    LET w == process[p].window IN
    /\ process[p].stage = "notifying"
    /\ process' = [process EXCEPT ![p] = Idle]
    /\ noticeKey' = [noticeKey EXCEPT ![w] = TRUE]
    /\ notices' = [notices EXCEPT ![w] = @ + (IF NoticeDue(w) THEN 1 ELSE 0)]
    /\ UNCHANGED <<hour, ran, skipRow, holder, skipped>>

-----------------------------------------------------------------------------
NextHour ==
    /\ hour < MaxHour
    /\ hour' = hour + 1
    /\ UNCHANGED <<process, ran, skipRow, holder, skipped, noticeKey, notices>>

Finish(p) == \/ WriteRun(p) \/ BreakRun(p) \/ FirstSkip(p)
             \/ LockRow(p) \/ SaveRow(p) \/ NotifyLimit(p)

Next == \/ \E p \in Processes : Finish(p) \/ \E r \in Rules : Consider(p, r)
        \/ NextHour

Spec == Init /\ [][Next]_vars

\* A process that began a rule carries it through.
FairSpec == Spec /\ \A p \in Processes : WF_vars(Finish(p))

-----------------------------------------------------------------------------
(* Properties.                                                             *)

Running == {p \in Processes : process[p].stage = "running"}

\* Counting before a run and recording after it lets concurrent processes
\* pass the limit, but by no more than one run each, however the hours turn.
OverrunBounded ==
    \A h \in Hours : ran[h] <= RUNS_PER_HOUR + Cardinality(Processes) - 1

\* No skip is lost or counted twice, whoever skips the same rule at once.
SkipsCounted == skipRow = skipped

\* The org's admins get at most one notice for an hour, though several
\* processes may each see no skipped row (engine.py, _skip).
OneLimitNotice == \A h \in Hours : notices[h] <= 1

\* An hour with a skipped run does get its notice.
SkipIsNoticed ==
    \A h \in Hours :
        (\E r \in Rules : skipRow[h][r] > 0) ~> (notices[h] > 0)

=============================================================================
