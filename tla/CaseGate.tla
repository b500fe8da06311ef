------------------------------ MODULE CaseGate ------------------------------
(***************************************************************************)
(* What may happen to one ticket's status: the approval a pre_close rule   *)
(* asks for, merging, reopening by a customer's reply, and the scan that   *)
(* escalates it. The board move, merge and unmerge hold the row's lock     *)
(* from read to save and are one step; an edit (PUT, PATCH, bulk, macro)   *)
(* reads without a lock and saves every column of its copy, a reply judges *)
(* a copy and updates by primary key, a scan saves the count it read, and  *)
(* nothing keeps the next scan from starting before it ends.               *)
(***************************************************************************)
EXTENDS Naturals

CONSTANTS Agents,      \* people; each may request and act on approvals
          Requests,    \* bound: approval rows there may ever be
          Editors,     \* bound: edits under way at once
          Replies,     \* bound: customer replies under way at once
          Scans,       \* bound: breach scans under way at once
          ESCALATION_COUNT_CAP,
          Null

ASSUME GateAssumption == ESCALATION_COUNT_CAP \in Nat

VARIABLES
    row,        \* the case row
    teamed,     \* the rule matches by what is not in the row: the ticket's teams,
                \* or the rule's own conditions as an admin last set them
    approval,   \* the approval rows of the ticket and the rule; by: who asked, while
                \* pending (nothing looks at it afterwards)
    asking,     \* agents whose request found no row pending
    edit,       \* per editor, the row the edit will save
    hearing,    \* replies that found the ticket closed
    scan,       \* per breach scan, the count it read
    late, raced,   \* history: see ClosedWasApproved and DuplicateIffMerged
    alone       \* history: escalations neither an edit nor another scan overlapped

vars == <<row, teamed, approval, asking, edit, hearing, scan, late, raced, alone>>

\* "Open" stands for New, Assigned and Pending.
Statuses == {"Open", "Closed", "Rejected", "Duplicate"}

\* tight: the rule matches by priority and type; prior: in merge_record.
Rows == [status : Statuses, tight : BOOLEAN, merged : BOOLEAN, prior : Statuses,
         count : 0..ESCALATION_COUNT_CAP]

States == {"none", "pending", "approved", "rejected", "cancelled"}

TypeOK ==
    /\ row \in Rows
    /\ approval \in [Requests -> [state : States, by : Agents \cup {Null}]]
    /\ asking \subseteq Agents
    /\ edit \in [Editors -> Rows \cup {Null}]
    /\ hearing \subseteq Replies
    /\ scan \in [Scans -> 0..ESCALATION_COUNT_CAP \cup {Null}]
    /\ {teamed, late, raced} \subseteq BOOLEAN
    /\ alone \in Nat

Init ==
    /\ row = [status |-> "Open", tight |-> FALSE, merged |-> FALSE,
              prior |-> "Open", count |-> 0]
    /\ approval = [r \in Requests |-> [state |-> "none", by |-> Null]]
    /\ asking = {} /\ hearing = {}
    /\ edit = [e \in Editors |-> Null] /\ scan = [s \in Scans |-> Null]
    /\ teamed = FALSE
    /\ late = FALSE /\ raced = FALSE /\ alone = 0
-----------------------------------------------------------------------------
(* The gates every write of a status takes *)

Approved == \E r \in Requests : approval[r].state = "approved"

\* ApprovalRule.matches, by the values a write would leave.
Matches(r) == r.tight \/ teamed

\* close_refusal: only the move into Closed is judged.
MayClose(old, new) ==
    new.status = "Closed" /\ old.status # "Closed" => ~Matches(new) \/ Approved

\* Mutant of MayMove: the rule for merged tickets is forgotten.
MayMoveMerged(old, new) == new.status = "Duplicate" => old.status = "Duplicate"

\* merged_status_refusal and duplicate_refusal: a merged ticket's status does not
\* move, and only a merge makes a Duplicate.
MayMove(old, new) ==
    /\ old.merged => new.status = old.status
    /\ new.status = "Duplicate" => old.status = "Duplicate"

\* Board move: the row judged is the row saved.
Move ==
    /\ \E status \in Statuses \ {row.status} :
         LET new == [row EXCEPT !.status = status]
         IN  MayMove(row, new) /\ MayClose(row, new) /\ row' = new
    /\ UNCHANGED <<teamed, approval, asking, edit, hearing, scan, late, raced, alone>>

\* The row is past the gate: closed, or merged and to come back as it was.
PastGate(r) == r.status = "Closed" \/ r.merged

\* An edit reads the row and judges what it would leave of the copy,
Edit(e) ==
    /\ edit[e] = Null
    /\ \E status \in Statuses, tight \in BOOLEAN :
         LET new == [row EXCEPT !.status = status, !.tight = tight]
         IN  /\ MayMove(row, new) /\ MayClose(row, new)
             /\ edit' = [edit EXCEPT ![e] = new]
             /\ late' = (late \/ (tight /\ PastGate(row)))
    /\ UNCHANGED <<row, teamed, approval, asking, hearing, scan, raced, alone>>

\* and saves every column of it, whatever became of the row.
SaveEdit(e) ==
    /\ edit[e] # Null
    /\ row' = edit[e]
    /\ edit' = [edit EXCEPT ![e] = Null]
    /\ UNCHANGED <<teamed, approval, asking, hearing, scan, late, raced, alone>>

\* An edit that a later check refuses, or that dies.
DropEdit(e) ==
    /\ edit[e] # Null
    /\ edit' = [edit EXCEPT ![e] = Null]
    /\ UNCHANGED <<row, teamed, approval, asking, hearing, scan, late, raced, alone>>

\* An edit replaces the ticket's teams after its row is saved, the gate having judged
\* those it had, or an admin changes the rule: neither asks whether it is closed.
SetTeams ==
    /\ teamed' = ~teamed
    /\ late' = (late \/ PastGate(row)
                     \/ \E e \in Editors : edit[e] # Null /\ PastGate(edit[e]))
    /\ UNCHANGED <<row, approval, asking, edit, hearing, scan, raced, alone>>
-----------------------------------------------------------------------------
(* Approvals *)

\* A request finds that the rule matches and that no row is pending (it locks those
\* it finds; there is none to lock),
Ask(a) ==
    /\ a \notin asking
    /\ Matches(row)
    /\ \A r \in Requests : approval[r].state # "pending"
    /\ asking' = asking \cup {a}
    /\ UNCHANGED <<row, teamed, approval, edit, hearing, scan, late, raced, alone>>

\* and inserts one.
File(a, r) ==
    /\ a \in asking /\ approval[r].state = "none"
    /\ approval' = [approval EXCEPT ![r] = [state |-> "pending", by |-> a]]
    /\ asking' = asking \ {a}
    /\ UNCHANGED <<row, teamed, edit, hearing, scan, late, raced, alone>>

\* Approve or reject, under the approval row's lock, by another than who asked.
Decide(a, r) ==
    /\ approval[r].state = "pending" /\ approval[r].by # a
    /\ \E state \in {"approved", "rejected"} :
         approval' = [approval EXCEPT ![r] = [state |-> state, by |-> Null]]
    /\ UNCHANGED <<row, teamed, asking, edit, hearing, scan, late, raced, alone>>

\* Mutant of CancelRequest: an approval can be withdrawn too.
CancelDecided(r) ==
    /\ approval[r].state \in {"pending", "approved"}
    /\ approval' = [approval EXCEPT ![r] = [state |-> "cancelled", by |-> Null]]
    /\ UNCHANGED <<row, teamed, asking, edit, hearing, scan, late, raced, alone>>

\* Withdrawn by who asked, or by an admin.
CancelRequest(r) ==
    /\ approval[r].state = "pending"
    /\ approval' = [approval EXCEPT ![r] = [state |-> "cancelled", by |-> Null]]
    /\ UNCHANGED <<row, teamed, asking, edit, hearing, scan, late, raced, alone>>
-----------------------------------------------------------------------------
(* Merging, reopening, escalating *)

\* Merged into another ticket, whatever its status was,
Merge ==
    /\ ~row.merged
    /\ row' = [row EXCEPT !.status = "Duplicate", !.merged = TRUE, !.prior = row.status]
    /\ UNCHANGED <<teamed, approval, asking, edit, hearing, scan, late, raced, alone>>

\* which an unmerge gives back, past every gate.
Unmerge ==
    /\ row.merged
    /\ row' = [row EXCEPT !.status = row.prior, !.merged = FALSE, !.prior = "Open"]
    /\ UNCHANGED <<teamed, approval, asking, edit, hearing, scan, late, raced, alone>>

\* A customer's reply reads the ticket closed and not merged,
Hear(c) ==
    /\ c \notin hearing
    /\ row.status = "Closed" /\ ~row.merged
    /\ hearing' = hearing \cup {c}
    /\ UNCHANGED <<row, teamed, approval, asking, edit, scan, late, raced, alone>>

\* and reopens it by primary key, whatever it has become.
Reopen(c) ==
    /\ c \in hearing
    /\ hearing' = hearing \ {c}
    /\ row' = [row EXCEPT !.status = "Open"]
    /\ raced' = (raced \/ row.merged)
    /\ UNCHANGED <<teamed, approval, asking, edit, scan, late, alone>>

\* Mutant of InScope: one more than the cap.
InScopeAtCap == row.status = "Open" /\ row.count <= ESCALATION_COUNT_CAP

\* _scan_org's candidates (past an SLA target, as this ticket is).
InScope == row.status = "Open" /\ row.count < ESCALATION_COUNT_CAP

\* Each scan lists the tickets without a lock (beat starts one every five minutes),
ScanReads(s) ==
    /\ scan[s] = Null /\ InScope
    /\ scan' = [scan EXCEPT ![s] = row.count]
    /\ UNCHANGED <<row, teamed, approval, asking, edit, hearing, late, raced, alone>>

\* Something else is under way that read the row's count and will save it.
Overlapped(s) == \/ \E e \in Editors : edit[e] # Null
                 \/ \E t \in Scans \ {s} : scan[t] # Null

\* and, when it comes to this one, notifies or reassigns and saves the count alone,
\* one more than it was when listed.
Escalate(s) ==
    /\ scan[s] # Null
    /\ row' = [row EXCEPT !.count = scan[s] + 1]
    /\ alone' = IF Overlapped(s) THEN alone ELSE alone + 1
    /\ scan' = [scan EXCEPT ![s] = Null]
    /\ UNCHANGED <<teamed, approval, asking, edit, hearing, late, raced>>

\* No policy or target is set for it, or the worker died.
PassOver(s) ==
    /\ scan[s] # Null
    /\ scan' = [scan EXCEPT ![s] = Null]
    /\ UNCHANGED <<row, teamed, approval, asking, edit, hearing, late, raced, alone>>
-----------------------------------------------------------------------------
Next ==
    \/ Move \/ SetTeams \/ Merge \/ Unmerge
    \/ \E s \in Scans : ScanReads(s) \/ Escalate(s) \/ PassOver(s)
    \/ \E e \in Editors : Edit(e) \/ SaveEdit(e) \/ DropEdit(e)
    \/ \E c \in Replies : Hear(c) \/ Reopen(c)
    \/ \E r \in Requests : CancelRequest(r) \/ \E a \in Agents : File(a, r) \/ Decide(a, r)
    \/ \E a \in Agents : Ask(a)

Spec == Init /\ [][Next]_vars
-----------------------------------------------------------------------------
(* Properties *)

\* A closed ticket the rule matches has an approval, whatever was moved, edited,
\* merged, reopened and saved over, unless it came under the rule when it was past
\* the gate (`late`): by an edit of a copy that was, or by its teams or the rule
\* changing when it was, or an edit was about to make it so (close_refusal judges
\* the move into Closed alone).
ClosedWasApproved == row.status = "Closed" /\ Matches(row) /\ ~late => Approved

\* A ticket is Duplicate exactly while it is merged, unless a reply that had found
\* it closed reopened it after the merge (`raced`): "a merged ticket's status is not
\* changed by anything but an unmerge" (signals.py 605).
DuplicateIffMerged == ~raced => (row.status = "Duplicate" <=> row.merged)

\* Past the cap the ticket is not escalated again (tasks.py 52): of the escalations
\* neither an edit of it nor another scan overlapped, there are at most
\* ESCALATION_COUNT_CAP. (An edit under way writes the old count back, and a scan
\* under way saves its own old count and one: what that loses is sent again.)
EscalationsCapped == alone <= ESCALATION_COUNT_CAP
=============================================================================
