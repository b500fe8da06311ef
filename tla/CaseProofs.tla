----------------------------- MODULE CaseProofs ------------------------------
(***************************************************************************)
(* CaseGate for any numbers of agents, requests, edits, replies and scans  *)
(* and any cap. An edit saves a copy of the row long after it was judged, so the   *)
(* inductive invariant says of every copy under way what it says of the    *)
(* row, and of a merged ticket what it will be when it comes back.         *)
(***************************************************************************)
EXTENDS CaseGate, CaseMerge, Integers, TLAPS

\* Closed, or merged and to come back so.
ToBeClosed(r) == r.status = "Closed" \/ (r.merged /\ r.prior = "Closed")

\* No copy is closed against its rule,
GateHolds(r) == ToBeClosed(r) /\ Matches(r) /\ ~late => Approved

\* forgets a merge, or remembers a Duplicate that was none,
MergeHolds(r) == ~raced => /\ r.status = "Duplicate" <=> r.merged
                           /\ r.prior # "Duplicate"

\* or would put the count back below the escalations sent.
Sound(r) == GateHolds(r) /\ MergeHolds(r) /\ alone <= r.count

\* No scan under way read less than those counted, or the cap.
ScanHolds == \A s \in Scans :
    scan[s] # Null => alone <= scan[s] /\ scan[s] < ESCALATION_COUNT_CAP

IInv ==
    /\ TypeOK
    /\ Sound(row)
    /\ \A e \in Editors : edit[e] # Null => Sound(edit[e])
    /\ ScanHolds

LEMMA InitIInv == Init => IInv
<1> SUFFICES ASSUME Init PROVE IInv
  OBVIOUS
<1>1. row \in Rows
  BY GateAssumption DEF Init, Rows, Statuses
<1>2. TypeOK
  BY <1>1 DEF Init, TypeOK, States
<1>3. Sound(row)
  BY DEF Init, Sound, GateHolds, MergeHolds, ToBeClosed
<1>4. QED
  BY <1>2, <1>3 DEF Init, IInv, ScanHolds

\* Whatever is written, an approval given stays given.
LEMMA ApprovalStays == ASSUME TypeOK, [Next]_vars PROVE Approved => Approved'
<1> SUFFICES ASSUME NEW r \in Requests, approval[r].state = "approved"
             PROVE  approval'[r].state = "approved"
  BY DEF Approved
<1> USE DEF TypeOK
<1>1. CASE UNCHANGED approval
  BY <1>1
<1>2. CASE \E q \in Requests : CancelRequest(q)
  BY <1>2 DEF CancelRequest
<1>3. CASE \E a \in Agents, q \in Requests : File(a, q) \/ Decide(a, q)
  BY <1>3 DEF File, Decide
<1>4. QED
  BY <1>1, <1>2, <1>3 DEF Next, vars, Move, SetTeams, Merge, Unmerge, ScanReads,
     Escalate, PassOver, Edit, SaveEdit, DropEdit, Hear, Reopen, Ask

-----------------------------------------------------------------------------
\* The copies under way stay sound when neither they nor what judges them moves.
LEMMA CopiesStay ==
    ASSUME IInv, UNCHANGED <<edit, teamed, late, alone>>,
           Approved => Approved', raced => raced'
    PROVE  \A e \in Editors : edit'[e] # Null => Sound(edit[e])'
  BY DEF IInv, Sound, GateHolds, MergeHolds, ToBeClosed, Matches

\* So does everything when only the approvals, the requests or the scan move.
LEMMA RowStays ==
    ASSUME IInv, TypeOK', UNCHANGED <<row, edit, teamed, late, raced, alone>>,
           Approved => Approved', ScanHolds'
    PROVE  IInv'
<1>1. Sound(row)'
  BY DEF IInv, Sound, GateHolds, MergeHolds, ToBeClosed, Matches
<1>2. QED
  BY <1>1, CopiesStay DEF IInv

\* A write of the row under its lock: what it leaves must be sound.
LEMMA RowMoves ==
    ASSUME IInv, TypeOK', UNCHANGED <<edit, scan, teamed, late, alone>>,
           Approved => Approved', raced => raced', Sound(row)'
    PROVE  IInv'
  BY CopiesStay DEF IInv, ScanHolds

LEMMA MoveKeeps == ASSUME IInv, Move, TypeOK' PROVE IInv'
<1>1. PICK status \in Statuses \ {row.status} :
        LET new == [row EXCEPT !.status = status]
        IN  MayMove(row, new) /\ MayClose(row, new) /\ row' = new
  BY DEF Move
<1>2. UNCHANGED <<teamed, approval, edit, scan, late, raced, alone>>
  BY DEF Move
<1>3. row \in Rows /\ Sound(row)
  BY DEF IInv, TypeOK
<1>4. Approved' <=> Approved
  BY <1>2 DEF Approved
<1>5. Sound(row)'
  BY <1>1, <1>2, <1>3, <1>4 DEF Rows, MayMove, MayClose, Sound, GateHolds, MergeHolds,
     ToBeClosed, Matches
<1>6. QED
  BY <1>2, <1>4, <1>5, RowMoves

LEMMA MergeKeeps == ASSUME IInv, Merge \/ Unmerge, TypeOK' PROVE IInv'
<1>1. UNCHANGED <<teamed, approval, edit, scan, late, raced, alone>>
  BY DEF Merge, Unmerge
<1>2. row \in Rows /\ Sound(row)
  BY DEF IInv, TypeOK
<1>3. Approved' <=> Approved
  BY <1>1 DEF Approved
<1>4. CASE Merge
  <2>1. Sound(row)'
    BY <1>1, <1>2, <1>3, <1>4 DEF Merge, Rows, Sound, GateHolds, MergeHolds, ToBeClosed,
       Matches
  <2>2. QED
    BY <1>1, <1>3, <2>1, RowMoves
<1>5. CASE Unmerge
  <2>1. Sound(row)'
    BY <1>1, <1>2, <1>3, <1>5 DEF Unmerge, Rows, Sound, GateHolds, MergeHolds, ToBeClosed,
       Matches
  <2>2. QED
    BY <1>1, <1>3, <2>1, RowMoves
<1>6. QED
  BY <1>4, <1>5

LEMMA ReopenKeeps ==
    ASSUME IInv, NEW c \in Replies, Reopen(c), TypeOK' PROVE IInv'
<1>1. /\ row' = [row EXCEPT !.status = "Open"] /\ raced' = (raced \/ row.merged)
      /\ UNCHANGED <<teamed, approval, edit, scan, late, alone>>
  BY DEF Reopen
<1>2. row \in Rows /\ Sound(row)
  BY DEF IInv, TypeOK
<1>3. Approved' <=> Approved
  BY <1>1 DEF Approved
<1>4. Sound(row)'
  BY <1>1, <1>2, <1>3 DEF Rows, Sound, GateHolds, MergeHolds, ToBeClosed, Matches
<1>5. QED
  BY <1>1, <1>3, <1>4, RowMoves

\* The copy an edit reads and judges is sound: if it brings the ticket under the rule
\* past the gate the history says so, and else the row was under it already.
LEMMA EditKeeps == ASSUME IInv, NEW e \in Editors, Edit(e), TypeOK' PROVE IInv'
<1>1. PICK status \in Statuses, tight \in BOOLEAN :
        LET new == [row EXCEPT !.status = status, !.tight = tight]
        IN  /\ MayMove(row, new) /\ MayClose(row, new)
            /\ edit' = [edit EXCEPT ![e] = new]
            /\ late' = (late \/ (tight /\ PastGate(row)))
  BY DEF Edit
<1> DEFINE new == [row EXCEPT !.status = status, !.tight = tight]
<1>2. UNCHANGED <<row, teamed, approval, scan, raced, alone>> /\ (late => late')
  BY <1>1 DEF Edit
<1>3. row \in Rows /\ Sound(row) /\ edit \in [Editors -> Rows \cup {Null}]
  BY DEF IInv, TypeOK
<1>4. Approved' <=> Approved
  BY <1>2 DEF Approved
<1>5. Sound(row)'
  BY <1>2, <1>3, <1>4 DEF Sound, GateHolds, MergeHolds, ToBeClosed, Matches
<1>6. ASSUME NEW f \in Editors, edit'[f] # Null PROVE Sound(edit[f])'
  <2>1. CASE f = e
    <3>1. edit'[f] = new
      BY <1>1, <1>3, <2>1
    <3>2. GateHolds(edit[f])'
      BY <1>1, <1>2, <1>3, <1>4, <3>1
         DEF Rows, Sound, GateHolds, ToBeClosed, Matches, MayMove, MayClose, PastGate
    <3>3. MergeHolds(edit[f])' /\ alone' <= edit'[f].count
      BY <1>1, <1>2, <1>3, <3>1 DEF Rows, Sound, MergeHolds, MayMove
    <3>4. QED
      BY <3>2, <3>3 DEF Sound
  <2>2. CASE f # e
    <3>1. edit'[f] = edit[f] /\ Sound(edit[f])
      BY <1>1, <1>3, <1>6, <2>2 DEF IInv
    <3>2. QED
      BY <3>1, <1>2, <1>4 DEF Sound, GateHolds, MergeHolds, ToBeClosed, Matches
  <2>3. QED
    BY <2>1, <2>2
<1>7. QED
  BY <1>2, <1>5, <1>6 DEF IInv, ScanHolds

\* Saving a sound copy leaves a sound row.
LEMMA SaveKeeps ==
    ASSUME IInv, NEW e \in Editors, SaveEdit(e) \/ DropEdit(e), TypeOK' PROVE IInv'
<1>1. /\ UNCHANGED <<teamed, approval, scan, late, raced, alone>>
      /\ edit[e] # Null /\ edit' = [edit EXCEPT ![e] = Null]
      /\ row' = row \/ row' = edit[e]
  BY DEF SaveEdit, DropEdit
<1>2. edit \in [Editors -> Rows \cup {Null}]
  BY DEF IInv, TypeOK
<1>3. Approved' <=> Approved
  BY <1>1 DEF Approved
<1>4. Sound(row)'
  <2>1. PICK r \in {row, edit[e]} : row' = r /\ Sound(r)
    BY <1>1 DEF IInv
  <2>2. QED
    BY <1>1, <1>3, <2>1 DEF Sound, GateHolds, MergeHolds, ToBeClosed, Matches
<1>5. ASSUME NEW f \in Editors, edit'[f] # Null PROVE Sound(edit[f])'
  <2>1. edit'[f] = edit[f] /\ Sound(edit[f])
    BY <1>1, <1>2, <1>5 DEF IInv
  <2>2. QED
    BY <1>1, <1>3, <2>1 DEF Sound, GateHolds, MergeHolds, ToBeClosed, Matches
<1>6. QED
  BY <1>1, <1>4, <1>5 DEF IInv, ScanHolds

\* The teams or the rule change: were any copy past the gate, the history says so.
LEMMA TeamsKeep == ASSUME IInv, SetTeams, TypeOK' PROVE IInv'
<1>1. UNCHANGED <<row, approval, edit, scan, raced, alone>>
  BY DEF SetTeams
<1>2. ASSUME NEW r, Sound(r), PastGate(r) => late'
      PROVE  GateHolds(r)' /\ MergeHolds(r)' /\ alone' <= r.count
  BY <1>1, <1>2 DEF Sound, GateHolds, MergeHolds, ToBeClosed, PastGate
<1>3. Sound(row)'
  <2>1. PICK r : r = row /\ Sound(r) /\ (PastGate(r) => late')
    BY DEF IInv, SetTeams
  <2>2. QED
    BY <1>1, <1>2, <2>1 DEF Sound, GateHolds, MergeHolds, ToBeClosed, Matches
<1>4. ASSUME NEW e \in Editors, edit'[e] # Null PROVE Sound(edit[e])'
  <2>1. PICK r : r = edit[e] /\ Sound(r) /\ (PastGate(r) => late')
    BY <1>1, <1>4 DEF IInv, SetTeams
  <2>2. QED
    BY <1>1, <1>2, <2>1 DEF Sound, GateHolds, MergeHolds, ToBeClosed, Matches
<1>5. QED
  BY <1>1, <1>3, <1>4 DEF IInv, ScanHolds

\* An escalation that nothing overlaps is counted; one that is overlapped is not, and
\* the copy or the scan that will put the count back holds no less than those that are.
LEMMA EscalateKeeps ==
    ASSUME IInv, NEW s \in Scans, Escalate(s), TypeOK' PROVE IInv'
<1>1. /\ scan[s] # Null
      /\ row' = [row EXCEPT !.count = scan[s] + 1] /\ scan' = [scan EXCEPT ![s] = Null]
      /\ UNCHANGED <<teamed, approval, edit, late, raced>>
  BY DEF Escalate
<1>2. /\ row \in Rows /\ Sound(row)
      /\ scan \in [Scans -> 0..ESCALATION_COUNT_CAP \cup {Null}]
      /\ scan[s] \in Nat /\ alone \in Nat /\ alone <= scan[s]
  BY <1>1, GateAssumption DEF IInv, TypeOK, ScanHolds
<1>3. Approved' <=> Approved
  BY <1>1 DEF Approved
<1>4. alone' <= scan[s] + 1
  BY <1>2 DEF Escalate
<1>5. Sound(row)'
  BY <1>1, <1>2, <1>3, <1>4 DEF Rows, Sound, GateHolds, MergeHolds, ToBeClosed, Matches
<1>6. ASSUME NEW e \in Editors, edit'[e] # Null PROVE Sound(edit[e])'
  <2>1. alone' = alone /\ edit' = edit /\ Sound(edit[e])
    BY <1>1, <1>6 DEF Escalate, Overlapped, IInv
  <2>2. QED
    BY <1>1, <1>3, <2>1 DEF Sound, GateHolds, MergeHolds, ToBeClosed, Matches
<1>7. ScanHolds'
  <2>1. SUFFICES ASSUME NEW t \in Scans, scan'[t] # Null
                 PROVE  alone' <= scan'[t] /\ scan'[t] < ESCALATION_COUNT_CAP
    BY DEF ScanHolds
  <2>2. t # s /\ scan'[t] = scan[t]
    BY <1>1, <1>2, <2>1
  <2>3. alone' = alone
    BY <2>1, <2>2 DEF Escalate, Overlapped
  <2>4. QED
    BY <2>1, <2>2, <2>3 DEF IInv, ScanHolds
<1>8. QED
  BY <1>5, <1>6, <1>7 DEF IInv

-----------------------------------------------------------------------------
LEMMA TypeStep == ASSUME TypeOK, ScanHolds, [Next]_vars PROVE TypeOK'
<1> USE GateAssumption DEF TypeOK
<1>1. CASE UNCHANGED vars
  BY <1>1 DEF vars
<1>2. CASE Move \/ Merge \/ Unmerge
  <2>1. row' \in Rows
    BY <1>2 DEF Move, Merge, Unmerge, Rows, Statuses
  <2>2. QED
    BY <1>2, <2>1 DEF Move, Merge, Unmerge
<1>3. CASE SetTeams
  BY <1>3 DEF SetTeams
<1>4. CASE \E s \in Scans : ScanReads(s) \/ PassOver(s)
  BY <1>4 DEF ScanReads, PassOver, Rows
<1>5. CASE \E s \in Scans : Escalate(s)
  <2>1. PICK s \in Scans : Escalate(s)
    BY <1>5
  <2>2. /\ scan[s] \in Nat /\ scan[s] < ESCALATION_COUNT_CAP
        /\ row' = [row EXCEPT !.count = scan[s] + 1]
    BY <2>1 DEF Escalate, ScanHolds
  <2>3. row' \in Rows
    BY <2>2 DEF Rows
  <2>4. QED
    BY <2>1, <2>3 DEF Escalate
<1>6. CASE \E e \in Editors : Edit(e)
  <2>1. PICK e \in Editors, status \in Statuses, tight \in BOOLEAN :
          /\ edit' = [edit EXCEPT ![e] = [row EXCEPT !.status = status, !.tight = tight]]
          /\ late' = (late \/ (tight /\ PastGate(row)))
          /\ UNCHANGED <<row, teamed, approval, asking, hearing, scan, raced, alone>>
    BY <1>6 DEF Edit
  <2>2. [row EXCEPT !.status = status, !.tight = tight] \in Rows
    BY <2>1 DEF Rows
  <2>3. edit' \in [Editors -> Rows \cup {Null}]
    BY <2>1, <2>2
  <2>4. late' \in BOOLEAN
    BY <2>1 DEF PastGate
  <2>5. QED
    BY <2>1, <2>3, <2>4
<1>7. CASE \E e \in Editors : SaveEdit(e) \/ DropEdit(e)
  BY <1>7 DEF SaveEdit, DropEdit
<1>8. CASE \E c \in Replies : Hear(c) \/ Reopen(c)
  BY <1>8 DEF Hear, Reopen, Rows, Statuses
<1>9. CASE \E r \in Requests : CancelRequest(r) \/ \E a \in Agents : File(a, r) \/ Decide(a, r)
  BY <1>9 DEF CancelRequest, File, Decide, States
<1>10. CASE \E a \in Agents : Ask(a)
  BY <1>10 DEF Ask
<1>11. QED
  BY <1>1, <1>2, <1>3, <1>4, <1>5, <1>6, <1>7, <1>8, <1>9, <1>10 DEF Next

LEMMA NextKeeps == ASSUME IInv, [Next]_vars PROVE IInv'
<1>1. TypeOK' /\ (Approved => Approved')
  BY TypeStep, ApprovalStays DEF IInv
<1>2. CASE UNCHANGED vars
  BY <1>1, <1>2, RowStays DEF vars, IInv, ScanHolds
<1>3. CASE Move \/ Merge \/ Unmerge
  BY <1>1, <1>3, MoveKeeps, MergeKeeps
<1>4. CASE SetTeams \/ \E s \in Scans : Escalate(s)
  BY <1>1, <1>4, TeamsKeep, EscalateKeeps
<1>5. CASE \E s \in Scans : ScanReads(s) \/ PassOver(s)
  <2>1. ScanHolds'
    BY <1>5, GateAssumption
       DEF ScanReads, PassOver, InScope, ScanHolds, IInv, Sound, TypeOK, Rows
  <2>2. QED
    BY <1>1, <1>5, <2>1, RowStays DEF ScanReads, PassOver
<1>6. CASE \E e \in Editors : Edit(e) \/ SaveEdit(e) \/ DropEdit(e)
  BY <1>1, <1>6, EditKeeps, SaveKeeps
<1>7. CASE \E c \in Replies : Reopen(c)
  BY <1>1, <1>7, ReopenKeeps
<1>8. CASE \E c \in Replies : Hear(c)
  BY <1>1, <1>8, RowStays DEF Hear, IInv, ScanHolds
<1>9. CASE \E r \in Requests : CancelRequest(r) \/ \E a \in Agents : File(a, r) \/ Decide(a, r)
  BY <1>1, <1>9, RowStays DEF CancelRequest, File, Decide, IInv, ScanHolds
<1>10. CASE \E a \in Agents : Ask(a)
  BY <1>1, <1>10, RowStays DEF Ask, IInv, ScanHolds
<1>11. QED
  BY <1>2, <1>3, <1>4, <1>5, <1>6, <1>7, <1>8, <1>9, <1>10 DEF Next

LEMMA AlwaysIInv == Spec => []IInv
<1>1. IInv /\ [Next]_vars => IInv'
  BY NextKeeps
<1>2. QED
  BY InitIInv, <1>1, PTL DEF Spec

\* Every row and copy stays within its type, the count within its cap.
THEOREM TypeCorrect == Spec => []TypeOK
<1>1. IInv => TypeOK
  BY DEF IInv
<1>2. QED
  BY AlwaysIInv, <1>1, PTL

\* No ticket the rule matches is closed without an approval, but one the rule came to
\* match past the gate (cases/approvals.py, `close_refusal`).
THEOREM ClosedWasApprovedAlways == Spec => []ClosedWasApproved
<1>1. IInv => ClosedWasApproved
  BY DEF IInv, Sound, GateHolds, ToBeClosed, ClosedWasApproved
<1>2. QED
  BY AlwaysIInv, <1>1, PTL

\* Merged and Duplicate go together, until a reply that races a merge
\* (cases/workflow.py, `merged_status_refusal` and `duplicate_refusal`).
THEOREM DuplicateIffMergedAlways == Spec => []DuplicateIffMerged
<1>1. IInv => DuplicateIffMerged
  BY DEF IInv, Sound, MergeHolds, DuplicateIffMerged
<1>2. QED
  BY AlwaysIInv, <1>1, PTL

\* However many scans are under way, a ticket is escalated at most ESCALATION_COUNT_CAP
\* times, but for the escalations an edit or another scan overlapped (cases/tasks.py,
\* `_scan_org`).
THEOREM EscalationsCappedAlways == Spec => []EscalationsCapped
<1>1. IInv => EscalationsCapped
  BY GateAssumption DEF IInv, Sound, TypeOK, Rows, EscalationsCapped
<1>2. QED
  BY AlwaysIInv, <1>1, PTL

\* An approval given is never taken back (cases/approval_views.py: only a pending row
\* is decided or withdrawn).
THEOREM ApprovalIsKept == Spec => [][Approved => Approved']_vars
<1>1. IInv /\ [Next]_vars => [Approved => Approved']_vars
  BY ApprovalStays DEF IInv
<1>2. QED
  BY AlwaysIInv, <1>1, PTL DEF Spec

-----------------------------------------------------------------------------
(***************************************************************************)
(* CaseMerge for any numbers of tickets, emails and edits. Merges chain,   *)
(* so where a ticket's messages are is the end of a route; a merge knows   *)
(* only the messages it moved itself. The inductive invariant says that    *)
(* the two agree: the tickets a ticket's messages were moved off are       *)
(* exactly those on the route, and the route ends where the messages are.  *)
(***************************************************************************)

\* In rows tk, the route w of n merges takes x's messages to where they are, home.
Route(tk, home, x, n, w) ==
    /\ w[0] = x
    /\ \A i, j \in 0 .. n : w[i] = w[j] => i = j
    /\ \A i \in 0 .. n : i < n => tk[w[i]].into = w[i + 1]
    /\ tk[w[n]].into = None
    /\ home = w[n]
    /\ \A s \in Tickets :
          (tk[s].into # None /\ x \in tk[s].moved) <=> \E i \in 0 .. n : i < n /\ w[i] = s

Routed(x) ==
    \E n \in Nat : \E w \in [0 .. n -> Tickets] : Route(ticket, content[x], x, n, w)

\* Email is filed, or about to be, where its ticket's messages are.
InSight(m) == /\ content[m] # None => ticket[content[m]].into = None
              /\ finding[m] # None => ticket[finding[m]].into = None

MInv ==
    /\ MergeTypeOK
    /\ \A x \in Tickets \ torn : Routed(x)
    /\ \A m \in Mails \ torn : InSight(m)

\* A ticket on a route is its end exactly when it is not merged.
LEMMA RootIsEnd ==
    ASSUME NEW x \in Tickets, NEW n \in Nat, NEW w \in [0 .. n -> Tickets],
           Route(ticket, content[x], x, n, w), NEW i \in 0 .. n
    PROVE  /\ ticket[w[i]].into = None <=> i = n
           /\ ticket[content[x]].into = None /\ content[x] \in Tickets
<1>1. i < n => ticket[w[i]].into \in Tickets
  <2>1. i < n => ticket[w[i]].into = w[i + 1] /\ i + 1 \in 0 .. n
    BY DEF Route
  <2>2. QED
    BY <2>1
<1>2. ticket[w[n]].into = None /\ content[x] = w[n] /\ n \in 0 .. n
  BY DEF Route
<1>3. i < n \/ i = n
  OBVIOUS
<1>4. QED
  BY <1>1, <1>2, <1>3, MergeAssumption

\* Rows that change off the route, without claiming x's messages, leave it as it is.
LEMMA RouteStays ==
    ASSUME NEW x \in Tickets, NEW n \in Nat, NEW w \in [0 .. n -> Tickets],
           Route(ticket, content[x], x, n, w), content'[x] = content[x],
           \A i \in 0 .. n : ticket'[w[i]] = ticket[w[i]],
           \A s \in Tickets : \/ ticket'[s] = ticket[s]
                              \/ /\ \A i \in 0 .. n : w[i] # s
                                 /\ ticket'[s].into = None \/ x \notin ticket'[s].moved
    PROVE  Routed(x)'
<1>1. n \in 0 .. n
  OBVIOUS
<1>2. ASSUME NEW s \in Tickets
      PROVE  (ticket'[s].into # None /\ x \in ticket'[s].moved)
               <=> \E i \in 0 .. n : i < n /\ w[i] = s
  <2>1. CASE ticket'[s] = ticket[s]
    BY <2>1 DEF Route
  <2>2. CASE ticket'[s] # ticket[s]
    BY <2>2
  <2>3. QED
    BY <2>1, <2>2
<1>3. Route(ticket', content'[x], x, n, w)
  BY <1>1, <1>2 DEF Route
<1>4. QED
  BY <1>3 DEF Routed

\* A merge of the end of the route adds a stage to it.
LEMMA RouteGrows ==
    ASSUME MergeTypeOK, NEW s \in Tickets, NEW t \in Tickets, MergeTicket(s, t),
           NEW x \in Tickets, NEW n \in Nat, NEW w \in [0 .. n -> Tickets],
           Route(ticket, content[x], x, n, w), content[x] = s
    PROVE  Routed(x)'
<1> DEFINE v == [i \in 0 .. n + 1 |-> IF i = n + 1 THEN t ELSE w[i]]
<1>1. n + 1 \in Nat /\ v \in [0 .. n + 1 -> Tickets] /\ v[n + 1] = t
  OBVIOUS
<1>2. ASSUME NEW i \in 0 .. n PROVE v[i] = w[i] /\ i \in 0 .. n + 1
  OBVIOUS
<1>3. /\ ticket[s].into = None /\ ticket[t].into = None /\ s # t
      /\ ticket' = [ticket EXCEPT ![s] = [into |-> t, moved |-> On(s)]]
      /\ content' = [m \in Messages |-> IF m \in On(s) THEN t ELSE content[m]]
  BY DEF MergeTicket, MoveMessages
<1>4. w[n] = s /\ x \in On(s) /\ x \in Messages
  BY DEF Route, On, Messages
<1>5. /\ ticket'[s] = [into |-> t, moved |-> On(s)] /\ content'[x] = t
      /\ \A u \in Tickets : u # s => ticket'[u] = ticket[u]
  BY <1>3, <1>4 DEF MergeTypeOK
<1>6. ASSUME NEW i \in 0 .. n PROVE w[i] # t /\ (w[i] = s <=> i = n)
  <2>1. ticket[w[i]].into = None <=> i = n
    BY RootIsEnd
  <2>2. QED
    BY <2>1, <1>3, <1>4
<1>7. \A i, j \in 0 .. n + 1 : v[i] = v[j] => i = j
  <2>1. ASSUME NEW i \in 0 .. n + 1, NEW j \in 0 .. n + 1, v[i] = v[j] PROVE i = j
    <3>1. (i \in 0 .. n \/ i = n + 1) /\ (j \in 0 .. n \/ j = n + 1)
      OBVIOUS
    <3>2. CASE i \in 0 .. n /\ j \in 0 .. n
      <4>1. w[i] = w[j]
        BY <1>2, <2>1, <3>2
      <4>2. QED
        BY <3>2, <4>1 DEF Route
    <3>3. CASE i \in 0 .. n /\ j = n + 1
      BY <1>1, <1>2, <1>6, <2>1, <3>3
    <3>4. CASE i = n + 1 /\ j \in 0 .. n
      BY <1>1, <1>2, <1>6, <2>1, <3>4
    <3>5. QED
      BY <3>1, <3>2, <3>3, <3>4
  <2>2. QED
    BY <2>1
<1>8. ASSUME NEW i \in 0 .. n + 1, i < n + 1 PROVE ticket'[v[i]].into = v[i + 1]
  <2>1. i \in 0 .. n /\ v[i] = w[i]
    BY <1>8
  <2>2. CASE i = n
    BY <1>1, <1>4, <1>5, <2>1, <2>2
  <2>3. CASE i # n
    <3>1. i + 1 \in 0 .. n /\ i < n
      BY <2>1, <2>3
    <3>2. ticket'[w[i]] = ticket[w[i]] /\ v[i + 1] = w[i + 1]
      BY <1>2, <1>5, <1>6, <2>1, <2>3, <3>1
    <3>3. QED
      BY <2>1, <3>1, <3>2 DEF Route
  <2>4. QED
    BY <2>2, <2>3
<1>9. ASSUME NEW u \in Tickets
      PROVE  (ticket'[u].into # None /\ x \in ticket'[u].moved)
               <=> \E i \in 0 .. n + 1 : i < n + 1 /\ v[i] = u
  <2>1. (\E i \in 0 .. n + 1 : i < n + 1 /\ v[i] = u) <=> \E i \in 0 .. n : w[i] = u
    OBVIOUS
  <2>2. CASE u = s
    BY <1>4, <1>5, <2>1, <2>2, MergeAssumption
  <2>3. CASE u # s
    <3>1. (\E i \in 0 .. n : w[i] = u) <=> \E i \in 0 .. n : i < n /\ w[i] = u
      BY <1>6, <2>3
    <3>2. QED
      BY <1>5, <2>1, <2>3, <3>1 DEF Route
  <2>4. QED
    BY <2>2, <2>3
<1>10. v[0] = x /\ ticket'[v[n + 1]].into = None /\ content'[x] = v[n + 1]
  BY <1>1, <1>2, <1>3, <1>5 DEF Route
<1> HIDE DEF v
<1>11. Route(ticket', content'[x], x, n + 1, v)
  BY <1>7, <1>8, <1>9, <1>10 DEF Route
<1>12. QED
  BY <1>1, <1>11 DEF Routed

\* Undoing the last merge of the route takes its last stage away.
LEMMA RouteShrinks ==
    ASSUME MergeTypeOK, NEW s \in Tickets, UnmergeTicket(s),
           NEW x \in Tickets, NEW n \in Nat, NEW w \in [0 .. n -> Tickets],
           Route(ticket, content[x], x, n, w), n # 0, w[n - 1] = s
    PROVE  Routed(x)'
<1> DEFINE v == [i \in 0 .. n - 1 |-> w[i]]
<1>1. n - 1 \in Nat /\ v \in [0 .. n - 1 -> Tickets] /\ n \in 0 .. n
  OBVIOUS
<1>2. ASSUME NEW i \in 0 .. n - 1 PROVE v[i] = w[i] /\ i \in 0 .. n /\ i < n
  OBVIOUS
<1>3. /\ ticket' = [ticket EXCEPT ![s] = Unmerged]
      /\ content' = [m \in Messages |-> IF m \in ticket[s].moved \cap On(ticket[s].into)
                                        THEN s ELSE content[m]]
  BY DEF UnmergeTicket, MoveMessages
<1>4. ticket[s].into = content[x] /\ x \in ticket[s].moved /\ x \in Messages
  BY <1>1 DEF Route, Messages
<1>5. /\ ticket'[s] = Unmerged /\ content'[x] = s
      /\ \A u \in Tickets : u # s => ticket'[u] = ticket[u]
  BY <1>3, <1>4 DEF MergeTypeOK, On
<1>6. ASSUME NEW i \in 0 .. n PROVE w[i] = s <=> i = n - 1
  BY <1>1 DEF Route
<1>7. \A i, j \in 0 .. n - 1 : v[i] = v[j] => i = j
  BY <1>2 DEF Route
<1>8. ASSUME NEW i \in 0 .. n - 1, i < n - 1 PROVE ticket'[v[i]].into = v[i + 1]
  <2>1. v[i] = w[i] /\ i + 1 \in 0 .. n - 1 /\ v[i + 1] = w[i + 1] /\ w[i] # s
    BY <1>2, <1>6, <1>8
  <2>2. QED
    BY <1>2, <1>5, <2>1 DEF Route
<1>9. ASSUME NEW u \in Tickets
      PROVE  (ticket'[u].into # None /\ x \in ticket'[u].moved)
               <=> \E i \in 0 .. n - 1 : i < n - 1 /\ v[i] = u
  <2>1. (\E i \in 0 .. n - 1 : i < n - 1 /\ v[i] = u)
          <=> \E i \in 0 .. n : i < n - 1 /\ w[i] = u
    OBVIOUS
  <2>2. CASE u = s
    BY <1>5, <1>6, <2>1, <2>2 DEF Unmerged
  <2>3. CASE u # s
    <3>1. (\E i \in 0 .. n : i < n - 1 /\ w[i] = u) <=> \E i \in 0 .. n : i < n /\ w[i] = u
      BY <1>6, <2>3
    <3>2. QED
      BY <1>5, <2>1, <2>3, <3>1 DEF Route
  <2>4. QED
    BY <2>2, <2>3
<1>10. v[0] = x /\ ticket'[v[n - 1]].into = None /\ content'[x] = v[n - 1]
  BY <1>1, <1>2, <1>5 DEF Route, Unmerged
<1> HIDE DEF v
<1>11. Route(ticket', content'[x], x, n - 1, v)
  BY <1>7, <1>8, <1>9, <1>10 DEF Route
<1>12. QED
  BY <1>1, <1>11 DEF Routed

-----------------------------------------------------------------------------
LEMMA InitMInv == MergeInit => MInv
<1> SUFFICES ASSUME MergeInit PROVE MInv
  OBVIOUS
<1>1. MergeTypeOK
  BY MergeAssumption DEF MergeInit, MergeTypeOK, MergeColumns, Unmerged, Messages
<1>2. ASSUME NEW x \in Tickets PROVE Routed(x)
  <2> DEFINE w == [i \in 0 .. 0 |-> x]
  <2>1. w \in [0 .. 0 -> Tickets] /\ w[0] = x
    OBVIOUS
  <2>2. content[x] = x /\ \A s \in Tickets : ticket[s].into = None
    BY DEF MergeInit, Unmerged, Messages
  <2>3. 0 \in Nat /\ \A i, j \in 0 .. 0 : i = j /\ ~(i < 0)
    OBVIOUS
  <2> HIDE DEF w
  <2>4. Route(ticket, content[x], x, 0, w)
    BY <2>1, <2>2, <2>3 DEF Route
  <2>5. QED
    BY <2>1, <2>3, <2>4 DEF Routed
<1>3. ASSUME NEW m \in Mails PROVE InSight(m)
  BY MergeAssumption DEF MergeInit, Messages, InSight
<1>4. QED
  BY <1>1, <1>2, <1>3 DEF MInv

LEMMA MergeTypeStep == ASSUME MergeTypeOK, [MergeNext]_mergeVars PROVE MergeTypeOK'
<1> USE DEF MergeTypeOK
<1>1. CASE UNCHANGED mergeVars
  BY <1>1 DEF mergeVars
<1>2. ASSUME NEW s \in Tickets, NEW t \in Tickets, MergeTicket(s, t) PROVE MergeTypeOK'
  <2>1. [into |-> t, moved |-> On(s)] \in MergeColumns
    BY DEF MergeColumns, On
  <2>2. QED
    BY <1>2, <2>1, MergeAssumption DEF MergeTicket, MoveMessages, Messages
<1>3. ASSUME NEW s \in Tickets, UnmergeTicket(s) PROVE MergeTypeOK'
  <2>1. Unmerged \in MergeColumns /\ ticket[s].moved \in SUBSET Messages
    BY DEF MergeColumns, Unmerged
  <2>2. QED
    BY <1>3, <2>1, MergeAssumption DEF UnmergeTicket, MoveMessages, Messages
<1>4. ASSUME NEW e \in Edits, NEW c \in Tickets, CopyTicket(e, c) PROVE MergeTypeOK'
  <2>1. [of |-> c, row |-> ticket[c]] \in [of : Tickets, row : MergeColumns]
    OBVIOUS
  <2>2. QED
    BY <1>4, <2>1 DEF CopyTicket
<1>5. ASSUME NEW e \in Edits, SaveCopy(e) \/ DropCopy(e) PROVE MergeTypeOK'
  <2>1. copy[e] \in [of : Tickets, row : MergeColumns]
    BY <1>5 DEF SaveCopy, DropCopy
  <2>2. copy' \in [Edits -> [of : Tickets, row : MergeColumns] \cup {None}]
    BY <1>5 DEF SaveCopy, DropCopy
  <2>3. /\ copy[e].row.moved \subseteq Messages /\ ticket[copy[e].of].moved \subseteq Messages
        /\ On(copy[e].of) \subseteq Messages
    BY <2>1 DEF MergeColumns, On
  <2>4. ticket' \in [Tickets -> MergeColumns] /\ torn' \subseteq Messages
    BY <1>5, <2>1, <2>3 DEF SaveCopy, DropCopy, Messages
  <2>5. QED
    BY <1>5, <2>2, <2>4 DEF SaveCopy, DropCopy
<1>6. ASSUME NEW m \in Mails, NEW k \in Tickets, FindByHeader(m, k) \/ FindByTag(m, k)
      PROVE  MergeTypeOK'
  <2>1. \A c \in Tickets : FollowMerge(c) \in Tickets
    BY DEF FollowMerge, MergeColumns
  <2>2. PICK c \in Tickets : Found(m, c)
    BY <1>6 DEF FindByHeader, FindByTag, Messages
  <2>3. finding' \in [Mails -> Tickets \cup {None}] /\ torn' \subseteq Messages
    BY <1>6, <2>1, <2>2 DEF FindByHeader, FindByTag, Found, Messages
  <2>4. QED
    BY <2>2, <2>3 DEF Found
<1>7. ASSUME NEW m \in Mails, FileMail(m) PROVE MergeTypeOK'
  BY <1>7, MergeAssumption DEF FileMail, Messages
<1>8. QED
  BY <1>1, <1>2, <1>3, <1>4, <1>5, <1>6, <1>7 DEF MergeNext

-----------------------------------------------------------------------------
LEMMA MergeTicketKeeps ==
    ASSUME MInv, NEW s \in Tickets, NEW t \in Tickets, MergeTicket(s, t), MergeTypeOK'
    PROVE  MInv'
<1>1. /\ s # t /\ ticket[s].into = None /\ ticket[t].into = None
      /\ ticket' = [ticket EXCEPT ![s] = [into |-> t, moved |-> On(s)]]
      /\ content' = [m \in Messages |-> IF m \in On(s) THEN t ELSE content[m]]
      /\ torn' = torn \cup {m \in Mails : finding[m] = s} /\ finding' = finding
      /\ MergeTypeOK
  BY DEF MergeTicket, MoveMessages, MInv
<1>2. /\ ticket'[s] = [into |-> t, moved |-> On(s)]
      /\ \A u \in Tickets : u # s => ticket'[u] = ticket[u]
  BY <1>1 DEF MergeTypeOK
<1>3. ASSUME NEW x \in Tickets \ torn' PROVE Routed(x)'
  <2>0. PICK n \in Nat : \E w \in [0 .. n -> Tickets] : Route(ticket, content[x], x, n, w)
    BY <1>1 DEF MInv, Routed
  <2>1. PICK w \in [0 .. n -> Tickets] : Route(ticket, content[x], x, n, w)
    BY <2>0
  <2>2. CASE content[x] = s
    BY <1>1, <2>1, <2>2, RouteGrows
  <2>3. CASE content[x] # s
    <3>1. content'[x] = content[x] /\ x \notin On(s)
      BY <1>1, <2>3 DEF On, Messages
    <3>2. ASSUME NEW i \in 0 .. n PROVE w[i] # s
      <4>1. ticket[w[i]].into = None <=> i = n
        BY <2>1, RootIsEnd
      <4>2. QED
        BY <1>1, <2>1, <2>3, <4>1 DEF Route
    <3>3. \A i \in 0 .. n : ticket'[w[i]] = ticket[w[i]]
      BY <1>2, <3>2
    <3>4. \A u \in Tickets : ticket'[u] = ticket[u] \/ (u = s /\ x \notin ticket'[u].moved)
      BY <1>2, <3>1
    <3>5. QED
      BY <2>1, <3>1, <3>2, <3>3, <3>4, RouteStays
  <2>4. QED
    BY <2>2, <2>3
<1>4. ASSUME NEW m \in Mails \ torn' PROVE InSight(m)'
  <2>1. InSight(m) /\ m \in Messages /\ finding[m] # s
    BY <1>1 DEF MInv, Messages
  <2>2. content'[m] # None => ticket'[content'[m]].into = None
    <3>1. CASE content[m] = s
      BY <1>1, <1>2, <2>1, <3>1 DEF On
    <3>2. CASE content[m] # s
      BY <1>1, <1>2, <2>1, <3>2 DEF On, InSight, MergeTypeOK
    <3>3. QED
      BY <3>1, <3>2
  <2>3. finding'[m] # None => ticket'[finding'[m]].into = None
    BY <1>1, <1>2, <2>1 DEF InSight, MergeTypeOK
  <2>4. QED
    BY <2>2, <2>3 DEF InSight
<1>5. QED
  BY <1>3, <1>4 DEF MInv

LEMMA UnmergeKeeps ==
    ASSUME MInv, NEW s \in Tickets, UnmergeTicket(s), MergeTypeOK' PROVE MInv'
<1> DEFINE back == ticket[s].moved \cap On(ticket[s].into)
<1>1. /\ ticket[s].into # None /\ ticket' = [ticket EXCEPT ![s] = Unmerged]
      /\ content' = [m \in Messages |-> IF m \in back THEN s ELSE content[m]]
      /\ torn' = torn \cup (ticket[s].moved \ On(ticket[s].into)) /\ finding' = finding
      /\ MergeTypeOK
  BY DEF UnmergeTicket, MoveMessages, MInv
<1>2. ticket'[s] = Unmerged /\ \A u \in Tickets : u # s => ticket'[u] = ticket[u]
  BY <1>1 DEF MergeTypeOK
<1>3. ASSUME NEW x \in Tickets \ torn' PROVE Routed(x)'
  <2>0. PICK n \in Nat : \E w \in [0 .. n -> Tickets] : Route(ticket, content[x], x, n, w)
    BY <1>1 DEF MInv, Routed
  <2>1. PICK w \in [0 .. n -> Tickets] : Route(ticket, content[x], x, n, w)
    BY <2>0
  <2>2. CASE x \in ticket[s].moved
    <3>1. PICK i \in 0 .. n : i < n /\ w[i] = s
      BY <1>1, <2>1, <2>2 DEF Route
    <3>2. n \in 0 .. n /\ i + 1 \in 0 .. n
      BY <3>1
    <3>3. content[x] = w[n] /\ ticket[s].into = w[i + 1]
      BY <2>1, <3>1 DEF Route
    <3>4. x \in On(ticket[s].into)
      BY <1>1, <2>2
    <3>5. w[i + 1] = w[n]
      BY <3>3, <3>4 DEF On
    <3>6. i + 1 = n
      BY <2>1, <3>2, <3>5 DEF Route
    <3>7. n # 0 /\ w[n - 1] = s
      BY <3>1, <3>6
    <3>8. QED
      BY <1>1, <2>1, <3>7, RouteShrinks
  <2>3. CASE x \notin ticket[s].moved
    <3>1. content'[x] = content[x]
      BY <1>1, <2>3 DEF Messages
    <3>2. ASSUME NEW i \in 0 .. n PROVE w[i] # s
      <4>1. ticket[w[i]].into = None <=> i = n
        BY <2>1, RootIsEnd
      <4>2. i < n \/ i = n
        OBVIOUS
      <4>3. QED
        BY <1>1, <2>1, <2>3, <4>1, <4>2 DEF Route
    <3>3. \A i \in 0 .. n : ticket'[w[i]] = ticket[w[i]]
      BY <1>2, <3>2
    <3>4. \A u \in Tickets : ticket'[u] = ticket[u] \/ (u = s /\ ticket'[u].into = None)
      BY <1>2 DEF Unmerged
    <3>5. QED
      BY <2>1, <3>1, <3>2, <3>3, <3>4, RouteStays
  <2>4. QED
    BY <2>2, <2>3
<1>4. ASSUME NEW m \in Mails \ torn' PROVE InSight(m)'
  <2>1. InSight(m) /\ m \in Messages /\ ticket'[s].into = None
    BY <1>1, <1>2 DEF MInv, Messages, Unmerged
  <2>2. content'[m] = s \/ content'[m] = content[m]
    BY <1>1, <2>1
  <2>3. content[m] \in Tickets \cup {None} /\ finding[m] \in Tickets \cup {None}
    BY <1>1, <2>1 DEF MergeTypeOK
  <2>4. QED
    BY <1>1, <1>2, <2>1, <2>2, <2>3 DEF InSight
<1>5. QED
  BY <1>3, <1>4 DEF MInv

\* A save of columns that are no longer the row's tears everything it could touch.
LEMMA SaveCopyKeeps ==
    ASSUME MInv, NEW e \in Edits, SaveCopy(e), MergeTypeOK' PROVE MInv'
<1> DEFINE c == copy[e].of
           old == copy[e].row
<1>1. /\ c \in Tickets /\ ticket' = [ticket EXCEPT ![c] = old]
      /\ content' = content /\ finding' = finding /\ MergeTypeOK
      /\ old = ticket[c] => torn' = torn
      /\ old # ticket[c] => torn' = torn \cup old.moved \cup ticket[c].moved \cup On(c)
                                         \cup {m \in Mails : finding[m] = c}
  BY DEF SaveCopy, MInv, MergeTypeOK
<1>2. ticket'[c] = old /\ \A u \in Tickets : u # c => ticket'[u] = ticket[u]
  BY <1>1 DEF MergeTypeOK
<1> HIDE DEF c, old
<1>3. CASE old = ticket[c]
  <2>1. ticket' = ticket
    BY <1>1, <1>3 DEF MergeTypeOK
  <2>2. QED
    BY <1>1, <1>3, <2>1 DEF MInv, Routed, InSight
<1>4. CASE old # ticket[c]
  <2>1. ASSUME NEW x \in Tickets \ torn' PROVE Routed(x)'
    <3>0. PICK n \in Nat : \E w \in [0 .. n -> Tickets] : Route(ticket, content[x], x, n, w)
      BY <1>1, <1>4 DEF MInv, Routed
    <3>1. PICK w \in [0 .. n -> Tickets] : Route(ticket, content[x], x, n, w)
      BY <3>0
    <3>2. x \notin old.moved /\ x \notin ticket[c].moved /\ x \notin On(c)
      BY <1>1, <1>4
    <3>3. content[x] # c
      BY <3>2 DEF On, Messages
    <3>4. ASSUME NEW i \in 0 .. n PROVE w[i] # c
      <4>1. i < n \/ i = n
        OBVIOUS
      <4>2. QED
        BY <1>1, <3>1, <3>2, <3>3, <4>1 DEF Route
    <3>5. \A i \in 0 .. n : ticket'[w[i]] = ticket[w[i]]
      BY <1>2, <3>4
    <3>6. \A u \in Tickets : ticket'[u] = ticket[u] \/ (u = c /\ x \notin ticket'[u].moved)
      BY <1>2, <3>2
    <3>7. QED
      BY <1>1, <3>1, <3>4, <3>5, <3>6, RouteStays
  <2>2. ASSUME NEW m \in Mails \ torn' PROVE InSight(m)'
    <3>1. InSight(m) /\ finding[m] # c /\ content[m] # c
      BY <1>1, <1>4 DEF MInv, On, Messages
    <3>2. content[m] \in Tickets \cup {None} /\ finding[m] \in Tickets \cup {None}
      BY <1>1 DEF MergeTypeOK, Messages
    <3>3. QED
      BY <1>1, <1>2, <3>1, <3>2 DEF InSight
  <2>3. QED
    BY <2>1, <2>2 DEF MInv
<1>5. QED
  BY <1>3, <1>4

\* What is found of an email is where its ticket's messages are.
LEMMA FoundKeeps ==
    ASSUME MInv, NEW m \in Mails, NEW k \in Tickets,
           FindByHeader(m, k) \/ FindByTag(m, k), MergeTypeOK'
    PROVE  MInv'
<1>1. UNCHANGED <<ticket, content>> /\ torn \subseteq torn' /\ MergeTypeOK
  BY DEF FindByHeader, FindByTag, Found, MInv
<1>2. \A x \in Tickets \ torn' : Routed(x)'
  BY <1>1 DEF MInv, Routed
<1>3. PICK c \in Tickets :
        /\ content[m] = None /\ finding' = [finding EXCEPT ![m] = FollowMerge(c)]
        /\ m \in torn' \/ ticket[FollowMerge(c)].into = None
  <2>1. CASE FindByHeader(m, k)
    <3>1. content[k] \in Tickets /\ Found(m, content[k])
      BY <1>1, <2>1 DEF FindByHeader, MergeTypeOK, Messages
    <3>2. CASE k \in torn
      BY <2>1, <3>1, <3>2 DEF FindByHeader, Found
    <3>3. CASE k \notin torn
      <4>0. PICK n \in Nat : \E w \in [0 .. n -> Tickets] : Route(ticket, content[k], k, n, w)
        BY <3>3 DEF MInv, Routed
      <4>1. PICK w \in [0 .. n -> Tickets] : Route(ticket, content[k], k, n, w)
        BY <4>0
      <4>2. n \in 0 .. n
        OBVIOUS
      <4>3. ticket[content[k]].into = None
        BY <4>1, <4>2, RootIsEnd
      <4>4. QED
        BY <3>1, <4>3 DEF Found, FollowMerge
    <3>4. QED
      BY <3>2, <3>3
  <2>2. CASE FindByTag(m, k)
    BY <2>2 DEF FindByTag, Found, FollowMerge
  <2>3. QED
    BY <2>1, <2>2
<1>4. ASSUME NEW p \in Mails \ torn' PROVE InSight(p)'
  <2>1. InSight(p)
    BY <1>1 DEF MInv
  <2>2. CASE p = m
    BY <1>1, <1>3, <2>2 DEF InSight, MergeTypeOK
  <2>3. CASE p # m
    BY <1>1, <1>3, <2>1, <2>3 DEF InSight, MergeTypeOK
  <2>4. QED
    BY <2>2, <2>3
<1>5. QED
  BY <1>2, <1>4 DEF MInv

LEMMA FiledKeeps ==
    ASSUME MInv, NEW m \in Mails, FileMail(m), MergeTypeOK' PROVE MInv'
<1>1. /\ content' = [content EXCEPT ![m] = finding[m]]
      /\ finding' = [finding EXCEPT ![m] = None]
      /\ UNCHANGED <<ticket, torn>> /\ finding[m] # None /\ MergeTypeOK
  BY DEF FileMail, MInv
<1>2. ASSUME NEW x \in Tickets \ torn' PROVE Routed(x)'
  <2>1. content'[x] = content[x]
    BY <1>1, MergeAssumption DEF MergeTypeOK, Messages
  <2>2. QED
    BY <1>1, <2>1 DEF MInv, Routed
<1>3. ASSUME NEW p \in Mails \ torn' PROVE InSight(p)'
  BY <1>1 DEF MInv, InSight, MergeTypeOK, Messages
<1>4. QED
  BY <1>2, <1>3 DEF MInv

LEMMA MergeNextKeeps == ASSUME MInv, [MergeNext]_mergeVars PROVE MInv'
<1>1. MergeTypeOK'
  BY MergeTypeStep DEF MInv
<1>2. ASSUME UNCHANGED <<ticket, content, finding, torn>> PROVE MInv'
  BY <1>1, <1>2 DEF MInv, Routed, InSight
<1>3. CASE UNCHANGED mergeVars
  BY <1>2, <1>3 DEF mergeVars
<1>4. CASE \E s \in Tickets : \/ UnmergeTicket(s)
                              \/ \E t \in Tickets : MergeTicket(s, t)
  BY <1>1, <1>4, UnmergeKeeps, MergeTicketKeeps
<1>5. CASE \E e \in Edits : DropCopy(e) \/ \E s \in Tickets : CopyTicket(e, s)
  BY <1>2, <1>5 DEF DropCopy, CopyTicket
<1>6. CASE \E e \in Edits : SaveCopy(e)
  BY <1>1, <1>6, SaveCopyKeeps
<1>7. CASE \E m \in Mails : \/ FileMail(m)
                            \/ \E k \in Tickets : FindByHeader(m, k) \/ FindByTag(m, k)
  BY <1>1, <1>7, FoundKeeps, FiledKeeps
<1>8. QED
  BY <1>3, <1>4, <1>5, <1>6, <1>7 DEF MergeNext

\* Every message not torn is at the end of its ticket's route of merges, whatever
\* merges, unmerges, edits and emails there have been (cases/merge.py).
THEOREM EveryMessageIsRouted == MergeSpec => []MInv
<1>1. MInv /\ [MergeNext]_mergeVars => MInv'
  BY MergeNextKeeps
<1>2. QED
  BY InitMInv, <1>1, PTL DEF MergeSpec

\* No message is out of sight on a merged ticket, but the torn (cases/merge.py,
\* `merge_tickets`; cases/inbound/pipeline.py, `_follow_merge`).
THEOREM NothingOnAMergedAlways == MergeSpec => []NothingOnAMerged
<1>1. ASSUME MInv PROVE NothingOnAMerged
  <2>1. ASSUME NEW x \in Tickets \ torn PROVE ticket[content[x]].into = None
    <3>0. PICK n \in Nat : \E w \in [0 .. n -> Tickets] : Route(ticket, content[x], x, n, w)
      BY <1>1 DEF MInv, Routed
    <3>1. PICK w \in [0 .. n -> Tickets] : Route(ticket, content[x], x, n, w)
      BY <3>0
    <3>2. n \in 0 .. n
      OBVIOUS
    <3>3. QED
      BY <3>1, <3>2, RootIsEnd
  <2>2. ASSUME NEW m \in Mails \ torn, content[m] # None PROVE ticket[content[m]].into = None
    BY <1>1, <2>2 DEF MInv, InSight
  <2>3. QED
    BY <2>1, <2>2 DEF NothingOnAMerged, Filed, Messages
<1>2. QED
  BY EveryMessageIsRouted, <1>1, PTL

\* A ticket's own messages are at home, or where it was merged to, until they are torn
\* (cases/merge.py, `merge_tickets` and `unmerge_ticket`).
THEOREM MessagesFollowMergesAlways == MergeSpec => []MessagesFollowMerges
<1>1. ASSUME MInv PROVE MessagesFollowMerges
  <2> SUFFICES ASSUME NEW c \in Tickets \ torn
               PROVE  /\ ticket[c].into = None => content[c] = c
                      /\ ticket[c].into # None /\ ticket[FollowMerge(c)].into = None
                           => content[c] = ticket[c].into
    BY DEF MessagesFollowMerges
  <2>0. PICK n \in Nat : \E w \in [0 .. n -> Tickets] : Route(ticket, content[c], c, n, w)
    BY <1>1 DEF MInv, Routed
  <2>1. PICK w \in [0 .. n -> Tickets] : Route(ticket, content[c], c, n, w)
    BY <2>0
  <2>2. 0 \in 0 .. n /\ n \in 0 .. n /\ w[0] = c /\ content[c] = w[n]
    BY <2>1 DEF Route
  <2>3. ticket[c].into = None <=> 0 = n
    BY <2>1, <2>2, RootIsEnd
  <2>4. ASSUME ticket[c].into # None, ticket[ticket[c].into].into = None
        PROVE  content[c] = ticket[c].into
    <3>1. 1 \in 0 .. n /\ 0 < n
      BY <2>3, <2>4
    <3>2. ticket[c].into = w[1]
      BY <2>1, <2>2, <3>1 DEF Route
    <3>3. ticket[w[1]].into = None <=> 1 = n
      BY <2>1, <3>1, RootIsEnd
    <3>4. QED
      BY <2>2, <2>4, <3>2, <3>3
  <2>5. QED
    BY <2>2, <2>3, <2>4 DEF FollowMerge
<1>2. QED
  BY EveryMessageIsRouted, <1>1, PTL
=============================================================================
