-------------------------- MODULE ClientMailProofs --------------------------
(***************************************************************************)
(* What the client is mailed before an invoice and after it: the quote     *)
(* (QuoteLifecycle), then the payment reminders (PaymentReminders).        *)
(***************************************************************************)
EXTENDS QuoteLifecycle, PaymentReminders, FiniteSetTheorems, TLAPS

(***************************************************************************)
(* A quote for any prices and any number of email tasks. An email carries  *)
(* the figures of an unlocked read; they are still the quote's when it     *)
(* goes out because the send that queued it took the quote out of Draft,   *)
(* and only a draft is priced. Only the end of the POST that made the      *)
(* quote can make it a draft again: `undone`, after which nothing but the  *)
(* shape of the row is claimed.                                            *)
(***************************************************************************)

SavedIsLast == row # Null => last = [figures |-> row.figures, answer |-> row.answer]

\* The client has answered only what was accepted or declined.
AnswerIsSettled ==
    row # Null /\ row.status \notin {"Accepted", "Declined"} => row.answer = "none"

\* While an email is under way the quote is no draft,
SentIsNoDraft ==
    \A t \in Tasks : task[t].at # "none" => row = Null \/ row.status # "Draft"

\* and what was read for it is what the quote asks.
MailIsCurrent ==
    \A t \in Tasks : task[t].at \in {"read", "mailed"} => task[t].figures = last.figures

\* The POST may save its copy over a draft: nothing is linked to that yet.
DraftIsBare ==
    row # Null /\ row.status = "Draft" => \A t \in Things : ~row[t]

\* It does so once.
UndoneByNow == posting # Null => ~undone

QInv ==
    /\ TypeOK /\ SavedIsLast /\ AnswerIsSettled /\ MadeOnce /\ UndoneByNow
    /\ ~undone => SentIsNoDraft /\ MailIsCurrent /\ DraftIsBare

(***************************************************************************)
(* What a step makes of the row, as QuotePromise sees it.                  *)
(***************************************************************************)
Phase(r) == CASE r.status = "Draft"              -> "draft"
              [] r.status \in {"Sent", "Viewed"} -> "out"
              [] r.status = "Accepted"           -> "agreed"
              [] OTHER                           -> "closed"

Kept(r, s) == /\ s.figures = r.figures /\ s.answer = r.answer
              /\ s.status = r.status \/ (r.status = "Sent" /\ s.status = "Viewed")

\* It is issued, invoiced or lapses,
Moved(r, s) ==
    /\ s.figures = r.figures /\ s.answer = r.answer
    /\ \/ Phase(r) = "draft" /\ Phase(s) = "out"
       \/ s.status = "Accepted"
       \/ past /\ Phase(r) \in {"draft", "out"} /\ s.status = "Expired"

\* or priced,
Priced(r, s) == r.status = "Draft" /\ s.status = "Draft" /\ s.answer = r.answer

\* or answered.
Answered(r, s) ==
    /\ Phase(r) = "out" /\ s.figures = r.figures
    /\ \/ s.status = "Accepted" /\ s.answer = "yes" /\ ~past
       \/ s.status = "Declined" /\ s.answer = "no"

Saved(r, s) ==
    /\ r \in Rows /\ s \in Rows
    /\ last' = [figures |-> s.figures, answer |-> s.answer]
    /\ \/ Kept(r, s)
       \/ past' = past /\ (Moved(r, s) \/ Priced(r, s) \/ Answered(r, s))

\* Only the mail task mails, and no draft.
Told ==
    /\ ~undone
    /\ mailed' = mailed \cup {last.figures}
    /\ row = Null \/ row.status # "Draft"
    /\ UNCHANGED <<row, last, past>>

Stepped ==
    /\ UNCHANGED <<posting, undone>>
    /\ \/ Told
       \/ mailed' = mailed /\ past' \in BOOLEAN
          /\ \/ row' = row /\ last' = last
             \/ row' = Null /\ last' = last /\ past' = past
             \/ Saved(row, row')

\* The POST saves its copy, or ends without.
Reset ==
    /\ posting' = Null /\ past' \in BOOLEAN
    /\ undone' = (row = Null \/ row.status # "Draft")
    /\ mailed' = IF undone' THEN {} ELSE mailed
    /\ row' \in Rows /\ row'.status = "Draft" /\ row'.answer = "none"
    /\ \A t \in Things : ~row'[t]
    /\ last' = [figures |-> row'.figures, answer |-> row'.answer]

Ended ==
    /\ posting # Null
    /\ \/ posting' = Null /\ UNCHANGED <<row, past, last, mailed, undone>>
       \/ Reset

LEMMA InitQ == Init => QInv
<1> SUFFICES ASSUME Init PROVE QInv
  OBVIOUS
<1>1. PICK figures \in Figures : row = Created(figures, posting)
  BY DEF Init
<1>2. posting \in Copies /\ row \in Rows
  BY <1>1 DEF Init, Created, Copies, Rows, Statuses
<1>3. TypeOK
  BY <1>1, <1>2 DEF Init, TypeOK, NoTask, Things, Rows
<1>4. SavedIsLast /\ AnswerIsSettled /\ SentIsNoDraft /\ MailIsCurrent
  BY <1>1 DEF Init, Created, SavedIsLast, AnswerIsSettled, SentIsNoDraft, MailIsCurrent,
     NoTask
<1>5. MadeOnce /\ DraftIsBare /\ UndoneByNow
  BY <1>1 DEF Init, Created, MadeOnce, DraftIsBare, UndoneByNow, Things
<1> QED  BY <1>3, <1>4, <1>5 DEF QInv

\* What each action makes of the row.
LEMMA StaffMove ==
  ASSUME QInv, EditAmounts \/ EditTerms \/ DayPasses \/ Delete \/ DeleteProject \/ Convert
  PROVE  Stepped
<1>0. past \in BOOLEAN
  BY DEF QInv, TypeOK
<1>1. row \in Rows \cup {Null} /\ Null \notin Rows
  BY RowsAssumption DEF QInv, TypeOK
<1>2. CASE EditAmounts
  <2>1. PICK figures \in Figures, deposit \in BOOLEAN :
          Save([row EXCEPT !.figures = figures, !.deposit = deposit])
    BY <1>2 DEF EditAmounts
  <2>2. row \in Rows /\ row.status = "Draft" /\ past' = past /\ mailed' = mailed
    BY <1>1, <1>2 DEF EditAmounts
  <2>3. row' \in Rows /\ row'.status = "Draft" /\ row'.answer = row.answer
    BY <2>1, <2>2 DEF Save, Rows
  <2> QED  BY <1>0, <1>2, <2>1, <2>2, <2>3 DEF EditAmounts, Save, Stepped, Saved, Priced
<1>3. CASE EditTerms
  <2>1. PICK start \in BOOLEAN : Save([row EXCEPT !.startProject = start])
    BY <1>3 DEF EditTerms
  <2>2. row \in Rows
    BY <1>1, <1>3 DEF EditTerms
  <2>3. /\ row' \in Rows /\ row'.status = row.status /\ row'.figures = row.figures
        /\ row'.answer = row.answer
    BY <2>1, <2>2 DEF Save, Rows
  <2> QED  BY <2>1, <2>2, <2>3, <1>3 DEF EditTerms, Save, Stepped, Saved, Kept
<1>4. CASE DayPasses \/ Delete
  BY <1>0, <1>1, <1>4 DEF DayPasses, Delete, Stepped
<1>5. CASE DeleteProject
  <2>1. CASE row' = row /\ last' = last
    BY <1>0, <1>5, <2>1 DEF DeleteProject, Stepped
  <2>2. CASE row # Null /\ Save([row EXCEPT !.project = FALSE])
    <3>1. /\ row' \in Rows /\ row'.status = row.status /\ row'.figures = row.figures
          /\ row'.answer = row.answer
      BY <1>1, <2>2 DEF Save, Rows
    <3> QED  BY <1>0, <1>1, <1>5, <2>2, <3>1 DEF DeleteProject, Save, Stepped, Saved, Kept
  <2> QED  BY <1>5, <2>1, <2>2 DEF DeleteProject
<1>6. CASE Convert
  <2>1. PICK project \in BOOLEAN :
          Save([row EXCEPT !.status = "Accepted", !.converted = TRUE, !.project = project])
    <3>1. PICK enabled \in BOOLEAN :
            Save([row EXCEPT !.status = "Accepted", !.converted = TRUE,
                             !.project = @ \/ StartsProject(row, enabled)])
      BY <1>6 DEF Convert, Things
    <3>2. (row.project \/ StartsProject(row, enabled)) \in BOOLEAN
      OBVIOUS
    <3> QED  BY <3>1, <3>2
  <2>2. row \in Rows
    BY <1>1, <1>6 DEF Convert
  <2>3. /\ row' \in Rows /\ row'.status = "Accepted" /\ row'.figures = row.figures
        /\ row'.answer = row.answer
    BY <2>1, <2>2 DEF Save, Rows, Statuses
  <2> QED  BY <1>0, <1>6, <2>1, <2>2, <2>3 DEF Convert, Save, Stepped, Saved, Moved
<1> QED  BY <1>2, <1>3, <1>4, <1>5, <1>6

LEMMA ClientMove ==
  ASSUME QInv, Accept \/ Decline \/ OpenLink \/ RecordView
  PROVE  Stepped
<1>0. past \in BOOLEAN
  BY DEF QInv, TypeOK
<1>1. row \in Rows \cup {Null} /\ Null \notin Rows
  BY RowsAssumption DEF QInv, TypeOK
<1>2. CASE Accept
  <2>1. PICK project \in BOOLEAN, deposit \in BOOLEAN :
          Save([row EXCEPT !.status = "Accepted", !.answer = "yes",
                           !.project = project, !.depositInvoice = deposit])
    <3>1. PICK enabled \in BOOLEAN :
            Save([row EXCEPT !.status = "Accepted", !.answer = "yes",
                             !.project = @ \/ StartsProject(row, enabled),
                             !.depositInvoice = row.deposit])
      BY <1>2 DEF Accept, Things
    <3>2. (row.project \/ StartsProject(row, enabled)) \in BOOLEAN /\ row.deposit \in BOOLEAN
      BY <1>1, <1>2 DEF Accept, Rows
    <3> QED  BY <3>1, <3>2
  <2>2. row \in Rows /\ row.status \in {"Sent", "Viewed"}
    BY <1>1, <1>2 DEF Accept
  <2>3. /\ row' \in Rows /\ row'.status = "Accepted" /\ row'.figures = row.figures
        /\ row'.answer = "yes"
    BY <2>1, <2>2 DEF Save, Rows, Statuses
  <2> QED  BY <1>0, <1>2, <2>1, <2>2, <2>3 DEF Accept, Save, Stepped, Saved, Answered, Phase
<1>3. CASE Decline
  <2>1. row \in Rows /\ row.status \in {"Sent", "Viewed"}
    BY <1>1, <1>3 DEF Decline
  <2>2. Save([row EXCEPT !.status = "Declined", !.answer = "no"])
    BY <1>3 DEF Decline
  <2>3. /\ row' \in Rows /\ row'.status = "Declined" /\ row'.figures = row.figures
        /\ row'.answer = "no"
    BY <2>1, <2>2 DEF Save, Rows, Statuses
  <2> QED  BY <1>0, <1>3, <2>1, <2>2, <2>3 DEF Decline, Save, Stepped, Saved, Answered, Phase
<1>4. CASE OpenLink
  BY <1>0, <1>4 DEF OpenLink, Stepped
<1>5. CASE RecordView
  <2>1. CASE row = Null \/ row.viewed
    BY <1>0, <1>5, <2>1 DEF RecordView, Stepped
  <2>2. CASE ~(row = Null \/ row.viewed)
    <3>1. PICK status \in Statuses :
            /\ status = IF row.status = "Sent" THEN "Viewed" ELSE row.status
            /\ Save([row EXCEPT !.viewed = TRUE, !.status = status])
      BY <1>1, <1>5, <2>2 DEF RecordView, Rows, Statuses
    <3>2. /\ row' \in Rows /\ row'.status = status /\ row'.figures = row.figures
          /\ row'.answer = row.answer
      BY <1>1, <2>2, <3>1 DEF Save, Rows
    <3> QED
      BY <1>0, <1>1, <1>5, <2>2, <3>1, <3>2 DEF RecordView, Save, Stepped, Saved, Kept
  <2> QED  BY <2>1, <2>2
<1> QED  BY <1>2, <1>3, <1>4, <1>5

LEMMA SweepMove ==
  ASSUME QInv, ListExpired \/ MarkExpired \/ StartFresh
  PROVE  Stepped
<1>0. past \in BOOLEAN
  BY DEF QInv, TypeOK
<1>1. row \in Rows \cup {Null} /\ Null \notin Rows
  BY RowsAssumption DEF QInv, TypeOK
<1>2. CASE row' = row /\ last' = last
  BY <1>0, <1>2 DEF ListExpired, MarkExpired, StartFresh, Stepped
<1>3. CASE ExpiryCandidate /\ Save([row EXCEPT !.status = "Expired"])
  <2>1. row \in Rows /\ past /\ row.status \in {"Draft", "Sent", "Viewed"}
    BY <1>1, <1>3 DEF ExpiryCandidate
  <2>2. /\ row' \in Rows /\ row'.status = "Expired" /\ row'.figures = row.figures
        /\ row'.answer = row.answer
    BY <1>3, <2>1 DEF Save, Rows, Statuses
  <2>3. mailed' = mailed /\ past' = past /\ UNCHANGED <<posting, undone>>
    BY DEF ListExpired, MarkExpired, StartFresh
  <2> QED  BY <1>0, <1>3, <2>1, <2>2, <2>3 DEF Save, Stepped, Saved, Moved, Phase
<1> QED  BY <1>2, <1>3 DEF ListExpired, MarkExpired, StartFresh

LEMMA MailMove ==
  ASSUME QInv, NEW t \in Tasks,
         Send(t) \/ ReadForMail(t) \/ Mail(t) \/ RecordMail(t) \/ LoseMail(t)
  PROVE  Stepped
<1>0. past \in BOOLEAN
  BY DEF QInv, TypeOK
<1>1. row \in Rows \cup {Null} /\ Null \notin Rows
  BY RowsAssumption DEF QInv, TypeOK
<1>2. CASE Send(t) \/ RecordMail(t)
  <2>1. /\ row \in Rows /\ mailed' = mailed /\ past' = past
        /\ UNCHANGED <<posting, undone>>
    BY <1>1, <1>2 DEF Send, RecordMail
  <2>2. PICK status \in Statuses :
          /\ status = IF row.status = "Draft" THEN "Sent" ELSE row.status
          /\ Save([row EXCEPT !.status = status])
    BY <1>2, <2>1 DEF Send, RecordMail, Rows, Statuses
  <2>3. /\ row' \in Rows /\ row'.status = status /\ row'.figures = row.figures
        /\ row'.answer = row.answer
    BY <2>1, <2>2 DEF Save, Rows
  <2> QED  BY <1>0, <2>1, <2>2, <2>3 DEF Save, Stepped, Saved, Kept, Moved, Phase
<1>3. CASE ReadForMail(t) \/ LoseMail(t)
  BY <1>0, <1>3 DEF ReadForMail, LoseMail, Stepped
<1>4. CASE Mail(t)
  <2>1. CASE undone
    BY <1>0, <1>4, <2>1 DEF Mail, Stepped
  <2>2. CASE ~undone
    BY <1>4, <2>2 DEF Mail, QInv, SentIsNoDraft, MailIsCurrent, Stepped, Told
  <2> QED  BY <2>1, <2>2
<1> QED  BY <1>2, <1>3, <1>4

LEMMA PostMove == ASSUME QInv, FinishCreate \/ AbandonCreate PROVE Ended
<1>1. CASE FinishCreate
  <2>1. PICK figures \in Figures : Save(Created(figures, posting))
    BY <1>1 DEF FinishCreate
  <2>2. posting \in Copies /\ posting # Null
    BY <1>1 DEF FinishCreate, QInv, TypeOK
  <2>3. row' \in Rows /\ row'.status = "Draft" /\ row'.answer = "none"
    BY <2>1, <2>2 DEF Save, Created, Copies, Rows, Statuses
  <2>4. \A t \in Things : ~row'[t]
    BY <2>1 DEF Save, Created, Things
  <2> QED  BY <1>1, <2>1, <2>3, <2>4 DEF FinishCreate, Save, Ended, Reset
<1>2. CASE AbandonCreate
  BY <1>2 DEF AbandonCreate, Ended
<1> QED  BY <1>1, <1>2

LEMMA EveryMove ==
  ASSUME QInv, [Next]_vars, ~(FinishCreate \/ AbandonCreate) PROVE Stepped
<1>1. CASE UNCHANGED vars
  BY <1>1 DEF vars, QInv, TypeOK, Stepped
<1> QED  BY <1>1, StaffMove, ClientMove, SweepMove, MailMove DEF Next
-----------------------------------------------------------------------------
(***************************************************************************)
(* What the row's moves preserve.                                          *)
(***************************************************************************)
LEMMA RowKeeps ==
  ASSUME QInv, Stepped
  PROVE  /\ row' \in Rows \cup {Null} /\ SavedIsLast' /\ AnswerIsSettled'
         /\ last' \in [figures : Figures, answer : {"none", "yes", "no"}]
         /\ row' # Null /\ row'.status = "Draft" => row # Null /\ row.status = "Draft"
         /\ last'.figures = last.figures \/ (row # Null /\ row.status = "Draft")
<1>1. /\ row \in Rows \cup {Null} /\ Null \notin Rows
      /\ last \in [figures : Figures, answer : {"none", "yes", "no"}]
  BY RowsAssumption DEF QInv, TypeOK
<1>2. CASE row' = row /\ last' = last
  BY <1>1, <1>2 DEF QInv, SavedIsLast, AnswerIsSettled
<1>3. CASE row' = Null /\ last' = last
  BY <1>1, <1>3 DEF QInv, SavedIsLast, AnswerIsSettled
<1>4. CASE Saved(row, row')
  <2>1. /\ row \in Rows /\ row' \in Rows /\ row # Null /\ row' # Null
        /\ last' = [figures |-> row'.figures, answer |-> row'.answer]
        /\ last = [figures |-> row.figures, answer |-> row.answer]
    BY <1>1, <1>4 DEF Saved, QInv, SavedIsLast
  <2>2. /\ last'.figures = row'.figures /\ last.figures = row.figures
        /\ row'.figures \in Figures /\ row'.answer \in {"none", "yes", "no"}
        /\ row.status \in Statuses /\ row'.status \in Statuses
    BY <2>1 DEF Rows
  <2>3. row.status \notin {"Accepted", "Declined"} => row.answer = "none"
    BY <2>1 DEF QInv, AnswerIsSettled
  <2>4. /\ row'.status \notin {"Accepted", "Declined"} => row'.answer = "none"
        /\ row'.status = "Draft" => row.status = "Draft"
        /\ row'.figures = row.figures \/ row.status = "Draft"
    <3>1. CASE Kept(row, row')
      BY <2>2, <2>3, <3>1 DEF Kept
    <3>2. CASE Moved(row, row')
      BY <2>2, <2>3, <3>2 DEF Moved, Phase, Statuses
    <3>3. CASE Priced(row, row') \/ Answered(row, row')
      BY <2>2, <2>3, <3>3 DEF Priced, Answered, Phase, Statuses
    <3> QED  BY <1>4, <3>1, <3>2, <3>3 DEF Saved
  <2> QED  BY <2>1, <2>2, <2>4 DEF SavedIsLast, AnswerIsSettled
<1> QED  BY <1>2, <1>3, <1>4 DEF Stepped, Told

LEMMA TasksKeep ==
  ASSUME QInv, ~undone, [Next]_vars, Stepped
  PROVE  SentIsNoDraft' /\ MailIsCurrent'
<1>1. /\ row' # Null /\ row'.status = "Draft" => row # Null /\ row.status = "Draft"
      /\ last'.figures = last.figures \/ (row # Null /\ row.status = "Draft")
  BY RowKeeps
<1>2. SentIsNoDraft /\ MailIsCurrent /\ SavedIsLast
  BY DEF QInv
<1>3. CASE task' = task
  BY <1>1, <1>2, <1>3 DEF SentIsNoDraft, MailIsCurrent
<1>4. ASSUME NEW t \in Tasks,
             Send(t) \/ ReadForMail(t) \/ Mail(t) \/ RecordMail(t) \/ LoseMail(t)
      PROVE  SentIsNoDraft' /\ MailIsCurrent'
  <2>1. /\ \A u \in Tasks : u # t => task'[u] = task[u]
        /\ task'[t].at # "none" => row' = Null \/ row'.status # "Draft"
        /\ task'[t].at \in {"read", "mailed"} => task'[t].figures = last'.figures
    <3>1. CASE Send(t)
      <4>1. task[t] = NoTask /\ task' = [task EXCEPT ![t].at = "queued"]
        BY <3>1 DEF Send
      <4>2. task'[t].at = "queued" /\ \A u \in Tasks : u # t => task'[u] = task[u]
        BY <4>1 DEF QInv, TypeOK, NoTask
      <4>3. row' = Null \/ row'.status # "Draft"
        BY <3>1 DEF Send, Save, QInv, TypeOK, Rows
      <4> QED  BY <4>2, <4>3
    <3>2. CASE ReadForMail(t)
      <4>1. /\ task' = [task EXCEPT ![t] = [at |-> "read", figures |-> row.figures]]
            /\ row # Null /\ row' = row /\ last' = last /\ task[t].at = "queued"
        BY <3>2 DEF ReadForMail
      <4>2. /\ task'[t] = [at |-> "read", figures |-> row.figures]
            /\ \A u \in Tasks : u # t => task'[u] = task[u]
        BY <4>1 DEF QInv, TypeOK
      <4>3. row.figures = last.figures
        BY <1>2, <4>1 DEF SavedIsLast
      <4> QED  BY <1>2, <4>1, <4>2, <4>3 DEF SentIsNoDraft
    <3>3. CASE Mail(t)
      <4>1. /\ task' = [task EXCEPT ![t].at = "mailed"] /\ task[t].at = "read"
            /\ row' = row /\ last' = last
        BY <3>3 DEF Mail
      <4>2. /\ task'[t].at = "mailed" /\ task'[t].figures = task[t].figures
            /\ \A u \in Tasks : u # t => task'[u] = task[u]
        BY <4>1 DEF QInv, TypeOK
      <4> QED  BY <1>2, <4>1, <4>2 DEF SentIsNoDraft, MailIsCurrent
    <3>4. CASE RecordMail(t) \/ LoseMail(t)
      <4>1. task' = [task EXCEPT ![t] = NoTask]
        BY <3>4 DEF RecordMail, LoseMail
      <4>2. task'[t] = NoTask /\ \A u \in Tasks : u # t => task'[u] = task[u]
        BY <4>1 DEF QInv, TypeOK
      <4> QED  BY <4>2 DEF NoTask
    <3> QED  BY <1>4, <3>1, <3>2, <3>3, <3>4
  <2>2. last'.figures = last.figures \/ \A u \in Tasks : task[u].at = "none"
    BY <1>1, <1>2 DEF SentIsNoDraft
  <2>3. ASSUME NEW u \in Tasks, u # t
        PROVE  /\ task'[u].at # "none" => row' = Null \/ row'.status # "Draft"
               /\ task'[u].at \in {"read", "mailed"} => task'[u].figures = last'.figures
    <3>1. task'[u] = task[u]
      BY <2>1, <2>3 DEF QInv, TypeOK
    <3> QED  BY <1>1, <1>2, <2>2, <3>1 DEF SentIsNoDraft, MailIsCurrent
  <2> QED  BY <2>1, <2>3 DEF SentIsNoDraft, MailIsCurrent
<1> QED
  BY <1>3, <1>4 DEF Next, vars, EditAmounts, EditTerms, DayPasses, Delete, DeleteProject,
     Accept, Decline, Convert, ListExpired, MarkExpired, StartFresh, OpenLink, RecordView,
     FinishCreate, AbandonCreate

\* A draft gains no link: what makes a thing accepts the quote.
LEMMA BareKeeps ==
  ASSUME QInv, ~undone, [Next]_vars, Stepped
  PROVE  DraftIsBare'
<1>1. row \in Rows \cup {Null} /\ Null \notin Rows
  BY RowsAssumption DEF QInv, TypeOK
<1>2. SUFFICES ASSUME row' # Null, row'.status = "Draft"
               PROVE  \A t \in Things : ~row'[t]
  BY DEF DraftIsBare
<1>3. row # Null /\ row.status = "Draft" /\ \A t \in Things : ~row[t]
  BY <1>2, RowKeeps DEF QInv, DraftIsBare
<1>4. row \in Rows
  BY <1>1, <1>3
<1>5. CASE row' = row
  BY <1>3, <1>5
<1>6. CASE EditAmounts \/ EditTerms
  BY <1>3, <1>4, <1>6 DEF EditAmounts, EditTerms, Save, Rows, Things
<1>7. CASE DeleteProject
  BY <1>3, <1>4, <1>7 DEF DeleteProject, Save, Rows, Things
<1>8. CASE \/ MarkExpired \/ StartFresh \/ RecordView
           \/ \E t \in Tasks : Send(t) \/ RecordMail(t)
  <2>1. CASE MarkExpired \/ StartFresh
    BY <1>3, <1>4, <2>1 DEF MarkExpired, StartFresh, Save, Rows, Things
  <2>2. CASE RecordView
    BY <1>3, <1>4, <2>2 DEF RecordView, Save, Rows, Things
  <2>3. CASE \E t \in Tasks : Send(t) \/ RecordMail(t)
    BY <1>3, <1>4, <2>3 DEF Send, RecordMail, Save, Rows, Things
  <2> QED  BY <1>8, <2>1, <2>2, <2>3
<1>9. ~(Accept \/ Decline \/ Convert)
  BY <1>2, <1>4 DEF Accept, Decline, Convert, Save, Rows
<1>10. ~(FinishCreate \/ AbandonCreate)
  BY DEF Stepped, FinishCreate, AbandonCreate
<1> QED
  BY <1>2, <1>5, <1>6, <1>7, <1>8, <1>9, <1>10 DEF Next, vars, DayPasses, Delete,
     ListExpired, OpenLink, ReadForMail, Mail, LoseMail

\* Each thing is made as often as the quote links to it.
LEMMA NothingMade ==
  ASSUME QInv, ~undone, made' = made, row' = row \/ row' = Null \/
             /\ row # Null /\ \A t \in Things : row'[t] = row[t]
             /\ row'.depositInvoice = row.depositInvoice
             /\ row'.answer = row.answer \/ ~row.depositInvoice
  PROVE  MadeOnce'
  BY DEF QInv, TypeOK, MadeOnce

LEMMA ThingsMade ==
  ASSUME QInv, ~undone, NEW new \in [Things -> BOOLEAN], row # Null, Make(new),
         \A t \in Things : (row'[t] <=> row[t] \/ new[t]) /\ ~(row[t] /\ new[t]),
         row'.depositInvoice => row'.answer = "yes"
  PROVE  MadeOnce'
<1>1. made \in [Things -> Nat] /\ MadeOnce
  BY DEF QInv, TypeOK
<1>2. ASSUME NEW t \in Things
      PROVE  made'[t] = (IF row'[t] THEN 1 ELSE 0)
  <2>1. made'[t] = IF new[t] THEN made[t] + 1 ELSE made[t]
    BY DEF Make
  <2>2. made[t] = IF row[t] THEN 1 ELSE 0
    BY <1>1 DEF MadeOnce
  <2>3. (row'[t] <=> row[t] \/ new[t]) /\ ~(row[t] /\ new[t])
    OBVIOUS
  <2>4. CASE new[t]
    BY <2>1, <2>2, <2>3, <2>4
  <2>5. CASE ~new[t]
    BY <2>1, <2>2, <2>3, <2>5
  <2> QED  BY <2>4, <2>5
<1> QED  BY <1>2 DEF MadeOnce

LEMMA MadeTypes == ASSUME TypeOK, [Next]_vars PROVE made' \in [Things -> Nat]
<1>1. made \in [Things -> Nat]
  BY DEF TypeOK
<1>2. CASE made' = made
  BY <1>1, <1>2
<1>3. CASE DeleteProject
  BY <1>1, <1>3 DEF DeleteProject, Things
<1>4. CASE Accept \/ Convert
  <2>1. PICK new : Make(new)
    BY <1>4 DEF Accept, Convert
  <2> QED  BY <1>1, <2>1 DEF Make
<1> QED
  BY <1>2, <1>3, <1>4 DEF Next, vars, FinishCreate, AbandonCreate, EditAmounts, EditTerms,
     DayPasses, Delete, Decline, ListExpired, MarkExpired, StartFresh, OpenLink, RecordView,
     Send, ReadForMail, Mail, RecordMail, LoseMail

LEMMA MadeKeeps ==
  ASSUME QInv, ~undone, [Next]_vars, Stepped
  PROVE  MadeOnce'
<1>1. row \in Rows \cup {Null} /\ Null \notin Rows /\ AnswerIsSettled /\ MadeOnce
  BY RowsAssumption DEF QInv, TypeOK
<1> USE DEF Things
<1>2. CASE made' = made /\ (row' = row \/ row' = Null)
  BY <1>2, NothingMade
<1>3. CASE EditAmounts \/ EditTerms
  <2>1. /\ row # Null /\ made' = made /\ \A t \in Things : row'[t] = row[t]
        /\ row'.depositInvoice = row.depositInvoice /\ row'.answer = row.answer
    BY <1>1, <1>3 DEF EditAmounts, EditTerms, Save, Rows
  <2> QED  BY <2>1, NothingMade
<1>4. CASE \/ MarkExpired \/ StartFresh \/ RecordView
           \/ \E t \in Tasks : Send(t) \/ RecordMail(t)
  <2>1. CASE row' = row
    BY <1>4, <2>1, NothingMade DEF MarkExpired, StartFresh, RecordView, Send, RecordMail
  <2>2. CASE row' # row
    <3>1. /\ row # Null /\ made' = made /\ \A t \in Things : row'[t] = row[t]
          /\ row'.depositInvoice = row.depositInvoice /\ row'.answer = row.answer
      BY <1>1, <1>4, <2>2 DEF MarkExpired, StartFresh, RecordView, Send, RecordMail,
         ExpiryCandidate, Save, Rows
    <3> QED  BY <3>1, NothingMade
  <2> QED  BY <2>1, <2>2
<1>5. CASE Decline
  <2>1. row \in Rows /\ row.status \in {"Sent", "Viewed"}
    BY <1>1, <1>5 DEF Decline
  <2>2. ~row.depositInvoice
    BY <1>1, <2>1 DEF AnswerIsSettled, MadeOnce
  <2>3. /\ row # Null /\ made' = made /\ \A t \in Things : row'[t] = row[t]
        /\ row'.depositInvoice = row.depositInvoice
    BY <1>1, <1>5, <2>1 DEF Decline, Save, Rows
  <2> QED  BY <2>2, <2>3, NothingMade
<1>6. CASE DeleteProject
  <2>1. CASE row = Null
    BY <1>6, <2>1 DEF DeleteProject, MadeOnce
  <2>2. CASE row # Null
    <3>1. /\ made["project"] > 0 /\ made["project"] = (IF row["project"] THEN 1 ELSE 0)
          /\ \A t \in Things : made[t] = IF row[t] THEN 1 ELSE 0
          /\ row.depositInvoice => row.answer = "yes"
      BY <1>1, <1>6, <2>2 DEF DeleteProject, MadeOnce
    <3>2. /\ row \in Rows /\ made' = [made EXCEPT !["project"] = @ - 1]
          /\ row' = [row EXCEPT !.project = FALSE]
      BY <1>1, <1>6, <2>2, <3>1 DEF DeleteProject, Save, Rows
    <3>3. /\ row'["project"] = FALSE /\ row'.depositInvoice = row.depositInvoice
          /\ row'.answer = row.answer
          /\ \A t \in Things : t # "project" => row'[t] = row[t]
      BY <3>2 DEF Rows
    <3>4. made["project"] = 1
      BY <3>1
    <3>5. /\ made'["project"] = 0
          /\ \A t \in Things : t # "project" => made'[t] = made[t]
      BY <3>2, <3>4 DEF QInv, TypeOK
    <3> QED  BY <3>1, <3>3, <3>5 DEF MadeOnce
  <2> QED  BY <2>1, <2>2
<1>7. CASE Accept
  <2>1. PICK enabled \in BOOLEAN :
          LET new == [t \in Things |-> CASE t = "project" -> StartsProject(row, enabled)
                                         [] t = "depositInvoice" -> row.deposit
                                         [] OTHER -> FALSE]
          IN  /\ Save([row EXCEPT !.status = "Accepted", !.answer = "yes",
                                  !.project = @ \/ new["project"],
                                  !.depositInvoice = new["depositInvoice"]])
              /\ Make(new)
    BY <1>7 DEF Accept
  <2> DEFINE starts == StartsProject(row, enabled)
             new == [t \in Things |-> CASE t = "project" -> starts
                                        [] t = "depositInvoice" -> row.deposit
                                        [] OTHER -> FALSE]
  <2>2. row \in Rows /\ row.status \in {"Sent", "Viewed"} /\ row # Null
    BY <1>1, <1>7 DEF Accept
  <2>3. ~row.depositInvoice
    BY <1>1, <2>2 DEF AnswerIsSettled, MadeOnce
  <2>4. starts \in BOOLEAN /\ ~(row.project /\ starts)
    BY <2>2 DEF StartsProject, Rows
  <2>5. Make(new)
    BY <2>1
  <2>6. row' = [row EXCEPT !.status = "Accepted", !.answer = "yes",
                           !.project = row.project \/ starts, !.depositInvoice = row.deposit]
    BY <2>1 DEF Save
  <2> HIDE DEF starts
  <2>7. /\ new \in [Things -> BOOLEAN] /\ new["project"] = starts
        /\ new["depositInvoice"] = row.deposit /\ new["converted"] = FALSE
    BY <2>2, <2>4 DEF Rows
  <2>8. /\ row'.project = (row.project \/ starts) /\ row'.depositInvoice = row.deposit
        /\ row'.converted = row.converted /\ row'.answer = "yes"
    BY <2>2, <2>6 DEF Rows
  <2> HIDE DEF new
  <2>9. \A t \in Things : (row'[t] <=> row[t] \/ new[t]) /\ ~(row[t] /\ new[t])
    BY <2>3, <2>4, <2>7, <2>8
  <2> QED  BY <2>2, <2>5, <2>7, <2>8, <2>9, ThingsMade
<1>8. CASE Convert
  <2>1. PICK enabled \in BOOLEAN :
          LET new == [t \in Things |-> CASE t = "project" -> StartsProject(row, enabled)
                                         [] t = "converted" -> TRUE
                                         [] OTHER -> FALSE]
          IN  /\ Save([row EXCEPT !.status = "Accepted", !.converted = TRUE,
                                  !.project = @ \/ new["project"]])
              /\ Make(new)
    BY <1>8 DEF Convert
  <2> DEFINE starts == StartsProject(row, enabled)
             new == [t \in Things |-> CASE t = "project" -> starts
                                        [] t = "converted" -> TRUE
                                        [] OTHER -> FALSE]
  <2>2. row \in Rows /\ ~row.converted /\ row # Null
    BY <1>1, <1>8 DEF Convert
  <2>3. starts \in BOOLEAN /\ ~(row.project /\ starts)
    BY <2>2 DEF StartsProject, Rows
  <2>4. Make(new)
    BY <2>1
  <2>5. row' = [row EXCEPT !.status = "Accepted", !.converted = TRUE,
                           !.project = row.project \/ starts]
    BY <2>1 DEF Save
  <2> HIDE DEF starts
  <2>6. /\ new \in [Things -> BOOLEAN] /\ new["project"] = starts
        /\ new["depositInvoice"] = FALSE /\ new["converted"] = TRUE
    BY <2>3
  <2>7. /\ row'.project = (row.project \/ starts) /\ row'.converted = TRUE
        /\ row'.depositInvoice = row.depositInvoice /\ row'.answer = row.answer
    BY <2>2, <2>5 DEF Rows
  <2> HIDE DEF new
  <2>8. \A t \in Things : (row'[t] <=> row[t] \/ new[t]) /\ ~(row[t] /\ new[t])
    BY <2>2, <2>3, <2>6, <2>7
  <2>9. row'.depositInvoice => row'.answer = "yes"
    BY <1>1, <2>2, <2>7 DEF MadeOnce
  <2> QED  BY <2>2, <2>4, <2>6, <2>8, <2>9, ThingsMade
<1>9. ~(FinishCreate \/ AbandonCreate)
  BY DEF Stepped, FinishCreate, AbandonCreate
<1> QED
  BY <1>2, <1>3, <1>4, <1>5, <1>6, <1>7, <1>8, <1>9 DEF Next, vars, DayPasses, Delete,
     ListExpired, OpenLink, ReadForMail, Mail, LoseMail

LEMMA QuoteTypeStep ==
  ASSUME QInv, [Next]_vars, Stepped PROVE TypeOK'
<1>1. /\ row' \in Rows \cup {Null} /\ made' \in [Things -> Nat]
      /\ last' \in [figures : Figures, answer : {"none", "yes", "no"}]
  BY RowKeeps, MadeTypes DEF QInv
<1>2. TypeOK /\ last.figures \in Figures
  BY DEF QInv, TypeOK
<1>3. /\ past' \in BOOLEAN /\ mailed' \subseteq Figures
      /\ posting' \in Copies \cup {Null} /\ undone' \in BOOLEAN
  BY <1>2 DEF Stepped, Told, TypeOK
<1>4. sweep' \in BOOLEAN /\ viewing' \in BOOLEAN
  BY <1>2 DEF TypeOK, Next, vars, EditAmounts, EditTerms, DayPasses, Delete, DeleteProject,
     Accept, Decline, Convert, ListExpired, MarkExpired, StartFresh, OpenLink, RecordView,
     Send, ReadForMail, Mail, RecordMail, LoseMail, FinishCreate, AbandonCreate
<1> DEFINE TaskStates == [at : {"none", "queued"}, figures : {Null}]
                           \cup [at : {"read", "mailed"}, figures : Figures]
<1>5. task' \in [Tasks -> TaskStates]
  <2>1. ASSUME NEW t \in Tasks, NEW new \in TaskStates, task' = [task EXCEPT ![t] = new]
        PROVE  task' \in [Tasks -> TaskStates]
    <3>1. task \in [Tasks -> TaskStates]
      BY <1>2 DEF TypeOK
    <3> HIDE DEF TaskStates
    <3> QED  BY <2>1, <3>1
  <2>2. ASSUME NEW t \in Tasks, task[t] \in TaskStates
        PROVE  /\ NoTask \in TaskStates
               /\ task[t] = NoTask => [task[t] EXCEPT !.at = "queued"] \in TaskStates
               /\ task[t].at = "read" => [task[t] EXCEPT !.at = "mailed"] \in TaskStates
    BY <2>2 DEF NoTask
  <2>3. ASSUME NEW t \in Tasks, ReadForMail(t)
        PROVE  [at |-> "read", figures |-> row.figures] \in TaskStates
    BY <1>2, <2>3 DEF ReadForMail, TypeOK, Rows
  <2>4. task \in [Tasks -> TaskStates]
    BY <1>2 DEF TypeOK
  <2> HIDE DEF TaskStates
  <2>5. CASE \E t \in Tasks : \/ Send(t) \/ ReadForMail(t) \/ Mail(t)
                             \/ RecordMail(t) \/ LoseMail(t)
    <3>1. PICK t \in Tasks : \/ Send(t) \/ ReadForMail(t) \/ Mail(t)
                             \/ RecordMail(t) \/ LoseMail(t)
      BY <2>5
    <3>2. task[t] \in TaskStates
      BY <2>4
    <3>3. \E new \in TaskStates : task' = [task EXCEPT ![t] = new]
      <4>1. CASE Send(t)
        <5>1. [task[t] EXCEPT !.at = "queued"] \in TaskStates
          BY <2>2, <3>2, <4>1 DEF Send
        <5> QED  BY <4>1, <5>1 DEF Send
      <4>2. CASE ReadForMail(t)
        BY <2>3, <4>2 DEF ReadForMail
      <4>3. CASE Mail(t)
        <5>1. [task[t] EXCEPT !.at = "mailed"] \in TaskStates
          BY <2>2, <3>2, <4>3 DEF Mail
        <5> QED  BY <4>3, <5>1 DEF Mail
      <4>4. CASE RecordMail(t) \/ LoseMail(t)
        BY <2>2, <3>2, <4>4 DEF RecordMail, LoseMail
      <4> QED  BY <3>1, <4>1, <4>2, <4>3, <4>4
    <3> QED  BY <2>1, <3>3
  <2>6. CASE task' = task
    BY <2>4, <2>6
  <2> QED
    BY <2>5, <2>6 DEF Next, vars, EditAmounts, EditTerms, DayPasses, Delete, DeleteProject,
       Accept, Decline, Convert, ListExpired, MarkExpired, StartFresh, OpenLink, RecordView,
       FinishCreate, AbandonCreate
<1> QED  BY <1>1, <1>3, <1>4, <1>5 DEF TypeOK

\* The end of the POST: over a draft it writes a draft, to which neither a thing made
\* nor an email under way belongs.
LEMMA PostKeeps == ASSUME QInv, FinishCreate \/ AbandonCreate PROVE QInv'
<1>1. Ended /\ UNCHANGED <<made, task, sweep, viewing>> /\ ~undone /\ TypeOK
  BY PostMove DEF FinishCreate, AbandonCreate, QInv, UndoneByNow
<1>2. CASE posting' = Null /\ UNCHANGED <<row, past, last, mailed, undone>>
  BY <1>1, <1>2 DEF QInv, TypeOK, SavedIsLast, AnswerIsSettled, MadeOnce, UndoneByNow,
     SentIsNoDraft, MailIsCurrent, DraftIsBare
<1>3. CASE Reset
  <2>1. TypeOK'
    <3>1. /\ row'.figures \in Figures /\ undone' \in BOOLEAN /\ mailed' \subseteq Figures
      BY <1>1, <1>3 DEF Reset, Rows, TypeOK
    <3>2. last' \in [figures : Figures, answer : {"none", "yes", "no"}]
      BY <1>3, <3>1 DEF Reset
    <3> QED  BY <1>1, <1>3, <3>1, <3>2 DEF Reset, TypeOK
  <2>2. SavedIsLast' /\ AnswerIsSettled' /\ UndoneByNow' /\ DraftIsBare'
    BY <1>3 DEF Reset, SavedIsLast, AnswerIsSettled, UndoneByNow, DraftIsBare
  <2>3. ASSUME ~undone' PROVE MadeOnce' /\ SentIsNoDraft' /\ MailIsCurrent'
    <3>1. row # Null /\ row.status = "Draft"
      BY <1>3, <2>3 DEF Reset
    <3>2. \A t \in Things : made'[t] = 0
      BY <1>1, <3>1 DEF QInv, MadeOnce, DraftIsBare
    <3>3. \A t \in Tasks : task'[t].at = "none"
      BY <1>1, <3>1 DEF QInv, SentIsNoDraft
    <3>4. MadeOnce'
      BY <1>3, <3>2 DEF Reset, MadeOnce, Things
    <3> QED  BY <3>3, <3>4 DEF SentIsNoDraft, MailIsCurrent
  <2> QED  BY <2>1, <2>2, <2>3 DEF QInv, MadeOnce
<1> QED  BY <1>1, <1>2, <1>3 DEF Ended

LEMMA QuoteStep == ASSUME QInv, [Next]_vars PROVE QInv' /\ (Stepped \/ Ended)
<1>1. CASE FinishCreate \/ AbandonCreate
  BY <1>1, PostMove, PostKeeps
<1>2. CASE ~(FinishCreate \/ AbandonCreate)
  <2>1. Stepped
    BY <1>2, EveryMove
  <2>2. SavedIsLast' /\ AnswerIsSettled' /\ TypeOK'
    BY <2>1, RowKeeps, QuoteTypeStep
  <2>3. undone' = undone /\ UndoneByNow'
    BY <2>1 DEF Stepped, QInv, UndoneByNow
  <2>4. ~undone => SentIsNoDraft' /\ MailIsCurrent' /\ DraftIsBare' /\ MadeOnce'
    BY <2>1, TasksKeep, BareKeeps, MadeKeeps
  <2> QED  BY <2>1, <2>2, <2>3, <2>4 DEF QInv, MadeOnce
<1> QED  BY <1>1, <1>2

LEMMA QuotePromiseStarts == Init => Promise!Init
<1> SUFFICES ASSUME Init PROVE Promise!Init
  OBVIOUS
<1>1. row \in Rows /\ row.status = "Draft" /\ row # Null /\ ~undone /\ posting # Null
  <2>1. PICK figures \in Figures : row = Created(figures, posting)
    BY DEF Init
  <2>2. row.status = "Draft" /\ row \in Rows /\ posting \in Copies /\ ~undone
    BY <2>1 DEF Init, Created, Copies, Rows, Statuses
  <2> QED  BY <2>2, RowsAssumption
<1>2. last.figures = row.figures /\ last.answer = "none" /\ row.figures \in Figures
  BY <1>1 DEF Init, Rows
<1>3. mailed = {} /\ past \in BOOLEAN
  BY DEF Init
<1> QED  BY <1>1, <1>2, <1>3 DEF Promise!Init

\* What the row goes through is what the promise allows.
LEMMA StepIsPromised ==
  ASSUME QInv, ~undone, Stepped PROVE [Promise!Next]_Promise!vars
<1>0. UNCHANGED <<posting, undone>> /\ ~undone
  BY DEF Stepped
<1>1. /\ row \in Rows \cup {Null} /\ Null \notin Rows /\ past \in BOOLEAN
      /\ SavedIsLast /\ AnswerIsSettled
  BY RowsAssumption DEF QInv, TypeOK
<1>2. CASE Told
  BY <1>0, <1>1, <1>2 DEF Told, Promise!Next, Promise!Tell
<1>3. CASE mailed' = mailed /\ past' \in BOOLEAN /\ row' = row /\ last' = last
  BY <1>0, <1>3 DEF Promise!Next, Promise!Calendar
<1>4. CASE mailed' = mailed /\ row' = Null /\ last' = last /\ past' = past
  BY <1>0, <1>4 DEF Promise!Next, Promise!Withdraw
<1>5. CASE mailed' = mailed /\ past' \in BOOLEAN /\ Saved(row, row')
  <2>1. /\ row \in Rows /\ row' \in Rows /\ row # Null /\ row' # Null
        /\ last'.figures = row'.figures /\ last'.answer = row'.answer
        /\ last.figures = row.figures /\ last.answer = row.answer
    BY <1>1, <1>5 DEF Saved, SavedIsLast
  <2>2. /\ row.status \in Statuses /\ row'.status \in Statuses /\ row'.figures \in Figures
        /\ row.status \notin {"Accepted", "Declined"} => row.answer = "none"
    BY <1>1, <2>1 DEF Rows, AnswerIsSettled
  <2>3. CASE Kept(row, row')
    BY <1>0, <1>5, <2>1, <2>2, <2>3 DEF Kept, Statuses, Promise!Next, Promise!Calendar
  <2>4. CASE past' = past /\ Moved(row, row')
    BY <1>0, <1>5, <2>1, <2>2, <2>4 DEF Moved, Phase, Statuses, Promise!Next, Promise!vars,
       Promise!Issue, Promise!Raise, Promise!Lapse
  <2>5. CASE past' = past /\ Priced(row, row')
    BY <1>0, <1>5, <2>1, <2>2, <2>5 DEF Priced, Promise!Next, Promise!Price
  <2>6. CASE past' = past /\ Answered(row, row')
    BY <1>0, <1>5, <2>1, <2>2, <2>6 DEF Answered, Phase, Statuses, Promise!Next, Promise!Answer
  <2> QED  BY <1>5, <2>3, <2>4, <2>5, <2>6 DEF Saved
<1> QED  BY <1>2, <1>3, <1>4, <1>5 DEF Stepped

\* The end of the POST, too, and what becomes of a quote that it undid.
LEMMA EndIsPromised ==
  ASSUME QInv, (undone /\ Stepped) \/ Ended PROVE [Promise!Next]_Promise!vars
<1>1. CASE undone /\ Stepped
  BY <1>1 DEF Stepped, Promise!Next, Promise!Adrift
<1>2. CASE Ended
  <2>1. posting # Null /\ posting' = Null /\ ~undone
    BY <1>2 DEF Ended, Reset, QInv, UndoneByNow
  <2>2. CASE UNCHANGED <<row, past, last, mailed, undone>>
    BY <2>1, <2>2 DEF Promise!Next, Promise!Post
  <2>3. CASE Reset /\ undone'
    <3>1. row = Null \/ row.status # "Draft"
      BY <2>3 DEF Reset
    <3> QED  BY <2>1, <2>3, <3>1 DEF Promise!Next, Promise!Post
  <2>4. CASE Reset /\ ~undone'
    <3>1. row # Null /\ row.status = "Draft" /\ past' \in BOOLEAN /\ mailed' = mailed
      BY <2>4 DEF Reset
    <3>2. last.answer = "none"
      BY <3>1 DEF QInv, SavedIsLast, AnswerIsSettled
    <3>3. row' # Null /\ row'.status = "Draft" /\ row'.figures \in Figures
      BY <2>4, RowsAssumption DEF Reset, Rows
    <3>4. last'.answer = "none" /\ last'.figures \in Figures
      BY <2>4, <3>3 DEF Reset
    <3> QED  BY <2>1, <2>4, <3>1, <3>2, <3>3, <3>4 DEF Promise!Next, Promise!Post
  <2> QED  BY <1>2, <2>2, <2>3, <2>4 DEF Ended
<1> QED  BY <1>1, <1>2

\* What the two theorems about quotes rest on: an email under way carries the price
\* the quote stands at, and a draft has nothing made from it, unless the POST's second
\* save undid the quote (invoices/serializer.py, `EstimateCreateSerializer.create`).
THEOREM QuoteInvariance == Spec => []QInv
<1>1. QInv /\ [Next]_vars => QInv'
  BY QuoteStep
<1> QED  BY InitQ, <1>1, PTL DEF Spec

\* Of the project and the invoices made from a quote there is never a second one, but
\* for one the POST undid (invoices/proposals.py, `start_requested_project`;
\* invoices/public_views.py, `PublicEstimateAcceptView.post`).
THEOREM MadeOnceAlways == Spec => []MadeOnce
<1>1. QInv => MadeOnce
  BY DEF QInv
<1> QED  BY <1>1, QuoteInvariance, PTL

\* Staff, client, sweep and email tasks together keep QuotePromise: every step is one
\* of the promise's, or nothing it speaks of; the POST ends once, and of a quote that is
\* no draft by then it may keep the promise no longer.
THEOREM QuotePromiseKept == Spec => PromiseKept
<1>1. QInv /\ [Next]_vars => [Promise!Next]_Promise!vars
  BY QuoteStep, StepIsPromised, EndIsPromised
<1> QED
  BY <1>1, QuotePromiseStarts, QuoteInvariance, PTL DEF Spec, PromiseKept, Promise!Spec

-----------------------------------------------------------------------------
(***************************************************************************)
(* Reminders for any cadence, horizon and number of tasks. A task queued   *)
(* may still mail, so the inductive invariant asks for one excuse in hand  *)
(* per task that has yet to, but for one when the last mail is an interval *)
(* old, and for one when that mail's record was lost.                      *)
(***************************************************************************)

Waiting == {t \in Reminders : reminder[t] \in {"queued", "read"}}
Pending == Cardinality(Waiting)

\* The next mail would not come too soon.
Far == lastMail = Never \/ day >= lastMail + Interval

Recording == \E t \in Reminders : reminder[t] = "mailed"

\* The row does not tell of the last mail.
Forgotten ==
    lastMail # Never /\ (invoice.lastSent = Never \/ invoice.lastSent < lastMail)

Excuses ==
    /\ Far => excused >= 0 /\ excused >= Pending - 1
    /\ ~Far => excused >= Pending
    /\ ~Far /\ Forgotten /\ ~Recording => excused >= 1

RemindersInv ==
    /\ RemindersTypeOK
    /\ lastMail # Never => lastMail <= day
    /\ invoice.lastSent # Never => invoice.lastSent <= day
    /\ Excuses

-----------------------------------------------------------------------------
(* Whole intervals, and tasks counted.                                     *)

LEMMA Quotient ==
  ASSUME NEW I \in Nat \ {0}, NEW y \in Nat
  PROVE  /\ y \div I \in Nat
         /\ I * (y \div I) <= y /\ y < I * (y \div I) + I
  OBVIOUS

\* Rounded up, it is the fewest intervals that cover x.
LEMMA WholeIntervals ==
  ASSUME NEW I \in Nat \ {0}, NEW x \in Nat
  PROVE  LET q == (x + I - 1) \div I
         IN  /\ q \in Nat /\ I * q \in Nat /\ I * q >= x
             /\ \A k \in Nat : k * I >= x => I * q <= k * I
<1> DEFINE q == (x + I - 1) \div I
<1>0. x + I - 1 \in Nat
  OBVIOUS
<1>1. q \in Nat /\ I * q <= x + I - 1 /\ x + I - 1 < I * q + I
  BY <1>0, Quotient
<1> HIDE DEF q
<1>2. I * q \in Nat
  BY <1>1
<1>3. ASSUME NEW k \in Nat, k * I >= x PROVE I * q <= k * I
  <2>1. CASE q <= k
    BY <1>1, <2>1
  <2>2. CASE k + 1 <= q
    <3>1. (k + 1) * I <= q * I
      BY <1>1, <2>2
    <3>2. (k + 1) * I = k * I + I
      OBVIOUS
    <3>3. k * I \in Nat /\ q * I = I * q
      BY <1>1
    <3> QED  BY <1>1, <1>2, <1>3, <3>1, <3>2, <3>3
  <2> QED  BY <1>1, <2>1, <2>2
<1>4. I * q >= x
  BY <1>1, <1>2
<1> QED  BY <1>1, <1>2, <1>3, <1>4 DEF q

LEMMA PendingIsNat == ASSUME RemindersTypeOK PROVE IsFiniteSet(Waiting) /\ Pending \in Nat
<1>1. IsFiniteSet(Reminders) /\ Waiting \subseteq Reminders
  BY RemindersAssumption DEF Waiting
<1>2. IsFiniteSet(Waiting)
  BY <1>1, FS_Subset
<1> QED  BY <1>2, FS_CardinalityType DEF Pending

LEMMA PendingMoves ==
  ASSUME RemindersTypeOK, NEW t \in Reminders,
         \A u \in Reminders : u # t => reminder'[u] = reminder[u]
  PROVE  Pending' = Pending + (IF reminder'[t] \in {"queued", "read"} THEN 1 ELSE 0)
                            - (IF reminder[t] \in {"queued", "read"} THEN 1 ELSE 0)
<1>1. IsFiniteSet(Waiting) /\ Pending \in Nat
  BY PendingIsNat
<1>2. t \in Waiting <=> reminder[t] \in {"queued", "read"}
  BY DEF Waiting
<1>3. CASE reminder'[t] \in {"queued", "read"}
  <2>1. Waiting' = Waiting \cup {t}
    BY <1>3 DEF Waiting
  <2>2. Cardinality(Waiting') = IF t \in Waiting THEN Cardinality(Waiting)
                                ELSE Cardinality(Waiting) + 1
    BY <1>1, <2>1, FS_AddElement
  <2> QED  BY <1>1, <1>2, <1>3, <2>2 DEF Pending
<1>4. CASE reminder'[t] \notin {"queued", "read"}
  <2>1. Waiting' = Waiting \ {t}
    BY <1>4 DEF Waiting
  <2>2. Cardinality(Waiting') = IF t \in Waiting THEN Cardinality(Waiting) - 1
                                ELSE Cardinality(Waiting)
    BY <1>1, <2>1, FS_RemoveElement
  <2> QED  BY <1>1, <1>2, <1>4, <2>2 DEF Pending
<1> QED  BY <1>3, <1>4

-----------------------------------------------------------------------------
(* The cadence.                                                            *)

LEMMA CadenceTypes ==
  ASSUME RemindersTypeOK
  PROVE  /\ Interval \in Nat \ {0} /\ FirstDay \in Int /\ FirstDay >= 0 - Before
         /\ day \in Nat /\ day <= LastDay
         /\ since \in Nat \cup {Never} /\ invoice.lastSent \in Nat \cup {Never}
         /\ lastMail \in Nat \cup {Never} /\ Never \notin Int
         /\ excused \in Int
  BY RemindersAssumption DEF RemindersTypeOK, InvoiceRows, Days, Interval, FirstDay

\* Where the cadence is counted from.
From(first) == IF invoice.lastSent # Never THEN invoice.lastSent + Interval ELSE first

\* _reminder_day is the first day of the cadence that was not skipped.
LEMMA ReminderDayIsFirst ==
  ASSUME RemindersTypeOK, NEW first \in Int
  PROVE  /\ \E k \in Nat : ReminderDay(first) = From(first) + k * Interval
         /\ since # Never => ReminderDay(first) >= since
         /\ \A k \in Nat : (since # Never => From(first) + k * Interval >= since)
              => ReminderDay(first) <= From(first) + k * Interval
<1> DEFINE due == From(first)
           q == (since - due + Interval - 1) \div Interval
<1>1. /\ Interval \in Nat \ {0} /\ due \in Int /\ since \in Nat \cup {Never}
      /\ Never \notin Int
  BY CadenceTypes DEF From
<1>2. \A k \in Nat : k * Interval \in Nat
  BY <1>1
<1>3. CASE since = Never \/ due >= since
  <2>1. ReminderDay(first) = due
    BY <1>3 DEF ReminderDay, From
  <2>2. due = due + 0 * Interval
    BY <1>1
  <2> HIDE DEF due
  <2>3. ReminderDay(first) = due + 0 * Interval
    BY <2>1, <2>2
  <2>4. \A k \in Nat : ReminderDay(first) <= due + k * Interval
    BY <1>1, <1>2, <2>1
  <2> QED  BY <1>3, <2>1, <2>3, <2>4 DEF due
<1>4. CASE since # Never /\ ~(due >= since)
  <2>1. ReminderDay(first) = due + Interval * q
    BY <1>4 DEF ReminderDay, From
  <2>2. since - due \in Nat
    BY <1>1, <1>4
  <2>3. /\ q \in Nat /\ Interval * q \in Nat /\ Interval * q >= since - due
        /\ \A k \in Nat : k * Interval >= since - due => Interval * q <= k * Interval
    BY <1>1, <2>2, WholeIntervals
  <2>4. Interval * q = q * Interval
    BY <1>1, <2>3
  <2> HIDE DEF due, q
  <2>5. ReminderDay(first) >= since
    BY <1>1, <1>4, <2>1, <2>3
  <2>6. ASSUME NEW k \in Nat, due + k * Interval >= since
        PROVE  ReminderDay(first) <= due + k * Interval
    <3>1. k * Interval >= since - due /\ k * Interval \in Nat
      BY <1>1, <1>2, <1>4, <2>6
    <3>2. Interval * q <= k * Interval
      BY <2>3, <3>1
    <3> QED  BY <1>1, <2>1, <2>3, <3>1, <3>2
  <2>7. q \in Nat /\ ReminderDay(first) = due + q * Interval
    BY <2>1, <2>3, <2>4
  <2> QED  BY <1>4, <2>5, <2>6, <2>7 DEF due
<1> QED  BY <1>3, <1>4

\* So a run never queues a reminder within an interval of the last one recorded.
LEMMA JudgedByTheRow ==
  ASSUME RemindersTypeOK, ShouldSend, invoice.lastSent # Never
  PROVE  day >= invoice.lastSent + Interval
<1>1. /\ FirstDay \in Int /\ Interval \in Nat \ {0} /\ invoice.lastSent \in Nat
      /\ day \in Nat
  BY CadenceTypes
<1>2. PICK k \in Nat : ReminderDay(FirstDay) = From(FirstDay) + k * Interval
  BY <1>1, ReminderDayIsFirst
<1>3. k * Interval \in Nat /\ From(FirstDay) = invoice.lastSent + Interval
  BY <1>1 DEF From
<1> QED  BY <1>1, <1>2, <1>3 DEF ShouldSend

-----------------------------------------------------------------------------
LEMMA InitReminders == RemindersInit => RemindersInv
<1> SUFFICES ASSUME RemindersInit PROVE RemindersInv
  OBVIOUS
<1>1. RemindersTypeOK
  <2>1. 0 \in Days
    BY RemindersAssumption DEF Days
  <2>2. invoice \in InvoiceRows
    BY DEF RemindersInit, InvoiceRows
  <2>3. {ran, on} \subseteq BOOLEAN
    <3>1. ran \in BOOLEAN /\ on \in BOOLEAN
      BY DEF RemindersInit
    <3> QED  BY <3>1
  <2>4. reminder \in [Reminders -> {"none", "queued", "read", "mailed"}]
    BY DEF RemindersInit
  <2>5. /\ day \in Days /\ since = Never /\ lastMail = Never
        /\ excused \in Int
    BY <2>1 DEF RemindersInit
  <2> QED  BY <2>2, <2>3, <2>4, <2>5 DEF RemindersTypeOK
<1>2. Waiting = {}
  BY DEF RemindersInit, Waiting
<1>3. Pending = 0
  BY <1>2, FS_EmptySet DEF Pending
<1>4. lastMail = Never /\ invoice.lastSent = Never /\ excused = 0
  BY DEF RemindersInit
<1> QED  BY <1>1, <1>3, <1>4 DEF RemindersInv, Excuses, Far

LEMMA RemindersTypeStep ==
  ASSUME RemindersTypeOK, [RemindersNext]_remindersVars PROVE RemindersTypeOK'
<1> USE DEF RemindersTypeOK
<1>1. CASE UNCHANGED remindersVars
  BY <1>1 DEF remindersVars
<1>2. CASE Process
  <2>1. excused' \in Int /\ ran' \in BOOLEAN
    BY <1>2 DEF Process
  <2>2. reminder' \in [Reminders -> {"none", "queued", "read", "mailed"}]
    BY <1>2 DEF Process
  <2> QED  BY <1>2, <2>1, <2>2 DEF Process
<1>3. CASE NextDay
  <2>1. day' \in Days
    BY <1>3, RemindersAssumption DEF NextDay, Days
  <2> QED  BY <1>3, <2>1 DEF NextDay
<1>4. CASE Change
  BY <1>4 DEF Change, InvoiceRows
<1>5. CASE Edit
  <2>1. PICK due \in Days, once \in BOOLEAN :
          /\ invoice' = [invoice EXCEPT !.due = due, !.once = once]
          /\ lastMail' \in {lastMail, Never}
    BY <1>5 DEF Edit
  <2>2. invoice' \in InvoiceRows
    BY <2>1 DEF InvoiceRows
  <2> QED  BY <1>5, <2>1, <2>2 DEF Edit
<1>6. CASE SwitchOff \/ SwitchOn
  BY <1>6 DEF SwitchOff, SwitchOn
<1>7. CASE \E t \in Reminders : Read(t) \/ MailReminder(t) \/ Lose(t)
  BY <1>7 DEF Read, MailReminder, Lose, Step
<1>8. CASE \E t \in Reminders : Record(t)
  <2>1. invoice' \in InvoiceRows
    BY <1>8 DEF Record, InvoiceRows
  <2> QED  BY <1>8, <2>1 DEF Record, Step
<1> QED
  BY <1>1, <1>2, <1>3, <1>4, <1>5, <1>6, <1>7, <1>8 DEF RemindersNext

LEMMA PastDays ==
  ASSUME RemindersInv, [RemindersNext]_remindersVars
  PROVE  /\ lastMail' # Never => lastMail' <= day'
         /\ invoice'.lastSent # Never => invoice'.lastSent <= day'
<1>1. /\ day \in Nat /\ lastMail \in Nat \cup {Never} /\ Never \notin Int
      /\ invoice \in InvoiceRows /\ invoice.lastSent \in Nat \cup {Never}
      /\ lastMail # Never => lastMail <= day
      /\ invoice.lastSent # Never => invoice.lastSent <= day
  BY CadenceTypes DEF RemindersInv, RemindersTypeOK
<1>2. ASSUME day' \in {day, day + 1}, lastMail' \in {lastMail, Never, day},
             invoice'.lastSent = invoice.lastSent \/ invoice'.lastSent = day,
             lastMail' = day \/ invoice'.lastSent = day => day' = day
      PROVE  /\ lastMail' # Never => lastMail' <= day'
             /\ invoice'.lastSent # Never => invoice'.lastSent <= day'
  BY <1>1, <1>2
<1>3. CASE UNCHANGED <<day, invoice, lastMail>>
  BY <1>1, <1>3
<1>4. CASE NextDay
  BY <1>1, <1>4 DEF NextDay
<1>5. CASE Change \/ Edit
  <2>1. invoice'.lastSent = invoice.lastSent /\ day' = day /\ lastMail' \in {lastMail, Never}
    BY <1>1, <1>5 DEF Change, Edit, InvoiceRows
  <2> QED  BY <1>1, <2>1
<1>6. CASE \E t \in Reminders : MailReminder(t)
  BY <1>1, <1>6 DEF MailReminder
<1>7. CASE \E t \in Reminders : Record(t)
  <2>1. invoice'.lastSent = day /\ day' = day /\ lastMail' = lastMail
    BY <1>1, <1>7 DEF Record, InvoiceRows
  <2> QED  BY <1>1, <2>1
<1> QED
  BY <1>3, <1>4, <1>5, <1>6, <1>7 DEF RemindersNext, remindersVars, Process, SwitchOff,
     SwitchOn, Read, Lose

\* What the steps of a task and of the run leave of what Excuses reads.
LEMMA SameMail ==
  ASSUME RemindersTypeOK, UNCHANGED <<lastMail, day>>, invoice'.once = invoice.once
  PROVE  Far' <=> Far
  BY DEF Far, Interval

LEMMA QueueKeeps ==
  ASSUME RemindersInv, Process, RemindersTypeOK' PROVE Excuses'
<1>1. /\ RemindersTypeOK /\ Excuses /\ UNCHANGED <<day, on, since, invoice, lastMail>>
      /\ lastMail # Never => lastMail <= day
      /\ Pending \in Nat /\ excused \in Int
  BY PendingIsNat, CadenceTypes DEF RemindersInv, Process
<1>2. (Far' <=> Far) /\ (Forgotten' <=> Forgotten)
  BY <1>1, SameMail DEF Forgotten
<1>3. CASE UNCHANGED <<reminder, excused>>
  <2>1. Pending' = Pending /\ (Recording' <=> Recording)
    BY <1>3 DEF Pending, Waiting, Recording
  <2> QED  BY <1>1, <1>2, <1>3, <2>1 DEF Excuses
<1>4. CASE ShouldSend /\ ~UNCHANGED <<reminder, excused>>
  <2>1. PICK t \in Reminders :
          /\ reminder[t] = "none" /\ reminder' = [reminder EXCEPT ![t] = "queued"]
          /\ excused' = IF \E u \in Reminders : reminder[u] # "none"
                        THEN excused + 1 ELSE excused
    BY <1>4 DEF Process
  <2>2. /\ reminder'[t] = "queued"
        /\ \A u \in Reminders : u # t => reminder'[u] = reminder[u]
    BY <1>1, <2>1 DEF RemindersTypeOK
  <2>3. Pending' = Pending + 1 /\ (Recording' <=> Recording)
    BY <1>1, <2>1, <2>2, PendingMoves DEF Recording
  <2>4. CASE \E u \in Reminders : reminder[u] # "none"
    BY <1>1, <1>2, <2>1, <2>2, <2>3, <2>4 DEF Excuses
  <2>5. CASE ~ \E u \in Reminders : reminder[u] # "none"
    <3>1. Waiting = {}
      BY <2>5 DEF Waiting
    <3>2. Pending = 0 /\ ~Recording /\ excused' = excused
      BY <2>1, <2>5, <3>1, FS_EmptySet DEF Pending, Recording
    <3>3. Far \/ Forgotten
      <4>1. /\ day \in Nat /\ lastMail \in Nat \cup {Never} /\ Never \notin Int
            /\ Interval \in Nat /\ invoice.lastSent \in Nat \cup {Never}
        BY <1>1, CadenceTypes
      <4>2. invoice.lastSent # Never => day >= invoice.lastSent + Interval
        BY <1>1, <1>4, JudgedByTheRow
      <4> QED  BY <4>1, <4>2 DEF Far, Forgotten
    <3> QED  BY <1>1, <1>2, <2>2, <2>3, <3>2, <3>3 DEF Excuses
  <2> QED  BY <2>4, <2>5
<1> QED  BY <1>3, <1>4 DEF Process

LEMMA TaskKeeps ==
  ASSUME RemindersInv, NEW t \in Reminders,
         Read(t) \/ MailReminder(t) \/ Record(t) \/ Lose(t), RemindersTypeOK'
  PROVE  Excuses'
<1>1. /\ RemindersTypeOK /\ Excuses /\ Pending \in Nat /\ excused \in Int
      /\ lastMail # Never => lastMail <= day
      /\ invoice \in InvoiceRows /\ reminder[t] \in {"none", "queued", "read", "mailed"}
  BY PendingIsNat, CadenceTypes DEF RemindersInv, RemindersTypeOK
<1>2. /\ day \in Nat /\ lastMail \in Nat \cup {Never} /\ Never \notin Int
      /\ Interval \in Nat \ {0} /\ invoice.lastSent \in Nat \cup {Never}
  BY <1>1, CadenceTypes
<1>3. CASE Read(t)
  <2>1. /\ reminder[t] = "queued" /\ reminder' = [reminder EXCEPT ![t] = "read"]
        /\ UNCHANGED <<day, invoice, lastMail, excused>>
    BY <1>3 DEF Read, Step
  <2>2. /\ reminder'[t] = "read"
        /\ \A u \in Reminders : u # t => reminder'[u] = reminder[u]
    BY <1>1, <2>1 DEF RemindersTypeOK
  <2>3. Pending' = Pending
    BY <1>1, <2>1, <2>2, PendingMoves
  <2>4. (Recording' <=> Recording) /\ (Far' <=> Far) /\ (Forgotten' <=> Forgotten)
    BY <1>1, <2>1, <2>2, SameMail DEF Recording, Forgotten
  <2> QED  BY <1>1, <2>1, <2>3, <2>4 DEF Excuses
<1>4. CASE MailReminder(t)
  <2>1. /\ reminder[t] = "read" /\ reminder' = [reminder EXCEPT ![t] = "mailed"]
        /\ excused' = (IF lastMail # Never /\ day - lastMail < Interval
                       THEN excused - 1 ELSE excused)
        /\ lastMail' = day /\ UNCHANGED <<day, invoice>>
    BY <1>4 DEF MailReminder, Step
  <2>0. /\ reminder'[t] = "mailed"
        /\ \A u \in Reminders : u # t => reminder'[u] = reminder[u]
    BY <1>1, <2>1 DEF RemindersTypeOK
  <2>2. reminder'[t] = "mailed" /\ Pending' = Pending - 1
    BY <1>1, <2>0, <2>1, PendingMoves
  <2>3. Recording' /\ ~Far'
    BY <1>2, <2>1, <2>2 DEF Recording, Far, Interval
  <2>4. Far <=> ~(lastMail # Never /\ day - lastMail < Interval)
    BY <1>2 DEF Far
  <2> QED  BY <1>1, <2>1, <2>2, <2>3, <2>4 DEF Excuses
<1>5. CASE Record(t)
  <2>1. /\ reminder[t] = "mailed" /\ reminder' = [reminder EXCEPT ![t] = "none"]
        /\ invoice' = [invoice EXCEPT !.lastSent = day]
        /\ UNCHANGED <<day, lastMail, excused>>
    BY <1>5 DEF Record, Step
  <2>0. /\ reminder'[t] = "none"
        /\ \A u \in Reminders : u # t => reminder'[u] = reminder[u]
    BY <1>1, <2>1 DEF RemindersTypeOK
  <2>2. Pending' = Pending /\ Recording
    BY <1>1, <2>0, <2>1, PendingMoves DEF Recording
  <2>3. invoice'.lastSent = day /\ invoice'.once = invoice.once
    BY <1>1, <2>1 DEF InvoiceRows
  <2>4. (Far' <=> Far) /\ ~Forgotten'
    BY <1>1, <1>2, <2>1, <2>3, SameMail DEF Forgotten
  <2> QED  BY <1>1, <2>1, <2>2, <2>4 DEF Excuses
<1>6. CASE Lose(t)
  <2>1. /\ reminder' = [reminder EXCEPT ![t] = "none"]
        /\ excused' = IF reminder[t] = "mailed" THEN excused + 1 ELSE excused
        /\ UNCHANGED <<day, invoice, lastMail>>
    BY <1>6 DEF Lose
  <2>2. (Far' <=> Far) /\ (Forgotten' <=> Forgotten)
    BY <1>1, <2>1, SameMail DEF Forgotten
  <2>0. /\ reminder'[t] = "none"
        /\ \A u \in Reminders : u # t => reminder'[u] = reminder[u]
    BY <1>1, <2>1 DEF RemindersTypeOK
  <2>3. Pending' = Pending - (IF reminder[t] \in {"queued", "read"} THEN 1 ELSE 0)
    BY <1>1, <2>0, PendingMoves
  <2>4. CASE reminder[t] = "mailed"
    <3>1. excused' = excused + 1 /\ Pending' = Pending
      BY <1>1, <2>1, <2>3, <2>4
    <3>2. excused >= 0
      BY <1>1 DEF Excuses
    <3> QED  BY <1>1, <2>2, <3>1, <3>2 DEF Excuses
  <2>5. CASE reminder[t] # "mailed"
    <3>1. Recording => Recording'
      BY <2>0, <2>5 DEF Recording
    <3>2. excused' = excused /\ Pending' \in Int /\ Pending' <= Pending
      BY <1>1, <2>1, <2>3, <2>5
    <3>3. \A p, q, x \in Int : p <= q /\ x >= q - 1 => x >= p - 1
      OBVIOUS
    <3>4. excused \in Int /\ Pending \in Int /\ excused >= Pending - 1
      BY <1>1 DEF Excuses
    <3>5. excused >= Pending' - 1
      BY <3>2, <3>3, <3>4
    <3>6. ~Far => excused >= Pending'
      BY <1>1, <3>2 DEF Excuses
    <3> QED  BY <1>1, <2>2, <3>1, <3>2, <3>4, <3>5, <3>6 DEF Excuses
  <2> QED  BY <2>4, <2>5
<1> QED  BY <1>3, <1>4, <1>5, <1>6

LEMMA OthersKeep ==
  ASSUME RemindersInv, RemindersTypeOK',
         NextDay \/ Change \/ Edit \/ SwitchOff \/ SwitchOn \/ UNCHANGED remindersVars
  PROVE  Excuses'
<1>1. /\ RemindersTypeOK /\ Excuses /\ Pending \in Nat /\ excused \in Int
      /\ UNCHANGED <<reminder, excused>>
  BY PendingIsNat, CadenceTypes
     DEF RemindersInv, NextDay, Change, Edit, SwitchOff, SwitchOn, remindersVars
<1>2. Pending' = Pending /\ (Recording' <=> Recording)
  BY <1>1 DEF Pending, Waiting, Recording
<1>3. /\ day \in Nat /\ lastMail \in Nat \cup {Never} /\ Never \notin Int
      /\ Interval \in Nat \ {0} /\ invoice \in InvoiceRows
  BY <1>1, CadenceTypes DEF RemindersTypeOK
<1>4. Far' \/ ((Far' <=> Far) /\ (Forgotten' <=> Forgotten))
  <2>1. CASE UNCHANGED <<invoice, lastMail>> /\ day' \in {day, day + 1}
    BY <1>3, <2>1 DEF Far, Forgotten, Interval
  <2>2. CASE UNCHANGED <<day, lastMail>> /\ invoice'.once = invoice.once
               /\ invoice'.lastSent = invoice.lastSent
    BY <1>1, <2>2, SameMail DEF Forgotten
  <2>3. CASE lastMail' = Never
    BY <2>3 DEF Far
  <2>4. CASE Change
    <3>1. invoice'.once = invoice.once /\ invoice'.lastSent = invoice.lastSent
      BY <1>3, <2>4 DEF Change, InvoiceRows
    <3> QED  BY <2>2, <2>4, <3>1 DEF Change
  <2>5. CASE Edit
    <3>1. PICK due \in Days, once \in BOOLEAN :
            /\ invoice' = [invoice EXCEPT !.due = due, !.once = once]
            /\ lastMail' = IF once = invoice.once THEN lastMail ELSE Never
      BY <2>5 DEF Edit
    <3>2. invoice'.once = once /\ invoice'.lastSent = invoice.lastSent
      BY <1>3, <3>1 DEF InvoiceRows
    <3> QED  BY <2>2, <2>3, <2>5, <3>1, <3>2 DEF Edit
  <2> QED
    BY <2>1, <2>4, <2>5 DEF NextDay, SwitchOff, SwitchOn, remindersVars
<1> QED  BY <1>1, <1>2, <1>4 DEF Excuses

\* What the theorems about reminders rest on: there is an excuse for every mail that
\* may yet come too soon.
THEOREM RemindersInvariance == RemindersSpec => []RemindersInv
<1>1. ASSUME RemindersInv, [RemindersNext]_remindersVars PROVE RemindersInv'
  <2>1. RemindersTypeOK'
    BY <1>1, RemindersTypeStep DEF RemindersInv
  <2>2. Excuses'
    BY <1>1, <2>1, QueueKeeps, TaskKeeps, OthersKeep DEF RemindersNext
  <2> QED  BY <1>1, <2>1, <2>2, PastDays DEF RemindersInv
<1> QED  BY InitReminders, <1>1, PTL DEF RemindersSpec

\* Mails that come within an interval of the last are never more than the overlaps and
\* lost records that explain them (invoices/tasks.py, `process_payment_reminders`).
THEOREM RemindersSpacedAlways == RemindersSpec => []RemindersSpaced
<1>1. RemindersInv => RemindersSpaced
  <2> SUFFICES ASSUME RemindersInv PROVE excused >= 0
    BY DEF RemindersSpaced
  <2>1. Pending \in Nat /\ excused \in Int
    BY PendingIsNat, CadenceTypes DEF RemindersInv
  <2> QED  BY <2>1 DEF RemindersInv, Excuses
<1> QED  BY <1>1, RemindersInvariance, PTL

\* The days of the cadence that Cadence bounds are all that can have come.
LEMMA DaysThatCame ==
  ASSUME RemindersTypeOK
  PROVE  \A d \in Int : d <= day =>
           (d \in Cadence <=> \E k \in Nat : d = From(FirstDay) + k * Interval)
<1> SUFFICES ASSUME NEW d \in Int, d <= day
             PROVE  d \in Cadence <=> \E k \in Nat : d = From(FirstDay) + k * Interval
  OBVIOUS
<1>1. /\ Interval \in Nat \ {0} /\ FirstDay \in Int /\ FirstDay >= 0 - Before
      /\ day \in Nat /\ day <= LastDay /\ LastDay \in Nat /\ Before \in Nat
      /\ invoice.lastSent \in Nat \cup {Never}
  BY CadenceTypes, RemindersAssumption
<1>2. \A k \in Nat : k * Interval \in Nat /\ k * Interval >= k
  BY <1>1
<1>3. CASE invoice.lastSent = Never
  <2>1. From(FirstDay) = FirstDay
    BY <1>3 DEF From
  <2>2. d \in Cadence <=> \E k \in 0..(LastDay + Before + 1) : d = FirstDay + k * Interval
    BY <1>3 DEF Cadence
  <2>3. ASSUME NEW k \in Nat, d = FirstDay + k * Interval
        PROVE  k \in 0..(LastDay + Before + 1)
    BY <1>1, <1>2, <2>3
  <2>4. \A k \in 0..(LastDay + Before + 1) : k \in Nat
    OBVIOUS
  <2> QED  BY <2>1, <2>2, <2>3, <2>4
<1>4. CASE invoice.lastSent # Never
  <2>1. From(FirstDay) = invoice.lastSent + Interval /\ invoice.lastSent \in Nat
    BY <1>1, <1>4 DEF From
  <2>2. d \in Cadence <=> \E k \in 1..(LastDay + 1) : d = invoice.lastSent + k * Interval
    BY <1>4 DEF Cadence
  <2>3. \A k \in Nat : (k + 1) * Interval = k * Interval + Interval
    BY <1>1
  <2>4. ASSUME NEW k \in Nat, d = From(FirstDay) + k * Interval
        PROVE  k + 1 \in 1..(LastDay + 1) /\ d = invoice.lastSent + (k + 1) * Interval
    BY <1>1, <1>2, <2>1, <2>3, <2>4
  <2>5. ASSUME NEW k \in 1..(LastDay + 1), d = invoice.lastSent + k * Interval
        PROVE  k - 1 \in Nat /\ d = From(FirstDay) + (k - 1) * Interval
    <3>1. k - 1 \in Nat /\ k = (k - 1) + 1
      BY <1>1
    <3>2. k * Interval = (k - 1) * Interval + Interval
      BY <2>3, <3>1
    <3>3. (k - 1) * Interval \in Nat
      BY <1>2, <3>1
    <3> QED  BY <1>1, <2>1, <2>5, <3>1, <3>2, <3>3
  <2> QED  BY <2>2, <2>4, <2>5
<1> QED  BY <1>3, <1>4

\* The run of a day queues a reminder exactly when one of the cadence has come
\* that was not skipped (invoices/tasks.py, `_reminder_day`).
THEOREM CadenceKeptAlways == RemindersSpec => CadenceKept
<1> DEFINE Due == \E d \in Cadence : d <= day /\ (since # Never => d >= since)
<1>1. ASSUME RemindersTypeOK, [RemindersNext]_remindersVars, ~ran, ran', on, Candidate
      PROVE  Queued <=> Due
  <2>1. Process
    <3>1. ran' = FALSE \/ ran' = ran \/ Process
      BY <1>1 DEF RemindersNext, remindersVars, NextDay, Change, Edit, SwitchOff, SwitchOn,
         Read, MailReminder, Record, Lose
    <3> QED  BY <1>1, <3>1
  <2>2. Queued <=> ShouldSend
    <3>1. CASE ShouldSend
      <4>1. PICK t \in Reminders :
              reminder[t] = "none" /\ reminder' = [reminder EXCEPT ![t] = "queued"]
        BY <1>1, <2>1, <3>1 DEF Process
      <4>2. reminder'[t] = "queued"
        BY <1>1, <4>1 DEF RemindersTypeOK
      <4> QED  BY <3>1, <4>1, <4>2 DEF Queued
    <3>2. CASE ~ShouldSend
      BY <2>1, <3>2 DEF Process, Queued
    <3> QED  BY <3>1, <3>2
  <2>3. /\ Interval \in Nat \ {0} /\ FirstDay \in Int /\ day \in Nat
        /\ since \in Nat \cup {Never} /\ From(FirstDay) \in Int
    BY <1>1, CadenceTypes DEF From
  <2>4. \A k \in Nat : k * Interval \in Nat
    BY <2>3
  <2>5. ASSUME ShouldSend PROVE Due
    <3>1. PICK k \in Nat : ReminderDay(FirstDay) = From(FirstDay) + k * Interval
      BY <1>1, <2>3, ReminderDayIsFirst
    <3>2. /\ ReminderDay(FirstDay) <= day /\ ReminderDay(FirstDay) \in Int
          /\ since # Never => ReminderDay(FirstDay) >= since
      BY <1>1, <2>3, <2>4, <2>5, <3>1, ReminderDayIsFirst DEF ShouldSend
    <3>3. ReminderDay(FirstDay) \in Cadence
      BY <1>1, <3>1, <3>2, DaysThatCame
    <3> QED  BY <3>2, <3>3
  <2>6. ASSUME Due PROVE ShouldSend
    <3>1. PICK d \in Cadence : d <= day /\ (since # Never => d >= since)
      BY <2>6
    <3>2. d \in Int
      BY <1>1, <2>3, CadenceTypes DEF Cadence
    <3>3. PICK k \in Nat : d = From(FirstDay) + k * Interval
      BY <1>1, <3>1, <3>2, DaysThatCame
    <3>4. ReminderDay(FirstDay) <= d
      BY <1>1, <2>3, <3>1, <3>3, ReminderDayIsFirst
    <3>5. ReminderDay(FirstDay) \in Int
      BY <1>1, <2>3, <2>4, ReminderDayIsFirst
    <3> QED  BY <1>1, <2>3, <3>1, <3>2, <3>4, <3>5 DEF ShouldSend
  <2> HIDE DEF Due
  <2> QED  BY <2>2, <2>5, <2>6
<1>2. RemindersInv /\ [RemindersNext]_remindersVars
        => [~ran /\ ran' /\ on /\ Candidate => (Queued <=> Due)]_remindersVars
  BY <1>1 DEF RemindersInv
<1> QED  BY <1>2, RemindersInvariance, PTL DEF RemindersSpec, CadenceKept
=============================================================================
