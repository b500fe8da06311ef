--------------------------- MODULE QuoteLifecycle ---------------------------
(***************************************************************************)
(* One quote (estimate), from draft to agreed, declined or expired, and    *)
(* the project and invoices made from it. Staff edits, the send, the       *)
(* conversion and the client's answer lock the row from read to save and   *)
(* are one step each; the email task, the daily expiry sweep and the       *)
(* client's first view read it once without a lock and again with one. The *)
(* POST that makes it commits it, then its lines, and then saves every     *)
(* column of its own copy again, whatever the row has become.              *)
(***************************************************************************)
EXTENDS Naturals

CONSTANTS Figures,    \* prices a quote may ask
          Tasks,      \* bound: send_estimate_to_client tasks under way at once
          Null

VARIABLES
    row,        \* the estimate row; Null once it is deleted
    past,       \* its expiry date is before today
    made,       \* the projects, deposit invoices and full invoices made from it
                \* that still exist
    task,       \* per email task, where it is and the figures it read
    sweep,      \* check_expired_estimates has this quote on its list
    viewing,    \* a portal request found viewed_at empty
    posting,    \* the copy the POST has yet to save again; Null once it has ended
    last,       \* history: phase, figures and answer as last saved
    mailed,     \* history: the figures the client was mailed, while it is not undone
    undone      \* history: the POST saved its copy over a quote that was sent, agreed,
                \* closed or deleted by then

vars == <<row, past, made, task, sweep, viewing, posting, last, mailed, undone>>

Statuses == {"Draft", "Sent", "Viewed", "Accepted", "Declined", "Expired"}

\* answer: from accepted_by_name and declined_at. project, depositInvoice and
\* converted: the links to what was made, set or not.
Rows == [status : Statuses, figures : Figures, deposit : BOOLEAN,
         startProject : BOOLEAN, viewed : BOOLEAN, answer : {"none", "yes", "no"},
         project : BOOLEAN, depositInvoice : BOOLEAN, converted : BOOLEAN]

\* Of the POST's copy: what an edit of the draft may have changed meanwhile.
Copies == [deposit : BOOLEAN, startProject : BOOLEAN]

ASSUME RowsAssumption == Null \notin Rows \cup Copies

Things == {"project", "depositInvoice", "converted"}

TypeOK ==
    /\ row \in Rows \cup {Null}
    /\ made \in [Things -> Nat]
    /\ task \in [Tasks -> [at : {"none", "queued"}, figures : {Null}]
                     \cup [at : {"read", "mailed"}, figures : Figures]]
    /\ last \in [figures : Figures, answer : {"none", "yes", "no"}]
    /\ mailed \subseteq Figures
    /\ posting \in Copies \cup {Null}
    /\ {past, sweep, viewing, undone} \subseteq BOOLEAN

NoTask == [at |-> "none", figures |-> Null]

Created(figures, copy) ==
    [status |-> "Draft", figures |-> figures, deposit |-> copy.deposit,
     startProject |-> copy.startProject, viewed |-> FALSE, answer |-> "none",
     project |-> FALSE, depositInvoice |-> FALSE, converted |-> FALSE]

\* The POST's first commit: anyone may see the row from here on.
Init ==
    /\ posting \in Copies
    /\ \E figures \in Figures : row = Created(figures, posting)
    /\ past \in BOOLEAN
    /\ made = [t \in Things |-> 0]
    /\ task = [t \in Tasks |-> NoTask]
    /\ sweep = FALSE /\ viewing = FALSE
    /\ last = [figures |-> row.figures, answer |-> "none"]
    /\ mailed = {} /\ undone = FALSE
-----------------------------------------------------------------------------
Save(r) == row' = r /\ last' = [figures |-> r.figures, answer |-> r.answer]

\* The POST's second: the totals of the lines there are by now, and every other column
\* of its copy, links and dates among them, over whatever was saved in between (a row
\* that was deleted is inserted again).
FinishCreate ==
    /\ posting # Null /\ posting' = Null
    /\ \E figures \in Figures : Save(Created(figures, posting))
    /\ past' \in BOOLEAN
    /\ undone' = (row = Null \/ row.status # "Draft")
    /\ mailed' = IF undone' THEN {} ELSE mailed
    /\ UNCHANGED <<made, task, sweep, viewing>>

\* It dies before, or a line cannot be saved: the draft stays as it is.
AbandonCreate ==
    /\ posting # Null /\ posting' = Null
    /\ UNCHANGED <<row, past, made, task, sweep, viewing, last, mailed, undone>>

\* Mutant of EditAmounts: open until the client has answered.
EditUnansweredAmounts ==
    /\ row # Null /\ row.status \in {"Draft", "Sent", "Viewed"}
    /\ \E figures \in Figures, deposit \in BOOLEAN :
         Save([row EXCEPT !.figures = figures, !.deposit = deposit])
    /\ UNCHANGED <<past, made, task, sweep, viewing, posting, mailed, undone>>

\* PUT: lines, discount, tax, currency and deposit are refused once it is issued,
EditAmounts ==
    /\ row # Null /\ row.status = "Draft"
    /\ \E figures \in Figures, deposit \in BOOLEAN :
         Save([row EXCEPT !.figures = figures, !.deposit = deposit])
    /\ UNCHANGED <<past, made, task, sweep, viewing, posting, mailed, undone>>

\* dates and whether it starts a project are not, in any status.
EditTerms ==
    /\ row # Null
    /\ past' \in BOOLEAN
    /\ \E start \in BOOLEAN : Save([row EXCEPT !.startProject = start])
    /\ UNCHANGED <<made, task, sweep, viewing, posting, mailed, undone>>

DayPasses ==
    /\ row # Null /\ ~past
    /\ past' = TRUE
    /\ UNCHANGED <<row, made, task, sweep, viewing, posting, last, mailed, undone>>

\* An unlocked DELETE; what was made from it stays.
Delete ==
    /\ row # Null
    /\ row' = Null
    /\ UNCHANGED <<past, made, task, sweep, viewing, posting, last, mailed, undone>>

\* A project made may be deleted, which only clears the link there is to it.
DeleteProject ==
    /\ made["project"] > 0
    /\ made' = [made EXCEPT !["project"] = @ - 1]
    /\ \/ row # Null /\ row.project /\ Save([row EXCEPT !.project = FALSE])
       \/ /\ row # Null /\ row.project => made["project"] > 1
          /\ UNCHANGED <<row, last>>
    /\ UNCHANGED <<past, task, sweep, viewing, posting, mailed, undone>>

\* A settled or lapsed quote is not sent; otherwise its email is queued.
Send(t) ==
    /\ row # Null /\ row.status \in {"Draft", "Sent", "Viewed"} /\ ~past
    /\ Save([row EXCEPT !.status = IF @ = "Draft" THEN "Sent" ELSE @])
    /\ task[t] = NoTask
    /\ task' = [task EXCEPT ![t].at = "queued"]
    /\ UNCHANGED <<past, made, sweep, viewing, posting, mailed, undone>>
-----------------------------------------------------------------------------
\* Mutant of StartsProject: it is not asked whether there is one.
StartsProjectAgain(r, on) == r.startProject /\ on

\* start_requested_project: asked for, none yet, and Projects is on.
StartsProject(r, on) == ~r.project /\ r.startProject /\ on

\* Those of Things that r has gained over the row are made with it.
Make(r) == made' = [t \in Things |-> IF r[t] THEN made[t] + 1 ELSE made[t]]

\* The client accepts: in one transaction the status, the project and the deposit
\* invoice the quote asks for.
Accept ==
    /\ row # Null /\ row.status \in {"Sent", "Viewed"} /\ ~past
    /\ \E on \in BOOLEAN :
         LET new == [t \in Things |-> CASE t = "project" -> StartsProject(row, on)
                                        [] t = "depositInvoice" -> row.deposit
                                        [] OTHER -> FALSE]
         IN  /\ Save([row EXCEPT !.status = "Accepted", !.answer = "yes",
                                 !.project = @ \/ new["project"],
                                 !.depositInvoice = new["depositInvoice"]])
             /\ Make(new)
    /\ UNCHANGED <<past, task, sweep, viewing, posting, mailed, undone>>

\* The client declines; the expiry date is not looked at.
Decline ==
    /\ row # Null /\ row.status \in {"Sent", "Viewed"}
    /\ Save([row EXCEPT !.status = "Declined", !.answer = "no"])
    /\ UNCHANGED <<past, made, task, sweep, viewing, posting, mailed, undone>>

\* Staff raise the full invoice, whatever the status is; it starts the project too.
Convert ==
    /\ row # Null /\ ~row.converted
    /\ \E on \in BOOLEAN :
         LET new == [t \in Things |-> CASE t = "project" -> StartsProject(row, on)
                                        [] t = "converted" -> TRUE
                                        [] OTHER -> FALSE]
         IN  /\ Save([row EXCEPT !.status = "Accepted", !.converted = TRUE,
                                 !.project = @ \/ new["project"]])
             /\ Make(new)
    /\ UNCHANGED <<past, task, sweep, viewing, posting, mailed, undone>>
-----------------------------------------------------------------------------
\* Mutant of ExpiryCandidate: one the client has looked at is forgotten.
ExpiryUnviewed == row # Null /\ past /\ row.status \in {"Draft", "Sent"}

ExpiryCandidate == row # Null /\ past /\ row.status \in {"Draft", "Sent", "Viewed"}

\* check_expired_estimates lists the candidates,
ListExpired ==
    /\ ~sweep /\ ExpiryCandidate
    /\ sweep' = TRUE
    /\ UNCHANGED <<row, past, made, task, viewing, posting, last, mailed, undone>>

\* and asks again of each under its lock.
MarkExpired ==
    /\ sweep
    /\ sweep' = FALSE
    /\ IF ExpiryCandidate THEN Save([row EXCEPT !.status = "Expired"])
                          ELSE UNCHANGED <<row, last>>
    /\ UNCHANGED <<past, made, task, viewing, posting, mailed, undone>>

\* Invoices is switched back on: one UPDATE marks what lapsed meanwhile.
StartFresh ==
    /\ ExpiryCandidate
    /\ Save([row EXCEPT !.status = "Expired"])
    /\ UNCHANGED <<past, made, task, sweep, viewing, posting, mailed, undone>>

\* The client opens the link for the first time, be the quote still a draft,
OpenLink ==
    /\ ~viewing /\ row # Null /\ ~row.viewed
    /\ viewing' = TRUE
    /\ UNCHANGED <<row, past, made, task, sweep, posting, last, mailed, undone>>

\* and the view is written under the lock.
RecordView ==
    /\ viewing
    /\ viewing' = FALSE
    /\ IF row = Null \/ row.viewed THEN UNCHANGED <<row, last>>
       ELSE Save([row EXCEPT !.viewed = TRUE,
                             !.status = IF @ = "Sent" THEN "Viewed" ELSE @])
    /\ UNCHANGED <<past, made, task, sweep, posting, mailed, undone>>

\* send_estimate_to_client: an unlocked read, from which the email is rendered,
ReadForMail(t) ==
    /\ task[t].at = "queued" /\ row # Null
    /\ task' = [task EXCEPT ![t] = [at |-> "read", figures |-> row.figures]]
    /\ UNCHANGED <<row, past, made, sweep, viewing, posting, last, mailed, undone>>

Mail(t) ==
    /\ task[t].at = "read"
    /\ mailed' = IF undone THEN mailed ELSE mailed \cup {task[t].figures}
    /\ task' = [task EXCEPT ![t].at = "mailed"]
    /\ UNCHANGED <<row, past, made, sweep, viewing, posting, last, undone>>

\* then the locked re-read and the write.
RecordMail(t) ==
    /\ task[t].at = "mailed" /\ row # Null
    /\ Save([row EXCEPT !.status = IF @ = "Draft" THEN "Sent" ELSE @])
    /\ task' = [task EXCEPT ![t] = NoTask]
    /\ UNCHANGED <<past, made, sweep, viewing, posting, mailed, undone>>

\* No address, no quote, Invoices off, the mail server refuses, the worker dies.
LoseMail(t) ==
    /\ task[t] # NoTask
    /\ task' = [task EXCEPT ![t] = NoTask]
    /\ UNCHANGED <<row, past, made, sweep, viewing, posting, last, mailed, undone>>
-----------------------------------------------------------------------------
Next ==
    \/ FinishCreate \/ AbandonCreate
    \/ EditAmounts \/ EditTerms \/ DayPasses \/ Delete \/ DeleteProject
    \/ Accept \/ Decline \/ Convert
    \/ ListExpired \/ MarkExpired \/ StartFresh \/ OpenLink \/ RecordView
    \/ \E t \in Tasks : Send(t) \/ ReadForMail(t) \/ Mail(t) \/ RecordMail(t)
                        \/ LoseMail(t)

\* Beat runs the sweep every day, and a sweep that listed the quote marks it.
Fairness == WF_vars(ListExpired) /\ WF_vars(MarkExpired)

Spec == Init /\ [][Next]_vars /\ Fairness
-----------------------------------------------------------------------------
(* Properties *)

\* The quote keeps QuotePromise: through every overlap of the email, the view, the
\* sweep, staff and the client, each price mailed is the one it stands at from then
\* on, the client answers once and a lapsed quote is not accepted, and neither the
\* sweep nor an email or view takes back what was agreed. Only the POST can, by saving
\* its copy late, and then nothing more is promised.
Promise == INSTANCE QuotePromise WITH
    phase   <- IF undone THEN "undone" ELSE IF row = Null THEN "gone"
               ELSE CASE row.status = "Draft"              -> "draft"
                      [] row.status \in {"Sent", "Viewed"} -> "out"
                      [] row.status = "Accepted"           -> "agreed"
                      [] OTHER                             -> "closed",
    figures <- last.figures, told <- mailed, answer <- last.answer, lapsed <- past,
    posting <- posting # Null
PromiseKept == Promise!Spec

\* "Acceptance happens once, so nothing is made twice" (docs/features/proposals.md),
\* and raising the invoice does not make again what acceptance made: of each thing
\* there is as many as the quote links to, which is at most one, and never a deposit
\* invoice for a quote whose client did not accept it. (A POST that saves its copy over
\* them loses the links.)
MadeOnce ==
    row # Null /\ ~undone =>
        /\ \A t \in Things : made[t] = IF row[t] THEN 1 ELSE 0
        /\ row.depositInvoice => row.answer = "yes"

\* A lapsed quote is not left reading Draft, Sent or Viewed: the sweep gets to it,
\* or it is decided, put off or deleted.
ExpiredIsNoticed ==
    LET Lapsed == row # Null /\ past /\ row.status \in {"Draft", "Sent", "Viewed"}
    IN  Lapsed ~> ~Lapsed
=============================================================================
