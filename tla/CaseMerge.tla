----------------------------- MODULE CaseMerge ------------------------------
(***************************************************************************)
(* Which ticket (case) is merged into which, and where the messages are.   *)
(* Merge and unmerge lock both rows and are one step each. An edit (PUT,   *)
(* PATCH, bulk, macro) reads the row without a lock and saves every column *)
(* of its copy, the merge columns too. A customer's email finds its ticket *)
(* and is filed on it later in the same transaction, without a lock.       *)
(* What a merge does to a ticket's status is in CaseGate.                  *)
(***************************************************************************)
CONSTANTS Tickets,
          Mails,       \* emails that come in while the model runs
          Edits,       \* bound: edits under way at once
          None

ASSUME MergeAssumption == None \notin Tickets /\ Tickets \cap Mails = {}

VARIABLES
    ticket,   \* the merge columns of each case row
    content,  \* where a message is: of a ticket, those it had of its own
    copy,     \* per edit, the ticket and the columns its save will write back
    finding,  \* per email, the ticket it was found to belong to, until it is filed
    torn      \* history: messages a merge no longer accounts for (see below)

mergeVars == <<ticket, content, copy, finding, torn>>

Messages == Tickets \cup Mails

\* merged_into, and of merge_record the messages that were moved.
MergeColumns == [into : Tickets \cup {None}, moved : SUBSET Messages]
Unmerged == [into |-> None, moved |-> {}]

MergeTypeOK ==
    /\ ticket \in [Tickets -> MergeColumns]
    /\ content \in [Messages -> Tickets \cup {None}]
    /\ \A c \in Tickets : content[c] # None
    /\ copy \in [Edits -> [of : Tickets, row : MergeColumns] \cup {None}]
    /\ finding \in [Mails -> Tickets \cup {None}]
    /\ torn \subseteq Messages

MergeInit ==
    /\ ticket = [c \in Tickets |-> Unmerged]
    /\ content = [m \in Messages |-> IF m \in Tickets THEN m ELSE None]
    /\ copy = [e \in Edits |-> None]
    /\ finding = [m \in Mails |-> None]
    /\ torn = {}
-----------------------------------------------------------------------------
On(c) == {m \in Messages : content[m] = c}

MoveMessages(messages, c) ==
    content' = [m \in Messages |-> IF m \in messages THEN c ELSE content[m]]

\* Mutant of MergeTicket: a ticket merged elsewhere is accepted as a target.
MergeIntoMerged(s, t) ==
    /\ s # t /\ ticket[s].into = None
    /\ ticket' = [ticket EXCEPT ![s] = [into |-> t, moved |-> On(s)]]
    /\ MoveMessages(On(s), t)
    /\ torn' = torn \cup {m \in Mails : finding[m] = s}
    /\ UNCHANGED <<copy, finding>>

\* A source already merged is refused (or, into the same ticket, left alone), and so
\* is a target merged elsewhere. A source that others were merged into is not: its
\* messages, theirs among them, go on to the target.
MergeTicket(s, t) ==
    /\ s # t /\ ticket[s].into = None /\ ticket[t].into = None
    /\ ticket' = [ticket EXCEPT ![s] = [into |-> t, moved |-> On(s)]]
    /\ MoveMessages(On(s), t)
    /\ torn' = torn \cup {m \in Mails : finding[m] = s}
    /\ UNCHANGED <<copy, finding>>

\* Mutant of UnmergeTicket: everything on the target comes back.
UnmergeAll(s) ==
    /\ ticket[s].into # None
    /\ ticket' = [ticket EXCEPT ![s] = Unmerged]
    /\ MoveMessages(On(ticket[s].into), s)
    /\ torn' = torn \cup (ticket[s].moved \ On(ticket[s].into))
    /\ UNCHANGED <<copy, finding>>

\* Moved messages that have left the target since are skipped.
UnmergeTicket(s) ==
    /\ ticket[s].into # None
    /\ ticket' = [ticket EXCEPT ![s] = Unmerged]
    /\ MoveMessages(ticket[s].moved \cap On(ticket[s].into), s)
    /\ torn' = torn \cup (ticket[s].moved \ On(ticket[s].into))
    /\ UNCHANGED <<copy, finding>>

\* An edit changes none of these columns, but it saves them:
CopyTicket(e, c) ==
    /\ copy[e] = None
    /\ copy' = [copy EXCEPT ![e] = [of |-> c, row |-> ticket[c]]]
    /\ UNCHANGED <<ticket, content, finding, torn>>

\* as they were when it read them.
SaveCopy(e) ==
    /\ copy[e] # None
    /\ LET c == copy[e].of
           old == copy[e].row
       IN  /\ ticket' = [ticket EXCEPT ![c] = old]
           /\ torn' = IF old = ticket[c] THEN torn
                      ELSE torn \cup old.moved \cup ticket[c].moved \cup On(c)
                                \cup {m \in Mails : finding[m] = c}
    /\ copy' = [copy EXCEPT ![e] = None]
    /\ UNCHANGED <<content, finding>>

\* An edit that a later check refuses, or that dies.
DropCopy(e) ==
    /\ copy[e] # None
    /\ copy' = [copy EXCEPT ![e] = None]
    /\ UNCHANGED <<ticket, content, finding, torn>>
-----------------------------------------------------------------------------
\* _follow_merge: one hop.
FollowMerge(c) == IF ticket[c].into = None THEN c ELSE ticket[c].into

Found(m, c) ==
    /\ content[m] = None /\ finding[m] = None
    /\ finding' = [finding EXCEPT ![m] = FollowMerge(c)]
    /\ UNCHANGED <<ticket, content, copy>>

\* A reply refers to a message of ticket k by its Message-ID: found where that is.
FindByHeader(m, k) ==
    /\ Found(m, content[k])
    /\ torn' = IF k \in torn THEN torn \cup {m} ELSE torn

\* The tag in the subject names ticket k itself. One hop is not enough if what k was
\* merged into has been merged on.
FindByTag(m, k) ==
    /\ Found(m, k)
    /\ torn' = IF ticket[k].into # None /\ ticket[ticket[k].into].into # None
               THEN torn \cup {m} ELSE torn

\* Filed once: a second delivery of the email finds it recorded, or is rolled back
\* by the unique Message-ID.
FileMail(m) ==
    /\ finding[m] # None
    /\ content' = [content EXCEPT ![m] = finding[m]]
    /\ finding' = [finding EXCEPT ![m] = None]
    /\ UNCHANGED <<ticket, copy, torn>>
-----------------------------------------------------------------------------
MergeNext ==
    \/ \E s \in Tickets : \/ UnmergeTicket(s)
                          \/ \E t \in Tickets : MergeTicket(s, t)
                          \/ \E e \in Edits : CopyTicket(e, s)
                          \/ \E m \in Mails : FindByHeader(m, s) \/ FindByTag(m, s)
    \/ \E e \in Edits : SaveCopy(e) \/ DropCopy(e)
    \/ \E m \in Mails : FileMail(m)

MergeSpec == MergeInit /\ [][MergeNext]_mergeVars
-----------------------------------------------------------------------------
(* Properties *)

Filed == {m \in Messages : content[m] # None}

\* No message is out of sight on a ticket that is itself merged away: merges carry
\* on what earlier merges brought, and email for a merged ticket goes to where it
\* went. Except for the messages in `torn`.
NothingOnAMerged == \A m \in Filed \ torn : ticket[content[m]].into = None

\* A ticket's own messages are at home while it is not merged, and on the ticket it
\* is merged into while that one is not. Except for those in `torn`.
MessagesFollowMerges ==
    \A c \in Tickets \ torn :
        /\ ticket[c].into = None => content[c] = c
        /\ ticket[c].into # None /\ ticket[FollowMerge(c)].into = None
             => content[c] = ticket[c].into
=============================================================================
