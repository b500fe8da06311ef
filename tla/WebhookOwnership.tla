-------------------------- MODULE WebhookOwnership --------------------------
(***************************************************************************)
(* Who answers for one webhook endpoint, and whether it sends. Admins      *)
(* change it (PATCH, rotate-secret), each change of what it sends or where *)
(* making them its creator; when a creator loses their standing as an      *)
(* admin a receiver pauses it; and every attempt to send asks again.       *)
(* All of them interleave statement by statement; only PATCH locks the row.*)
(***************************************************************************)
EXTENDS Integers

CONSTANTS Users,
          Attempts,      \* attempt_delivery calls that may be under way at once
          MaxRequests,   \* bound: PATCH and rotate-secret requests
          Null

ASSUME OwnershipAssumption == MaxRequests \in Nat /\ Null \notin Users

VARIABLES
    admins,      \* users whose profile here is active and an admin's
    gone,        \* users deleted
    row,         \* the webhook_endpoint row
    lock,        \* the request holding it (select_for_update), or Null
    request,     \* per user, the request they are making
    receiver,    \* per user, the signal receiver running for them, or their deletion
    attempt,     \* per attempt, where it is and the endpoint it read
    requests,    \* requests made
    credit       \* history: times turned on by an admin, less WEBHOOK_PAUSED audit rows

vars == <<admins, gone, row, lock, request, receiver, attempt,
          requests, credit>>

Kinds == {"turnOn", "turnOff", "repoint", "describe", "rotate"}

\* The columns that matter here. `url` is known by who chose it; `reason` is
\* disabled_reason: the creator's standing, a 410 answer, or none, as it must be
\* while the endpoint is on.
Rows == {r \in [active : BOOLEAN, creator : Users \cup {Null}, url : Users,
                reason : {"", "unfit", "gone"}] : r.active => r.reason = ""}

Idle == [stage |-> "idle"]

Requests  == {Idle} \cup [stage : {"permitted"}, kind : Kinds]
                    \cup [stage : {"locked"}, kind : Kinds, copy : Rows]
AttemptStates == {Idle} \cup [stage : {"read", "sending", "gone"},
                              creator : Users \cup {Null}]

Receivers == {"idle", "listing", "pausing", "deleting", "leaving"}

TypeOK ==
    /\ admins \subseteq Users /\ gone \subseteq Users
    /\ row \in Rows
    /\ lock \in Users \cup {Null}
    /\ request \in [Users -> Requests]
    /\ receiver \in [Users -> Receivers]
    /\ attempt \in [Attempts -> AttemptStates]
    /\ requests \in 0..MaxRequests
    /\ credit \in Int

\* Some admin has created the endpoint.
Init ==
    /\ admins = Users /\ gone = {}
    /\ \E u \in Users :
          row = [active |-> TRUE, creator |-> u, url |-> u, reason |-> ""]
    /\ lock = Null
    /\ request = [u \in Users |-> Idle]
    /\ receiver = [u \in Users |-> "idle"]
    /\ attempt = [a \in Attempts |-> Idle]
    /\ requests = 0 /\ credit = 1

-----------------------------------------------------------------------------
(* Admin requests. The permission check comes first, on its own.           *)

Permit(u) ==
    /\ u \in admins
    /\ request[u] = Idle
    /\ requests < MaxRequests
    /\ requests' = requests + 1
    /\ \E k \in Kinds : request' = [request EXCEPT ![u] = [stage |-> "permitted", kind |-> k]]
    /\ UNCHANGED <<admins, gone, row, lock, receiver, attempt, credit>>

\* Mutant of LockAndRead: the row is read without FOR UPDATE.
ReadUnlocked(u) ==
    /\ request[u].stage = "permitted" /\ request[u].kind # "rotate"
    /\ request' = [request EXCEPT
                     ![u] = [stage |-> "locked", kind |-> @.kind, copy |-> row]]
    /\ UNCHANGED <<admins, gone, row, lock, receiver, attempt, requests, credit>>

\* PATCH: SELECT ... FOR UPDATE.
LockAndRead(u) ==
    /\ request[u].stage = "permitted" /\ request[u].kind # "rotate"
    /\ lock = Null
    /\ lock' = u
    /\ request' = [request EXCEPT
                     ![u] = [stage |-> "locked", kind |-> @.kind, copy |-> row]]
    /\ UNCHANGED <<admins, gone, row, receiver, attempt, requests, credit>>

\* The fields a PATCH changes that make the caller the creator. (A url sent again as it
\* is changes nothing, and is "describe".)
TakesOver(u, kind, copy) ==
    \/ kind = "repoint"
    \/ kind = "turnOn" /\ ~copy.active

\* The row a PATCH saves: every column of what it read, with its changes.
Patched(u, kind, copy) ==
    [active  |-> IF kind = "turnOn" THEN TRUE
                 ELSE IF kind = "turnOff" THEN FALSE ELSE copy.active,
     creator |-> IF TakesOver(u, kind, copy) THEN u ELSE copy.creator,
     url     |-> IF kind = "repoint" THEN u ELSE copy.url,
     reason  |-> IF kind = "turnOn" /\ ~copy.active THEN "" ELSE copy.reason]

\* The save, and the commit that releases the row. A creator deleted since is
\* a foreign key that fails, and the transaction rolls back.
SaveAndCommit(u) ==
    LET kind == request[u].kind
        copy == request[u].copy
        new  == Patched(u, kind, copy)
    IN  /\ request[u].stage = "locked"
        /\ \/ /\ new.creator \notin gone
              /\ row' = new
              /\ credit' = credit + (IF new.active /\ ~copy.active THEN 1 ELSE 0)
           \/ new.creator \in gone /\ UNCHANGED <<row, credit>>
        /\ lock' = Null
        /\ request' = [request EXCEPT ![u] = Idle]
        /\ UNCHANGED <<admins, gone, receiver, attempt, requests>>

\* Mutant of Writable: other statements do not wait.
WritableAlways == TRUE

\* A statement of another transaction waits while a PATCH holds the row.
Writable == lock = Null

\* rotate-secret saves only its own columns, and is_active is not one.
Rotate(u) ==
    /\ request[u].stage = "permitted" /\ request[u].kind = "rotate"
    /\ Writable
    /\ row' = IF u \in gone THEN row ELSE [row EXCEPT !.creator = u]
    /\ request' = [request EXCEPT ![u] = Idle]
    /\ UNCHANGED <<admins, gone, lock, receiver, attempt, requests, credit>>

-----------------------------------------------------------------------------
(* Standing, and the receivers that watch it.                              *)

\* ownership.pause: UPDATE ... WHERE is_active, and one audit row if it did.
Pause ==
    /\ Writable
    /\ row' = IF row.active THEN [row EXCEPT !.active = FALSE, !.reason = "unfit"] ELSE row
    /\ credit' = credit - (IF row.active THEN 1 ELSE 0)

\* A demotion or deactivation, saved (a receiver will run) or made by a
\* queryset update that no receiver sees.
LoseStanding(u) ==
    /\ u \in admins
    /\ admins' = admins \ {u}
    /\ \/ receiver[u] = "idle" /\ receiver' = [receiver EXCEPT ![u] = "listing"]
       \/ UNCHANGED receiver
    /\ UNCHANGED <<gone, row, lock, request, attempt, requests, credit>>

RegainStanding(u) ==
    /\ u \notin admins \cup gone
    /\ receiver[u] = "idle"
    /\ admins' = admins \cup {u}
    /\ UNCHANGED <<gone, row, lock, request, receiver, attempt, requests, credit>>

\* The receiver lists the active endpoints the user created ...
ListCreated(u) ==
    /\ receiver[u] = "listing"
    /\ receiver' = [receiver EXCEPT ![u] =
                      IF row.active /\ row.creator = u THEN "pausing" ELSE "idle"]
    /\ UNCHANGED <<admins, gone, row, lock, request, attempt, requests, credit>>

\* ... and pauses each of them.
PauseListed(u) ==
    /\ receiver[u] = "pausing"
    /\ Pause
    /\ receiver' = [receiver EXCEPT ![u] = "idle"]
    /\ UNCHANGED <<admins, gone, lock, request, attempt, requests>>

\* Deleting a user is one transaction. It lists the active endpoints they created,
StartDelete(u) ==
    /\ u \notin gone
    /\ receiver[u] = "idle"
    /\ receiver' = [receiver EXCEPT ![u] =
                      IF row.active /\ row.creator = u THEN "deleting" ELSE "leaving"]
    /\ UNCHANGED <<admins, gone, row, lock, request, attempt, requests, credit>>

\* finds what it listed off by now,
FindOff(u) ==
    /\ receiver[u] = "deleting" /\ ~row.active
    /\ receiver' = [receiver EXCEPT ![u] = "leaving"]
    /\ UNCHANGED <<admins, gone, row, lock, request, attempt, requests, credit>>

\* or pauses it, which holds the row from there on; SET_NULL empties the column where
\* they are the creator still, and it commits.
DeleteUser(u) ==
    /\ \/ receiver[u] = "deleting" /\ row.active
       \/ receiver[u] = "leaving"
    /\ LET pauses == receiver[u] = "deleting"
           new == [row EXCEPT !.active = @ /\ ~pauses,
                              !.reason = IF pauses THEN "unfit" ELSE @,
                              !.creator = IF @ = u THEN Null ELSE @]
       IN  /\ row' = new
           /\ new # row => Writable
           /\ credit' = credit - (IF pauses THEN 1 ELSE 0)
    /\ admins' = admins \ {u}
    /\ gone' = gone \cup {u}
    /\ receiver' = [receiver EXCEPT ![u] = "idle"]
    /\ UNCHANGED <<lock, request, attempt, requests>>

-----------------------------------------------------------------------------
(* attempt_delivery, from the claim on.                                    *)

\* The delivery is read with its endpoint; one that is off sends nothing.
ReadEndpoint(a) ==
    /\ attempt[a] = Idle
    /\ row.active
    /\ attempt' = [attempt EXCEPT
                     ![a] = [stage |-> "read", creator |-> row.creator]]
    /\ UNCHANGED <<admins, gone, row, lock, request, receiver, requests, credit>>

\* Mutant of CreatorProblem: the check before a send is left to the receivers.
NoCreatorProblem(a) == attempt[a].creator \in {}

\* creator_problem, about the creator as read.
CreatorProblem(a) == attempt[a].creator \notin admins

CreatorFit(a) ==
    /\ attempt[a].stage = "read"
    /\ ~CreatorProblem(a)
    /\ attempt' = [attempt EXCEPT ![a].stage = "sending"]
    /\ UNCHANGED <<admins, gone, row, lock, request, receiver, requests, credit>>

CreatorUnfit(a) ==
    /\ attempt[a].stage = "read"
    /\ CreatorProblem(a)
    /\ Pause
    /\ attempt' = [attempt EXCEPT ![a] = Idle]
    /\ UNCHANGED <<admins, gone, lock, request, receiver, requests>>

\* The POST, and its answer: 410, or anything else.
Send(a) ==
    /\ attempt[a].stage = "sending"
    /\ \/ attempt' = [attempt EXCEPT ![a] = Idle]
       \/ attempt' = [attempt EXCEPT ![a].stage = "gone"]
    /\ UNCHANGED <<admins, gone, row, lock, request, receiver, requests, credit>>

\* UPDATE by primary key, with no other condition.
TurnOff(a) ==
    /\ attempt[a].stage = "gone"
    /\ Writable
    /\ row' = [row EXCEPT !.active = FALSE, !.reason = "gone"]
    /\ attempt' = [attempt EXCEPT ![a] = Idle]
    /\ UNCHANGED <<admins, gone, lock, request, receiver, requests, credit>>

-----------------------------------------------------------------------------
Serve(u) == LockAndRead(u) \/ SaveAndCommit(u) \/ Rotate(u)

Receive(u) == ListCreated(u) \/ PauseListed(u)

Try(a) == \/ ReadEndpoint(a) \/ CreatorFit(a) \/ CreatorUnfit(a)
          \/ Send(a) \/ TurnOff(a)

Next == \/ \E u \in Users : \/ Permit(u) \/ Serve(u) \/ Receive(u)
                            \/ LoseStanding(u) \/ RegainStanding(u)
                            \/ StartDelete(u) \/ FindOff(u) \/ DeleteUser(u)
        \/ \E a \in Attempts : Try(a)

Spec == Init /\ [][Next]_vars

\* Requests and receivers run to their end, and records keep changing, so
\* deliveries keep being attempted.
FairSpec == Spec /\ \A u \in Users : WF_vars(Serve(u)) /\ WF_vars(Receive(u))
                 /\ \A a \in Attempts : WF_vars(Try(a))

-----------------------------------------------------------------------------
(* Properties.                                                             *)

\* No write is lost under a PATCH: what it saves is what it read with its own
\* changes, and nothing wrote the row in between (views.py, "Locked from read
\* to save").
NoLostWrite == \A u \in Users : request[u].stage = "locked" => request[u].copy = row

\* Only an admin's request turns the endpoint on, and that admin becomes its
\* creator: no pause or 410 is undone by an edit that was under way.
TakenOver ==
    \E u \in Users : /\ request[u].stage = "locked" /\ request[u].kind = "turnOn"
                     /\ row'.creator = u
OnlyATakeOverTurnsOn == [][(~row.active /\ row'.active) => TakenOver]_vars

\* A URL belongs to its endpoint's creator: while the person who chose where
\* the records go is not the one who answers for the endpoint, the one who
\* does took it over after them. A url only ever changes with the creator.
UrlMovesWithCreator ==
    [][row'.url # row.url => row'.creator = row'.url]_vars

\* Two paths pausing the endpoint at once write one audit row: there are never
\* more pauses on record than times it was turned on.
OneAuditRowPerPause == 0 <= credit

\* An endpoint whose creator has no standing does not stay on: a receiver or
\* the next attempt pauses it, unless the creator or the standing changes.
UnfitGoesOff ==
    (row.active /\ row.creator \notin admins) ~> (~row.active \/ row.creator \in admins)
=============================================================================
