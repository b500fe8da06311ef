-------------------------- MODULE WebhookDelivery --------------------------
(***************************************************************************)
(* Sending webhook deliveries: rows queued by a request, messages in the   *)
(* broker, Celery workers that claim, send and record one attempt at a     *)
(* time, the sweeper that re-queues what is due, the nightly pruning, and  *)
(* the endpoint going off, changing hands or being deleted meanwhile.      *)
(*                                                                         *)
(* Time is relative: due[d] is next_attempt_at minus the present, age[w]   *)
(* is the present minus the `now` worker w captured when its task began.   *)
(***************************************************************************)
EXTENDS Integers, FiniteSets, Sequences

CONSTANTS Deliveries,   \* row ids, integers in order of creation
          Earlier,      \* those already in the log, each refused while its endpoint was off
          Endpoints,
          EndpointOf,   \* the endpoint each row belongs to
          Workers,
          Backoff,      \* BACKOFF: the wait after each failed attempt but the last
          Lease,        \* CLAIM: how far a claim pushes next_attempt_at
          MaxAge,       \* bound: no attempt runs longer than this
          MaxFaults,    \* bound: worker deaths and broker losses
          MaxQueued,    \* bound: messages for one row held by the broker
          SweepLimit,   \* rows one sweep queues (500 in the code)
          Null

MAX_ATTEMPTS == Len(Backoff) + 1

ASSUME DeliveryAssumption ==
    /\ Deliveries \subseteq Nat /\ Earlier \subseteq Deliveries
    /\ EndpointOf \in [Deliveries -> Endpoints]
    /\ Backoff \in Seq(Nat)
    /\ Lease \in Nat /\ MaxAge \in Nat
    /\ MaxFaults \in Nat /\ MaxQueued \in Nat \ {0} /\ SweepLimit \in Nat
    /\ Null \notin Int

VARIABLES
    status, attempts, due,   \* the webhook_delivery rows
    endpoint,                \* on, off or deleted, per endpoint
    fit,                     \* whether creator_problem(endpoint) is None
    listed,                  \* endpoints the request now flushing read as active
    queue,                   \* deliver_webhook messages in the broker, per row
    pc, job, age, read,      \* worker: position, row, time since its `now`,
                             \*   delivery.attempts as it was read
    faults,                  \* deaths and losses so far
    tried, sent,             \* attempt numbers begun per row, and those that
                             \*   reached the receiver
    repeats, deaths          \* what receivers saw twice, and the deaths of
                             \*   workers that held the row

rows    == <<status, attempts, due>>
workers == <<pc, job, age, read>>
history == <<tried, sent, repeats, deaths>>
vars    == <<rows, endpoint, fit, listed, queue, workers, faults, history>>

Statuses == {"none", "pending", "succeeded", "failed", "deleted"}
Stages   == {"idle", "taken", "claimed", "refused", "sending",
             "gone", "accepted", "stopped", "errored"}

TypeOK ==
    /\ status \in [Deliveries -> Statuses]
    /\ attempts \in [Deliveries -> 0..MAX_ATTEMPTS]
    /\ due \in [Deliveries -> Int \cup {Null}]
    /\ endpoint \in [Endpoints -> {"on", "off", "deleted"}]
    /\ fit \in [Endpoints -> BOOLEAN]
    /\ listed \subseteq Endpoints
    /\ queue \in [Deliveries -> 0..MaxQueued]
    /\ pc \in [Workers -> Stages]
    /\ job \in [Workers -> Deliveries \cup {Null}]
    /\ age \in [Workers -> 0..MaxAge]
    /\ read \in [Workers -> 0..MAX_ATTEMPTS]
    /\ faults \in 0..MaxFaults
    /\ tried \in [Deliveries -> SUBSET (1..MAX_ATTEMPTS)]
    /\ sent \in [Deliveries -> SUBSET (1..MAX_ATTEMPTS)]
    /\ repeats \in [Deliveries -> Nat]
    /\ deaths \in [Deliveries -> Nat]

Init ==
    /\ status = [d \in Deliveries |-> IF d \in Earlier THEN "failed" ELSE "none"]
    /\ attempts = [d \in Deliveries |-> 0]
    /\ due = [d \in Deliveries |-> Null]
    /\ endpoint = [e \in Endpoints |-> "on"]
    /\ fit = [e \in Endpoints |-> TRUE]
    /\ listed = {}
    /\ queue = [d \in Deliveries |-> 0]
    /\ pc = [w \in Workers |-> "idle"]
    /\ job = [w \in Workers |-> Null]
    /\ age = [w \in Workers |-> 0]
    /\ read = [w \in Workers |-> 0]
    /\ faults = 0
    /\ tried = [d \in Deliveries |-> {}]
    /\ sent = [d \in Deliveries |-> {}]
    /\ repeats = [d \in Deliveries |-> 0]
    /\ deaths = [d \in Deliveries |-> 0]

-----------------------------------------------------------------------------
(* Rows.                                                                   *)

Stored(d) == status[d] \in {"pending", "succeeded", "failed"}

\* Mutant of Due: only retries are swept, not a first attempt whose message
\* was lost.
DueRetries == {d \in Deliveries : status[d] = "pending" /\ due[d] <= 0 /\ attempts[d] > 0}

Due == {d \in Deliveries : status[d] = "pending" /\ due[d] <= 0}

\* A new pending row, due now; after the commit its message goes to the
\* broker, or the broker is unreachable and `_send` swallows that.
QueueDelivery(d) ==
    /\ status[d] = "none"
    /\ \A x \in Deliveries : x > d => status[x] = "none"
    /\ endpoint[EndpointOf[d]] # "deleted"
    /\ status' = [status EXCEPT ![d] = "pending"]
    /\ due' = [due EXCEPT ![d] = 0]
    /\ \/ queue' = [queue EXCEPT ![d] = 1]
       \/ UNCHANGED queue
    /\ UNCHANGED <<attempts, endpoint, fit, listed, workers, faults, history>>

\* A request that changed records reads the active endpoints once ...
ListEndpoints ==
    /\ listed' = {e \in Endpoints : endpoint[e] = "on"}
    /\ UNCHANGED <<rows, endpoint, fit, queue, workers, faults, history>>

\* ... and fans its events out to them afterwards.
FanOut(d) == EndpointOf[d] \in listed /\ QueueDelivery(d)

SendTest(d) == endpoint[EndpointOf[d]] = "on" /\ QueueDelivery(d)

\* Mutant of Redeliver: the settled row itself is reopened.
RedeliverInPlace(d) ==
    /\ status[d] \in {"succeeded", "failed"}
    /\ endpoint[EndpointOf[d]] = "on"
    /\ status' = [status EXCEPT ![d] = "pending"]
    /\ due' = [due EXCEPT ![d] = 0]
    /\ UNCHANGED <<attempts, endpoint, fit, listed, queue, workers, faults, history>>

\* A settled row sent again, as a new row of the same endpoint.
Redeliver(d) ==
    /\ \E original \in Deliveries :
          /\ status[original] \in {"succeeded", "failed"}
          /\ EndpointOf[original] = EndpointOf[d]
    /\ endpoint[EndpointOf[d]] = "on"
    /\ QueueDelivery(d)

Delete(D) ==
    /\ status' = [d \in Deliveries |-> IF d \in D THEN "deleted" ELSE status[d]]
    /\ due' = [d \in Deliveries |-> IF d \in D THEN Null ELSE due[d]]
    /\ UNCHANGED attempts

\* The nightly pruning goes by age alone, whatever a row's status.
Prune(newest) ==
    /\ \E d \in Deliveries : d <= newest /\ Stored(d)
    /\ Delete({d \in Deliveries : d <= newest /\ Stored(d)})
    /\ UNCHANGED <<endpoint, fit, listed, queue, workers, faults, history>>

-----------------------------------------------------------------------------
(* Endpoints, as a delivery sees them. WebhookOwnership has the detail.    *)

EndpointChanged ==
    UNCHANGED <<rows, listed, queue, workers, faults, history>>

SwitchOff(e) ==
    /\ endpoint[e] = "on"
    /\ endpoint' = [endpoint EXCEPT ![e] = "off"]
    /\ UNCHANGED fit
    /\ EndpointChanged

\* An admin turns the endpoint on, or re-points it, and becomes its creator;
\* their own standing may have gone since the request was let in.
TakeOver(e) ==
    /\ endpoint[e] # "deleted"
    /\ \E state \in {endpoint[e], "on"} : endpoint' = [endpoint EXCEPT ![e] = state]
    /\ \E stillAdmin \in BOOLEAN : fit' = [fit EXCEPT ![e] = stillAdmin]
    /\ EndpointChanged

\* The creator loses their standing: a receiver pauses the endpoint, or the
\* change came by a queryset update that reaches no receiver.
LoseStanding(e) ==
    /\ endpoint[e] # "deleted"
    /\ fit[e]
    /\ fit' = [fit EXCEPT ![e] = FALSE]
    /\ \E state \in {endpoint[e], "off"} : endpoint' = [endpoint EXCEPT ![e] = state]
    /\ EndpointChanged

DeleteEndpoint(e) ==
    /\ endpoint[e] # "deleted"
    /\ endpoint' = [endpoint EXCEPT ![e] = "deleted"]
    /\ Delete({d \in Deliveries : EndpointOf[d] = e /\ Stored(d)})
    /\ UNCHANGED <<fit, listed, queue, workers, faults, history>>

-----------------------------------------------------------------------------
(* One attempt.                                                            *)

Enter(w, stage) == pc' = [pc EXCEPT ![w] = stage]

Finish(w) ==
    /\ Enter(w, "idle")
    /\ job' = [job EXCEPT ![w] = Null]
    /\ age' = [age EXCEPT ![w] = 0]
    /\ read' = [read EXCEPT ![w] = 0]

\* A worker takes a message (acknowledged at once) and captures `now`.
Take(w, d) ==
    /\ pc[w] = "idle"
    /\ queue[d] > 0
    /\ queue' = [queue EXCEPT ![d] = @ - 1]
    /\ Enter(w, "taken")
    /\ job' = [job EXCEPT ![w] = d]
    /\ UNCHANGED <<rows, endpoint, fit, listed, age, read, faults, history>>

\* Mutant of Claimable: the UPDATE's condition without next_attempt_at.
ClaimablePending(w, d) == status[d] = "pending"

Claimable(w, d) == status[d] = "pending" /\ due[d] <= -age[w]

Claim(w) ==
    /\ pc[w] = "taken"
    /\ Claimable(w, job[w])
    /\ due' = [due EXCEPT ![job[w]] = Lease - age[w]]
    /\ Enter(w, "claimed")
    /\ UNCHANGED <<status, attempts, endpoint, fit, listed, queue, job, age, read,
                   faults, history>>

ClaimRefused(w) ==
    /\ pc[w] = "taken"
    /\ ~Claimable(w, job[w])
    /\ Finish(w)
    /\ UNCHANGED <<rows, endpoint, fit, listed, queue, faults, history>>

\* The row is read back with its endpoint, the creator is checked, and an
\* unfit creator's endpoint is paused. A row deleted since ends the task.
ReadBack(w) ==
    LET d == job[w]
        e == EndpointOf[d]
    IN  /\ pc[w] = "claimed"
        /\ Stored(d)
        /\ read' = [read EXCEPT ![w] = attempts[d]]
        /\ Enter(w, IF endpoint[e] = "on" /\ fit[e] THEN "sending" ELSE "refused")
        /\ endpoint' = [endpoint EXCEPT ![e] = IF fit[e] THEN @ ELSE "off"]
        /\ UNCHANGED <<rows, fit, listed, queue, job, age, faults, history>>

ReadBackFails(w) ==
    /\ pc[w] = "claimed"
    /\ ~Stored(job[w])
    /\ Finish(w)
    /\ UNCHANGED <<rows, endpoint, fit, listed, queue, faults, history>>

\* Mutant of Save: the attempt is not counted.
SaveUncounted(d, newStatus, newDue, newAttempts) ==
    \/ /\ Stored(d)
       /\ status' = [status EXCEPT ![d] = newStatus]
       /\ due' = [due EXCEPT ![d] = newDue]
       /\ UNCHANGED attempts
    \/ ~Stored(d) /\ UNCHANGED rows

\* An UPDATE by primary key: it touches nothing once the row is gone.
Save(d, newStatus, newDue, newAttempts) ==
    \/ /\ Stored(d)
       /\ status' = [status EXCEPT ![d] = newStatus]
       /\ due' = [due EXCEPT ![d] = newDue]
       /\ attempts' = [attempts EXCEPT ![d] = newAttempts]
    \/ ~Stored(d) /\ UNCHANGED rows

\* Mutant of RecordRefusal: an attempt that was never tried is counted.
RecordRefusalCounted(w) ==
    /\ pc[w] = "refused"
    /\ Save(job[w], "failed", Null, attempts[job[w]] + 1)
    /\ Finish(w)
    /\ UNCHANGED <<endpoint, fit, listed, queue, faults, history>>

\* "The endpoint is turned off." No attempt is counted.
RecordRefusal(w) ==
    /\ pc[w] = "refused"
    /\ Save(job[w], "failed", Null, attempts[job[w]])
    /\ Finish(w)
    /\ UNCHANGED <<endpoint, fit, listed, queue, faults, history>>

\* The request goes out and is answered 2xx or 410, or the attempt fails on
\* the way (another status, a timeout, an answer that is lost) ...
Arrives(w, d, n) ==
    /\ \E answer \in {"accepted", "gone", "errored"} : Enter(w, answer)
    /\ sent' = [sent EXCEPT ![d] = @ \cup {n}]
    /\ repeats' = [repeats EXCEPT ![d] = IF n \in sent[d] THEN @ + 1 ELSE @]

\* ... or nothing goes out: the destination is refused, its name does not
\* resolve or the connection is not made. That is an attempt all the same.
NeverLeaves(w) == Enter(w, "errored") /\ UNCHANGED <<sent, repeats>>

Post(w) ==
    LET d == job[w]
        n == read[w] + 1
    IN  /\ pc[w] = "sending"
        /\ Arrives(w, d, n) \/ NeverLeaves(w)
        /\ tried' = [tried EXCEPT ![d] = @ \cup {n}]
        /\ UNCHANGED <<rows, endpoint, fit, listed, queue, job, age, read,
                       faults, deaths>>

\* 410: the endpoint is turned off first, whoever owns it by now ...
TurnOff(w) ==
    LET e == EndpointOf[job[w]]
    IN  /\ pc[w] = "gone"
        /\ endpoint' = [endpoint EXCEPT ![e] = IF @ = "deleted" THEN @ ELSE "off"]
        /\ Enter(w, "stopped")
        /\ UNCHANGED <<rows, fit, listed, queue, job, age, read, faults, history>>

\* ... and then the outcome is written to the row.
Record(w) ==
    LET d == job[w]
        n == read[w] + 1
    IN  /\ \/ pc[w] = "accepted" /\ Save(d, "succeeded", Null, n)
           \/ pc[w] = "stopped" /\ Save(d, "failed", Null, n)
           \/ /\ pc[w] = "errored" /\ n < MAX_ATTEMPTS
              /\ Save(d, "pending", Backoff[n] - age[w], n)
           \/ /\ pc[w] = "errored" /\ n >= MAX_ATTEMPTS
              /\ Save(d, "failed", Null, n)
        /\ Finish(w)
        /\ UNCHANGED <<endpoint, fit, listed, queue, faults, history>>

-----------------------------------------------------------------------------
(* Beat, the broker, failures and time.                                    *)

\* The rows one sweep sees: the table's ordering is newest first.
Picked == {d \in Due : Cardinality({x \in Due : x > d}) < SweepLimit}

\* The sweep queues them newest first; a broker error ends it early, after
\* the rows from `last` up.
Sweep(last) ==
    /\ queue' = [d \in Deliveries |->
                   IF d \in Picked /\ d >= last /\ queue[d] < MaxQueued
                   THEN queue[d] + 1 ELSE queue[d]]
    /\ UNCHANGED <<rows, endpoint, fit, listed, workers, faults, history>>

WorkerDies(w) ==
    /\ pc[w] # "idle"
    /\ faults < MaxFaults
    /\ faults' = faults + 1
    /\ deaths' = [deaths EXCEPT ![job[w]] = @ + 1]
    /\ Finish(w)
    /\ UNCHANGED <<rows, endpoint, fit, listed, queue, tried, sent, repeats>>

BrokerLosesMessages ==
    /\ faults < MaxFaults
    /\ faults' = faults + 1
    /\ queue' = [d \in Deliveries |-> 0]
    /\ UNCHANGED <<rows, endpoint, fit, listed, workers, history>>

\* Overdue time is counted down to -MaxAge, the earliest `now` in use.
Tick ==
    /\ \A w \in Workers : pc[w] # "idle" => age[w] < MaxAge
    /\ age' = [w \in Workers |-> IF pc[w] = "idle" THEN 0 ELSE age[w] + 1]
    /\ due' = [d \in Deliveries |->
                 IF status[d] = "pending" /\ due[d] > -MaxAge
                 THEN due[d] - 1 ELSE due[d]]
    /\ UNCHANGED <<status, attempts, endpoint, fit, listed, queue, pc, job, read,
                   faults, history>>

-----------------------------------------------------------------------------
Work(w) == \/ Claim(w) \/ ClaimRefused(w) \/ ReadBack(w) \/ ReadBackFails(w)
           \/ RecordRefusal(w) \/ Post(w) \/ TurnOff(w) \/ Record(w)

Next ==
    \/ ListEndpoints
    \/ \E d \in Deliveries : FanOut(d) \/ SendTest(d) \/ Redeliver(d) \/ Prune(d)
    \/ \E e \in Endpoints : \/ SwitchOff(e) \/ TakeOver(e)
                            \/ LoseStanding(e) \/ DeleteEndpoint(e)
    \/ \E w \in Workers : \/ \E d \in Deliveries : Take(w, d)
                          \/ Work(w)
                          \/ WorkerDies(w)
    \/ \E d \in Deliveries : Sweep(d)
    \/ BrokerLosesMessages
    \/ Tick

Spec == Init /\ [][Next]_vars

\* Workers run what they took, no message is passed over for ever (the Redis
\* list is first in, first out), beat sweeps, and time passes.
Fairness ==
    /\ \A w \in Workers : WF_vars(Work(w))
    /\ \A d \in Deliveries : SF_vars(\E w \in Workers : Take(w, d))
    /\ WF_vars(\E d \in Deliveries : (\A x \in Deliveries : d <= x) /\ Sweep(d))
    /\ WF_vars(Tick)

FairSpec == Spec /\ Fairness

-----------------------------------------------------------------------------
(* Properties.                                                             *)

Holding == {"claimed", "refused", "sending", "gone", "accepted", "stopped", "errored"}

\* Two workers never hold the same row past the claim: the immediate send
\* queued at commit and the sweeper cannot both send the same attempt
\* (webhooks/tasks.py, "Every attempt first claims its row").
OneSender ==
    \A v, w \in Workers :
        (v # w /\ pc[v] \in Holding /\ pc[w] \in Holding) => job[v] # job[w]

\* A receiver sees one attempt number again only where a worker died holding
\* the row: claims, sweeps, retries and duplicate messages repeat nothing.
RepeatsArePaidFor == \A d \in Deliveries : repeats[d] <= deaths[d]

\* The attempts column counts the tries, those that never left the machine
\* included: every number up to it was tried, at most the one being recorded
\* is beyond it, and a row reads succeeded only where its last try did reach
\* the receiver.
AttemptsWereTried ==
    \A d \in Deliveries :
        /\ 1..attempts[d] \subseteq tried[d]
        /\ tried[d] \subseteq 1..(attempts[d] + 1)
        /\ sent[d] \subseteq tried[d]
        /\ status[d] = "succeeded" => attempts[d] \in sent[d]

\* The row is the schedule: it has a next attempt exactly while it is
\* pending, so a sweep can find it after any loss, and never after it settled.
ScheduledWhilePending ==
    \A d \in Deliveries : (status[d] = "pending") <=> (due[d] # Null)

Promise == INSTANCE DeliveryPromise WITH MaxAttempts <- MAX_ATTEMPTS

\* The machinery keeps the log's promise: settled rows never reopen, attempts
\* grow one at a time up to the limit, and a refusal counts none.
KeepsPromise == Promise!Spec

\* Every row settles or is deleted, whatever was lost on the way.
EventuallySettles ==
    \A d \in Deliveries : (status[d] = "pending") ~> (status[d] # "pending")
=============================================================================
