-------------------------- MODULE DeliveryPromise --------------------------
(***************************************************************************)
(* What the delivery log promises to whoever reads it: the fields of one   *)
(* webhook_delivery row that the API shows, and the only ways they change. *)
(* Workers, claims, the broker and the clock do not appear here;           *)
(* WebhookDelivery is the machinery that has to keep this promise.         *)
(***************************************************************************)
EXTENDS Naturals

CONSTANTS Deliveries,   \* the rows the log can ever hold
          Earlier,      \* those it holds to begin with, refused
          MaxAttempts   \* attempts after which a delivery is given up

VARIABLES status,       \* none, pending, succeeded, failed or deleted, per row
          attempts      \* attempts made and recorded, per row

promiseVars == <<status, attempts>>

Settled == {"succeeded", "failed"}

Init == /\ status = [d \in Deliveries |-> IF d \in Earlier THEN "failed" ELSE "none"]
        /\ attempts = [d \in Deliveries |-> 0]

\* A change, a test or a redelivery is logged as a new row, due at once.
Log(d) == /\ status[d] = "none"
          /\ status' = [status EXCEPT ![d] = "pending"]
          /\ UNCHANGED attempts

\* An attempt is recorded: it succeeded, or was answered 410 and ends the
\* delivery, or failed and leaves it pending while attempts remain.
Attempt(d) == /\ status[d] = "pending"
              /\ attempts' = [attempts EXCEPT ![d] = @ + 1]
              /\ \/ /\ attempts[d] < MaxAttempts
                    /\ \E s \in Settled : status' = [status EXCEPT ![d] = s]
                 \/ /\ attempts[d] + 1 < MaxAttempts
                    /\ UNCHANGED status

\* The endpoint turned out to be off, or its creator unfit: nothing was sent.
Refuse(d) == /\ status[d] = "pending"
             /\ status' = [status EXCEPT ![d] = "failed"]
             /\ UNCHANGED attempts

\* Rows leave with their endpoint, or by age.
Delete(D) == /\ \A d \in D : status[d] \in {"pending"} \cup Settled
             /\ status' = [d \in Deliveries |->
                             IF d \in D THEN "deleted" ELSE status[d]]
             /\ UNCHANGED attempts

Next == \/ \E d \in Deliveries : Log(d) \/ Attempt(d) \/ Refuse(d)
        \/ \E D \in SUBSET Deliveries : Delete(D)

Spec == Init /\ [][Next]_promiseVars
=============================================================================
