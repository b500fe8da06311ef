----------------------- MODULE WebhookDeliveryProofs -----------------------
(***************************************************************************)
(* Proofs about WebhookDelivery, for any number of rows, endpoints and     *)
(* workers and any back-off. The safety theorems assume what the code's    *)
(* comment assumes: that an attempt ends before its claim runs out.        *)
(***************************************************************************)
EXTENDS WebhookDelivery, TLAPS

AttemptsFitLease == MaxAge < Lease

Posted == {"gone", "accepted", "stopped", "errored"}
BeforePost == {"claimed", "refused", "sending"}

WorkersHaveJobs ==
    \A w \in Workers : pc[w] # "idle" => job[w] \in Deliveries

Unborn ==
    \A d \in Deliveries : status[d] = "none" => attempts[d] = 0 /\ tried[d] = {}

RoomForAttempt ==
    \A d \in Deliveries : status[d] = "pending" => attempts[d] < MAX_ATTEMPTS

\* A worker past the claim holds a lease on its row that has not run out: the
\* row is still pending and due exactly when the lease ends, unless deleted.
HeldBy(w) ==
    /\ status[job[w]] \in {"pending", "deleted"}
    /\ status[job[w]] = "pending" => due[job[w]] = Lease - age[w]
    /\ attempts[job[w]] < MAX_ATTEMPTS
    /\ pc[w] # "claimed" => read[w] = attempts[job[w]]
    /\ pc[w] \in Posted => attempts[job[w]] + 1 \in tried[job[w]]
    /\ pc[w] = "accepted" => attempts[job[w]] + 1 \in sent[job[w]]

HeldIsLeased == \A w \in Workers : pc[w] \in Holding => HeldBy(w)

\* The next attempt number was POSTed by a worker that is no longer there to
\* record it, and may be POSTed again.
Owed(d) ==
    /\ attempts[d] + 1 \in sent[d]
    /\ \A w \in Workers : ~(pc[w] \in Posted /\ job[w] = d)
    /\ \/ status[d] = "pending"
       \/ \E w \in Workers : pc[w] \in BeforePost /\ job[w] = d

RepeatsAccounted ==
    \A d \in Deliveries : repeats[d] + (IF Owed(d) THEN 1 ELSE 0) <= deaths[d]

IInv ==
    /\ TypeOK
    /\ WorkersHaveJobs
    /\ Unborn
    /\ RoomForAttempt
    /\ ScheduledWhilePending
    /\ HeldIsLeased
    /\ OneSender
    /\ AttemptsWereTried
    /\ RepeatsAccounted

-----------------------------------------------------------------------------
USE DeliveryAssumption DEF DeliveryAssumption

LEMMA MaxAttemptsNat == MAX_ATTEMPTS \in Nat \ {0}
  BY DEF MAX_ATTEMPTS

LEMMA CountersCountUp ==
  ASSUME NEW S, NEW f \in [S -> Nat], NEW x \in S
  PROVE  [f EXCEPT ![x] = @ + 1] \in [S -> Nat]
  OBVIOUS

LEMMA AttemptsAreNat ==
  ASSUME TypeOK, NEW d \in Deliveries
  PROVE  attempts[d] \in 0..MAX_ATTEMPTS /\ attempts[d] \in Nat
  BY MaxAttemptsNat DEF TypeOK

LEMMA InitHolds == Init => IInv
<1> SUFFICES ASSUME Init PROVE IInv
  OBVIOUS
<1>1. TypeOK
  BY MaxAttemptsNat DEF Init, TypeOK, Statuses, Stages
<1>2. WorkersHaveJobs /\ Unborn /\ RoomForAttempt /\ ScheduledWhilePending
  BY MaxAttemptsNat DEF Init, WorkersHaveJobs, Unborn, RoomForAttempt, ScheduledWhilePending
<1>3. HeldIsLeased /\ OneSender
  BY DEF Init, HeldIsLeased, HeldBy, OneSender, Holding
<1>4. AttemptsWereTried /\ RepeatsAccounted
  BY DEF Init, AttemptsWereTried, RepeatsAccounted, Owed
<1> QED
  BY <1>1, <1>2, <1>3, <1>4 DEF IInv

\* Steps that leave rows, workers and what was sent alone keep the invariant.
LEMMA ElsewhereStep ==
  ASSUME IInv, TypeOK', UNCHANGED <<rows, workers, history>>
  PROVE  IInv'
  BY DEF IInv, rows, workers, history, WorkersHaveJobs, Unborn, RoomForAttempt,
         ScheduledWhilePending, HeldIsLeased, HeldBy, OneSender, AttemptsWereTried,
         RepeatsAccounted, Owed

LEMMA NothingNewOwed ==
  ASSUME IInv, UNCHANGED <<repeats, deaths>>,
         \A d \in Deliveries : Owed(d)' => Owed(d)
  PROVE  RepeatsAccounted'
  BY DEF IInv, TypeOK, RepeatsAccounted

LEMMA QueueDeliveryStep ==
  ASSUME IInv, NEW d \in Deliveries, QueueDelivery(d)
  PROVE  IInv'
<1> USE MaxAttemptsNat DEF IInv, QueueDelivery, workers, history
<1>1. TypeOK'
  <2>1. status' \in [Deliveries -> Statuses]
    BY DEF TypeOK, Statuses
  <2>2. due' \in [Deliveries -> Int \cup {Null}]
    BY DEF TypeOK
  <2>3. queue' \in [Deliveries -> 0..MaxQueued]
    BY DEF TypeOK
  <2> QED
    BY <2>1, <2>2, <2>3 DEF TypeOK
<1>2. WorkersHaveJobs' /\ Unborn' /\ RoomForAttempt' /\ ScheduledWhilePending'
  BY DEF TypeOK, Statuses, WorkersHaveJobs, Unborn, RoomForAttempt, ScheduledWhilePending
<1>3. HeldIsLeased' /\ OneSender'
  BY DEF TypeOK, Statuses, Stages, HeldIsLeased, HeldBy, OneSender, WorkersHaveJobs, Holding
<1>4. AttemptsWereTried' /\ RepeatsAccounted'
  BY DEF TypeOK, Unborn, AttemptsWereTried, RepeatsAccounted, Owed
<1> QED
  BY <1>1, <1>2, <1>3, <1>4

LEMMA ClaimStep ==
  ASSUME IInv, AttemptsFitLease, NEW w \in Workers, Claim(w)
  PROVE  IInv'
<1> USE MaxAttemptsNat DEF IInv, Claim, Enter, history, Claimable
<1>1. TypeOK'
  <2>1. due' \in [Deliveries -> Int \cup {Null}]
    BY DEF TypeOK, WorkersHaveJobs
  <2>2. pc' \in [Workers -> Stages]
    BY DEF TypeOK, Stages
  <2> QED
    BY <2>1, <2>2 DEF TypeOK
<1>2. WorkersHaveJobs' /\ Unborn' /\ RoomForAttempt' /\ ScheduledWhilePending'
  BY DEF TypeOK, WorkersHaveJobs, Unborn, RoomForAttempt, ScheduledWhilePending
<1>3. HeldIsLeased'
  <2> SUFFICES ASSUME NEW v \in Workers, pc'[v] \in Holding
               PROVE  HeldBy(v)'
    BY DEF HeldIsLeased
  <2>1. CASE v = w
    BY <2>1 DEF TypeOK, HeldBy, WorkersHaveJobs, Posted, RoomForAttempt
  <2>2. CASE v # w
    <3>1. pc[v] \in Holding /\ HeldBy(v)
      BY <2>2 DEF TypeOK, HeldIsLeased
    <3>2. job[v] # job[w]
      BY <3>1 DEF TypeOK, HeldBy, AttemptsFitLease
    <3> QED
      BY <2>2, <3>1, <3>2 DEF TypeOK, HeldBy, WorkersHaveJobs, Holding
  <2> QED
    BY <2>1, <2>2
<1>4. OneSender'
  BY DEF TypeOK, Stages, HeldIsLeased, HeldBy, OneSender, Holding, AttemptsFitLease
<1>5. AttemptsWereTried'
  BY DEF AttemptsWereTried
<1>6. ASSUME NEW d \in Deliveries, Owed(d)'
      PROVE  Owed(d)
  BY <1>6 DEF TypeOK, Owed, Posted, BeforePost
<1>7. RepeatsAccounted'
  BY <1>6, NothingNewOwed
<1> QED
  BY <1>1, <1>2, <1>3, <1>4, <1>5, <1>7

LEMMA DeleteStep ==
  ASSUME IInv, NEW D \in SUBSET Deliveries, \A d \in D : Stored(d), Delete(D),
         endpoint' \in [Endpoints -> {"on", "off", "deleted"}],
         UNCHANGED <<fit, listed, queue, workers, faults, history>>
  PROVE  IInv'
<1> USE MaxAttemptsNat DEF IInv, Delete, Stored, workers, history
<1>1. TypeOK'
  BY DEF TypeOK, Statuses
<1>2. WorkersHaveJobs' /\ Unborn' /\ RoomForAttempt' /\ ScheduledWhilePending'
  BY DEF TypeOK, WorkersHaveJobs, Unborn, RoomForAttempt, ScheduledWhilePending
<1>3. HeldIsLeased' /\ OneSender'
  BY DEF TypeOK, HeldIsLeased, HeldBy, OneSender, WorkersHaveJobs, Holding
<1>4. AttemptsWereTried'
  BY DEF TypeOK, AttemptsWereTried
<1>5. RepeatsAccounted'
  <2>1. ASSUME NEW d \in Deliveries, Owed(d)'
        PROVE  Owed(d)
    BY <2>1 DEF TypeOK, Owed
  <2> QED
    BY <2>1, NothingNewOwed
<1> QED
  BY <1>1, <1>2, <1>3, <1>4, <1>5

LEMMA TakeStep ==
  ASSUME IInv, NEW w \in Workers, NEW d \in Deliveries, Take(w, d)
  PROVE  IInv'
<1> USE MaxAttemptsNat DEF IInv, Take, Enter, rows, history
<1>1. TypeOK'
  <2>1. queue' \in [Deliveries -> 0..MaxQueued]
    BY DEF TypeOK
  <2>2. pc' \in [Workers -> Stages] /\ job' \in [Workers -> Deliveries \cup {Null}]
    BY DEF TypeOK, Stages
  <2> QED
    BY <2>1, <2>2 DEF TypeOK
<1>2. WorkersHaveJobs' /\ Unborn' /\ RoomForAttempt' /\ ScheduledWhilePending'
  BY DEF TypeOK, WorkersHaveJobs, Unborn, RoomForAttempt, ScheduledWhilePending
<1>3. \A v \in Workers : pc'[v] \in Holding => pc'[v] = pc[v] /\ job'[v] = job[v]
  BY DEF TypeOK, Holding
<1>4. HeldIsLeased'
  BY <1>3 DEF HeldIsLeased, HeldBy
<1>5. OneSender'
  BY <1>3 DEF OneSender
<1>6. AttemptsWereTried'
  BY DEF AttemptsWereTried
<1>7. ASSUME NEW x \in Deliveries, Owed(x)'
      PROVE  Owed(x)
  BY <1>7 DEF TypeOK, Owed, Posted, BeforePost
<1>8. RepeatsAccounted'
  BY <1>7, NothingNewOwed
<1> QED
  BY <1>1, <1>2, <1>4, <1>5, <1>6, <1>8

\* A worker that gives up before or without changing the row.
LEMMA FinishStep ==
  ASSUME IInv, NEW w \in Workers, Finish(w), pc[w] \notin Posted,
         UNCHANGED <<rows, endpoint, fit, listed, queue, faults, history>>
  PROVE  IInv'
<1> USE MaxAttemptsNat DEF IInv, Finish, Enter, rows, history
<1>1. TypeOK'
  <2>1. pc' \in [Workers -> Stages] /\ job' \in [Workers -> Deliveries \cup {Null}]
    BY DEF TypeOK, Stages
  <2>2. age' \in [Workers -> 0..MaxAge] /\ read' \in [Workers -> 0..MAX_ATTEMPTS]
    BY DEF TypeOK
  <2> QED
    BY <2>1, <2>2 DEF TypeOK
<1>2. WorkersHaveJobs' /\ Unborn' /\ RoomForAttempt' /\ ScheduledWhilePending'
  BY DEF TypeOK, WorkersHaveJobs, Unborn, RoomForAttempt, ScheduledWhilePending
<1>3. HeldIsLeased' /\ OneSender'
  BY DEF TypeOK, HeldIsLeased, HeldBy, OneSender, Holding
<1>4. AttemptsWereTried'
  BY DEF AttemptsWereTried
<1>5. ASSUME NEW d \in Deliveries, Owed(d)'
      PROVE  Owed(d)
  BY <1>5 DEF TypeOK, Owed, BeforePost, Posted
<1>6. RepeatsAccounted'
  BY <1>5, NothingNewOwed
<1> QED
  BY <1>1, <1>2, <1>3, <1>4, <1>6

LEMMA ReadBackStep ==
  ASSUME IInv, NEW w \in Workers, ReadBack(w)
  PROVE  IInv'
<1> USE MaxAttemptsNat DEF IInv, ReadBack, Enter, rows, history
<1>1. job[w] \in Deliveries
  BY DEF WorkersHaveJobs
<1>2. TypeOK'
  BY <1>1 DEF TypeOK, Stages
<1>3. WorkersHaveJobs' /\ Unborn' /\ RoomForAttempt' /\ ScheduledWhilePending'
  BY DEF TypeOK, WorkersHaveJobs, Unborn, RoomForAttempt, ScheduledWhilePending
<1>4. HeldIsLeased' /\ OneSender'
  BY DEF TypeOK, HeldIsLeased, HeldBy, OneSender, Holding, Posted
<1>5. AttemptsWereTried'
  BY DEF AttemptsWereTried
<1>6. ASSUME NEW d \in Deliveries, Owed(d)'
      PROVE  Owed(d)
  BY <1>6 DEF TypeOK, Owed, Posted, BeforePost
<1>7. RepeatsAccounted'
  BY <1>6, NothingNewOwed
<1> QED
  BY <1>2, <1>3, <1>4, <1>5, <1>7

\* A worker past the claim writes the outcome of its attempt, or of not making
\* one, to the row it holds.
LEMMA SaveStep ==
  ASSUME IInv, NEW w \in Workers, pc[w] \in Holding,
         NEW s \in {"pending", "succeeded", "failed"}, NEW t \in Int \cup {Null},
         NEW n \in 0..MAX_ATTEMPTS,
         s = "pending" <=> t # Null,
         s = "pending" => n < MAX_ATTEMPTS /\ n = attempts[job[w]] + 1,
         n = attempts[job[w]] \/ (n = attempts[job[w]] + 1 /\ n \in tried[job[w]]),
         s = "succeeded" => n \in sent[job[w]],
         Save(job[w], s, t, n), Finish(w),
         UNCHANGED <<endpoint, fit, listed, queue, faults, history>>
  PROVE  IInv'
<1> DEFINE d == job[w]
<1> USE MaxAttemptsNat DEF IInv
<1>1. d \in Deliveries /\ HeldBy(w)
  BY DEF WorkersHaveJobs, HeldIsLeased, Holding
<1>2. \/ /\ status[d] = "pending"
         /\ status' = [status EXCEPT ![d] = s]
         /\ due' = [due EXCEPT ![d] = t]
         /\ attempts' = [attempts EXCEPT ![d] = n]
      \/ status[d] = "deleted" /\ UNCHANGED rows
  BY <1>1 DEF Save, Stored, HeldBy
<1>3. /\ status' \in [Deliveries -> Statuses]
      /\ attempts' \in [Deliveries -> 0..MAX_ATTEMPTS]
      /\ due' \in [Deliveries -> Int \cup {Null}]
      /\ \A x \in Deliveries : x # d =>
            /\ status'[x] = status[x]
            /\ due'[x] = due[x]
            /\ attempts'[x] = attempts[x]
      /\ \/ status[d] = "pending" /\ status'[d] = s /\ due'[d] = t /\ attempts'[d] = n
         \/ /\ status[d] = "deleted" /\ status'[d] = "deleted"
            /\ due'[d] = due[d] /\ attempts'[d] = attempts[d]
  <2>1. CASE /\ status[d] = "pending"
             /\ status' = [status EXCEPT ![d] = s]
             /\ due' = [due EXCEPT ![d] = t]
             /\ attempts' = [attempts EXCEPT ![d] = n]
    BY <1>1, <2>1 DEF TypeOK, Statuses
  <2>2. CASE status[d] = "deleted" /\ UNCHANGED rows
    BY <2>2 DEF TypeOK, rows
  <2> QED
    BY <1>2, <2>1, <2>2
<1>4. /\ pc' \in [Workers -> Stages] /\ job' \in [Workers -> Deliveries \cup {Null}]
      /\ age' \in [Workers -> 0..MaxAge] /\ read' \in [Workers -> 0..MAX_ATTEMPTS]
      /\ pc'[w] = "idle"
      /\ \A v \in Workers : v # w =>
            pc'[v] = pc[v] /\ job'[v] = job[v] /\ age'[v] = age[v] /\ read'[v] = read[v]
  BY DEF Finish, Enter, TypeOK, Stages
<1>5. \A v \in Workers : pc'[v] \in Holding => v # w /\ job'[v] = job[v] /\ job[v] # d
  BY <1>4 DEF OneSender, Holding
<1>6. TypeOK'
  BY <1>3, <1>4 DEF TypeOK, history
<1>7. WorkersHaveJobs' /\ OneSender'
  <2>1. WorkersHaveJobs'
    BY <1>4 DEF WorkersHaveJobs
  <2>2. \A v \in Workers : pc'[v] \in Holding => pc[v] \in Holding /\ job'[v] = job[v]
    BY <1>4, <1>5
  <2>3. OneSender'
    BY <2>2 DEF OneSender
  <2> QED
    BY <2>1, <2>3
<1>8. Unborn' /\ RoomForAttempt' /\ ScheduledWhilePending'
  <2> SUFFICES ASSUME NEW x \in Deliveries
               PROVE  /\ status'[x] = "none" => attempts'[x] = 0 /\ tried[x] = {}
                      /\ status'[x] = "pending" => attempts'[x] < MAX_ATTEMPTS
                      /\ status'[x] = "pending" <=> due'[x] # Null
    BY DEF Unborn, RoomForAttempt, ScheduledWhilePending, history
  <2>1. /\ status[x] = "none" => attempts[x] = 0 /\ tried[x] = {}
        /\ status[x] = "pending" => attempts[x] < MAX_ATTEMPTS
        /\ status[x] = "pending" <=> due[x] # Null
    BY DEF Unborn, RoomForAttempt, ScheduledWhilePending
  <2>2. CASE x = d
    BY <1>3, <2>1, <2>2
  <2>3. CASE x # d
    BY <1>3, <2>1, <2>3
  <2> QED
    BY <2>2, <2>3
<1>9. HeldIsLeased'
  <2> SUFFICES ASSUME NEW v \in Workers, pc'[v] \in Holding
               PROVE  HeldBy(v)'
    BY DEF HeldIsLeased
  <2>1. v # w /\ job'[v] = job[v] /\ job[v] # d
    BY <1>5
  <2>2. HeldBy(v) /\ pc'[v] = pc[v] /\ job[v] \in Deliveries
    BY <1>4, <2>1 DEF HeldIsLeased, WorkersHaveJobs, Holding
  <2>3. /\ status'[job[v]] = status[job[v]]
        /\ due'[job[v]] = due[job[v]]
        /\ attempts'[job[v]] = attempts[job[v]]
    BY <1>3, <2>1, <2>2
  <2>4. age'[v] = age[v] /\ read'[v] = read[v]
    BY <1>4, <2>1
  <2> QED
    BY <2>1, <2>2, <2>3, <2>4 DEF HeldBy, history
<1>10. AttemptsWereTried'
  <2> SUFFICES ASSUME NEW x \in Deliveries
               PROVE  /\ 1..attempts'[x] \subseteq tried[x]
                      /\ tried[x] \subseteq 1..(attempts'[x] + 1)
                      /\ sent[x] \subseteq tried[x]
                      /\ status'[x] = "succeeded" => attempts'[x] \in sent[x]
    BY DEF AttemptsWereTried, history
  <2>1. /\ 1..attempts[x] \subseteq tried[x] /\ tried[x] \subseteq 1..(attempts[x] + 1)
        /\ sent[x] \subseteq tried[x]
        /\ status[x] = "succeeded" => attempts[x] \in sent[x]
    BY DEF AttemptsWereTried
  <2>2. attempts[x] \in Nat
    BY AttemptsAreNat
  <2>3. status'[x] = "succeeded" => attempts'[x] \in sent[x]
    BY <1>1, <1>3, <2>1
  <2>4. \/ attempts'[x] = attempts[x]
        \/ attempts'[x] = attempts[x] + 1 /\ attempts[x] + 1 \in tried[x]
    BY <1>1, <1>3
  <2>5. CASE attempts'[x] = attempts[x]
    BY <2>1, <2>3, <2>5
  <2>6. CASE attempts'[x] = attempts[x] + 1 /\ attempts[x] + 1 \in tried[x]
    BY <2>1, <2>2, <2>3, <2>6
  <2> QED
    BY <2>4, <2>5, <2>6
<1>11. ASSUME NEW x \in Deliveries, Owed(x)'
       PROVE  Owed(x)
  <2>1. CASE x = d
    <3>1. \A v \in Workers : ~(pc'[v] \in BeforePost /\ job'[v] = d)
      BY <1>5 DEF BeforePost, Holding
    <3>2. status'[d] = "pending" /\ n + 1 \in sent[d]
      BY <1>3, <1>11, <2>1, <3>1 DEF Owed, history
    <3>3. n = attempts[d] + 1
      BY <1>3, <3>2
    <3>4. n + 1 \in 1..(attempts[d] + 1)
      BY <1>1, <3>2 DEF AttemptsWereTried
    <3>5. attempts[d] \in Nat
      BY <1>1, AttemptsAreNat
    <3> QED
      BY <3>3, <3>4, <3>5
  <2>2. CASE x # d
    BY <1>3, <1>4, <1>11, <2>2 DEF Owed, history, BeforePost
  <2> QED
    BY <2>1, <2>2
<1>12. RepeatsAccounted'
  BY <1>11, NothingNewOwed DEF history
<1> QED
  BY <1>6, <1>7, <1>8, <1>9, <1>10, <1>12

LEMMA RecordRefusalStep ==
  ASSUME IInv, NEW w \in Workers, RecordRefusal(w)
  PROVE  IInv'
<1>1. job[w] \in Deliveries /\ attempts[job[w]] \in 0..MAX_ATTEMPTS
  BY DEF RecordRefusal, IInv, TypeOK, WorkersHaveJobs
<1> QED
  BY <1>1, SaveStep DEF RecordRefusal, Holding

LEMMA PostStep ==
  ASSUME IInv, NEW w \in Workers, Post(w)
  PROVE  IInv'
<1> USE MaxAttemptsNat DEF IInv
<1> DEFINE d == job[w]
           n == read[w] + 1
<1>1. d \in Deliveries /\ HeldBy(w) /\ pc[w] = "sending"
  BY DEF Post, WorkersHaveJobs, HeldIsLeased, Holding
<1>2. n = attempts[d] + 1 /\ n \in 1..MAX_ATTEMPTS
  BY <1>1 DEF TypeOK, HeldBy
<1> UNCHANGED <<rows, endpoint, fit, listed, queue, job, age, read, faults, deaths>>
  BY DEF Post
<1> USE DEF rows
<1>3. /\ tried' \in [Deliveries -> SUBSET (1..MAX_ATTEMPTS)]
      /\ tried'[d] = tried[d] \cup {n}
      /\ \A x \in Deliveries : x # d => tried'[x] = tried[x]
  <2>1. tried' = [tried EXCEPT ![d] = @ \cup {n}]
    BY DEF Post
  <2> QED
    BY <1>1, <1>2, <2>1 DEF TypeOK
<1>4. /\ sent' \in [Deliveries -> SUBSET (1..MAX_ATTEMPTS)]
      /\ repeats' \in [Deliveries -> Nat]
      /\ \A x \in Deliveries : x # d => sent'[x] = sent[x] /\ repeats'[x] = repeats[x]
      /\ \/ /\ sent'[d] = sent[d] \cup {n}
            /\ repeats'[d] = IF n \in sent[d] THEN repeats[d] + 1 ELSE repeats[d]
         \/ sent'[d] = sent[d] /\ repeats'[d] = repeats[d] /\ pc'[w] = "errored"
      /\ pc' \in [Workers -> Stages]
      /\ pc'[w] \in {"accepted", "gone", "errored"}
      /\ \A v \in Workers : v # w => pc'[v] = pc[v]
  <2>1. CASE Arrives(w, d, n)
    <3>1. /\ pc' \in [Workers -> Stages]
          /\ pc'[w] \in {"accepted", "gone", "errored"}
          /\ \A v \in Workers : v # w => pc'[v] = pc[v]
      BY <2>1 DEF Arrives, Enter, TypeOK, Stages
    <3>2. /\ sent' \in [Deliveries -> SUBSET (1..MAX_ATTEMPTS)]
          /\ sent'[d] = sent[d] \cup {n}
          /\ \A x \in Deliveries : x # d => sent'[x] = sent[x]
      BY <1>1, <1>2, <2>1 DEF Arrives, TypeOK
    <3>3. repeats \in [Deliveries -> Nat]
      BY DEF TypeOK
    <3>4. CASE n \in sent[d]
      <4>1. repeats' = [repeats EXCEPT ![d] = @ + 1]
        BY <2>1, <3>4 DEF Arrives
      <4>2. repeats' \in [Deliveries -> Nat]
        BY <1>1, <3>3, <4>1, CountersCountUp
      <4> QED
        BY <1>1, <3>1, <3>2, <3>3, <3>4, <4>1, <4>2
    <3>5. CASE n \notin sent[d]
      <4>1. repeats' = repeats
        BY <2>1, <3>3, <3>5 DEF Arrives
      <4> QED
        BY <3>1, <3>2, <3>3, <3>5, <4>1
    <3> QED
      BY <3>4, <3>5
  <2>2. CASE NeverLeaves(w)
    BY <2>2 DEF NeverLeaves, Enter, TypeOK, Stages
  <2> QED
    BY <2>1, <2>2 DEF Post
<1>7. TypeOK'
  BY <1>3, <1>4 DEF TypeOK
<1>8. WorkersHaveJobs' /\ RoomForAttempt' /\ ScheduledWhilePending'
  BY <1>1, <1>4 DEF WorkersHaveJobs, RoomForAttempt, ScheduledWhilePending
<1>9. Unborn'
  BY <1>1, <1>3 DEF Unborn, HeldBy
<1>10. HeldIsLeased'
  <2> SUFFICES ASSUME NEW v \in Workers, pc'[v] \in Holding
               PROVE  HeldBy(v)'
    BY DEF HeldIsLeased
  <2>1. CASE v = w
    BY <1>1, <1>2, <1>3, <1>4, <2>1 DEF HeldBy
  <2>2. CASE v # w
    <3>1. pc'[v] = pc[v] /\ HeldBy(v) /\ job[v] \in Deliveries /\ job[v] # d
      BY <1>1, <1>4, <2>2 DEF HeldIsLeased, OneSender, WorkersHaveJobs, Holding
    <3>2. tried'[job[v]] = tried[job[v]] /\ sent'[job[v]] = sent[job[v]]
      BY <1>3, <1>4, <3>1
    <3> QED
      BY <3>1, <3>2 DEF HeldBy
  <2> QED
    BY <2>1, <2>2
<1>11. OneSender'
  BY <1>1, <1>4 DEF OneSender, Holding
<1>12. AttemptsWereTried'
  <2> SUFFICES ASSUME NEW x \in Deliveries
               PROVE  /\ 1..attempts[x] \subseteq tried'[x]
                      /\ tried'[x] \subseteq 1..(attempts[x] + 1)
                      /\ sent'[x] \subseteq tried'[x]
                      /\ status[x] = "succeeded" => attempts[x] \in sent'[x]
    BY DEF AttemptsWereTried
  <2>1. /\ 1..attempts[x] \subseteq tried[x] /\ tried[x] \subseteq 1..(attempts[x] + 1)
        /\ sent[x] \subseteq tried[x]
        /\ status[x] = "succeeded" => attempts[x] \in sent[x]
    BY DEF AttemptsWereTried
  <2>2. attempts[x] \in Nat
    BY AttemptsAreNat
  <2> QED
    BY <1>2, <1>3, <1>4, <2>1, <2>2
<1>13. RepeatsAccounted'
  <2> SUFFICES ASSUME NEW x \in Deliveries
               PROVE  repeats'[x] + (IF Owed(x)' THEN 1 ELSE 0) <= deaths[x]
    BY DEF RepeatsAccounted
  <2>1. /\ repeats[x] + (IF Owed(x) THEN 1 ELSE 0) <= deaths[x]
        /\ repeats[x] \in Nat /\ deaths[x] \in Nat
    BY DEF RepeatsAccounted, TypeOK
  <2>2. CASE x = d
    <3>1. ~Owed(x)'
      BY <1>4, <2>2 DEF Owed, Posted
    <3>2. n \in sent[d] => Owed(d)
      BY <1>1, <1>2 DEF Owed, OneSender, Holding, Posted, BeforePost
    <3> QED
      BY <1>4, <2>1, <2>2, <3>1, <3>2
  <2>3. CASE x # d
    <3>1. Owed(x)' => Owed(x)
      BY <1>1, <1>4, <2>3 DEF Owed, Posted, BeforePost
    <3> QED
      BY <1>4, <2>1, <2>3, <3>1
  <2> QED
    BY <2>2, <2>3
<1> QED
  BY <1>7, <1>8, <1>9, <1>10, <1>11, <1>12, <1>13

LEMMA TurnOffStep ==
  ASSUME IInv, NEW w \in Workers, TurnOff(w)
  PROVE  IInv'
<1> USE MaxAttemptsNat DEF IInv, TurnOff, Enter, rows, history
<1>1. job[w] \in Deliveries
  BY DEF WorkersHaveJobs
<1>2. TypeOK'
  BY <1>1 DEF TypeOK, Stages
<1>3. WorkersHaveJobs' /\ Unborn' /\ RoomForAttempt' /\ ScheduledWhilePending'
  BY DEF TypeOK, WorkersHaveJobs, Unborn, RoomForAttempt, ScheduledWhilePending
<1>4. HeldIsLeased' /\ OneSender'
  BY DEF TypeOK, HeldIsLeased, HeldBy, OneSender, Holding, Posted
<1>5. AttemptsWereTried' /\ RepeatsAccounted'
  BY DEF TypeOK, AttemptsWereTried, RepeatsAccounted, Owed, Posted, BeforePost
<1> QED
  BY <1>2, <1>3, <1>4, <1>5

LEMMA RecordStep ==
  ASSUME IInv, NEW w \in Workers, Record(w)
  PROVE  IInv'
<1> DEFINE d == job[w]
           n == read[w] + 1
<1> USE MaxAttemptsNat
<1>1. d \in Deliveries /\ HeldBy(w) /\ pc[w] \in Posted /\ pc[w] \in Holding
  BY DEF Record, IInv, WorkersHaveJobs, HeldIsLeased, Holding, Posted
<1>2. /\ n = attempts[d] + 1 /\ n \in tried[d] /\ n \in 1..MAX_ATTEMPTS
      /\ pc[w] = "accepted" => n \in sent[d]
  BY <1>1 DEF IInv, TypeOK, HeldBy, Posted
<1>3. n < MAX_ATTEMPTS => Backoff[n] - age[w] \in Int
  BY <1>2 DEF IInv, TypeOK, MAX_ATTEMPTS
<1>4. Finish(w) /\ UNCHANGED <<endpoint, fit, listed, queue, faults, history>>
  BY DEF Record
<1>5. ASSUME NEW s \in {"succeeded", "failed"}, Save(d, s, Null, n),
             s = "succeeded" => pc[w] = "accepted"
      PROVE  IInv'
  <2>1. s \in {"pending", "succeeded", "failed"} /\ s # "pending" /\ n \in 0..MAX_ATTEMPTS
    BY <1>2, <1>5
  <2> QED
    BY <1>1, <1>2, <1>4, <1>5, <2>1, SaveStep
<1>6. CASE n < MAX_ATTEMPTS /\ Save(d, "pending", Backoff[n] - age[w], n)
  BY <1>1, <1>2, <1>3, <1>4, <1>6, SaveStep
<1> QED
  BY <1>5, <1>6 DEF Record

LEMMA WorkerDiesStep ==
  ASSUME IInv, NEW w \in Workers, WorkerDies(w)
  PROVE  IInv'
<1> USE MaxAttemptsNat DEF IInv, WorkerDies, Finish, Enter, rows
<1>1. job[w] \in Deliveries
  BY DEF WorkersHaveJobs
<1>2. TypeOK'
  <2>1. deaths' \in [Deliveries -> Nat]
    <3>1. deaths \in [Deliveries -> Nat]
      BY DEF TypeOK
    <3> QED
      BY <1>1, <3>1, CountersCountUp
  <2>2. faults' \in 0..MaxFaults
    BY DEF TypeOK
  <2>3. /\ pc' \in [Workers -> Stages] /\ job' \in [Workers -> Deliveries \cup {Null}]
        /\ age' \in [Workers -> 0..MaxAge] /\ read' \in [Workers -> 0..MAX_ATTEMPTS]
    BY DEF TypeOK, Stages
  <2> QED
    BY <2>1, <2>2, <2>3 DEF TypeOK
<1>3. WorkersHaveJobs' /\ Unborn' /\ RoomForAttempt' /\ ScheduledWhilePending'
  BY DEF TypeOK, WorkersHaveJobs, Unborn, RoomForAttempt, ScheduledWhilePending
<1>4. HeldIsLeased' /\ OneSender'
  BY DEF TypeOK, HeldIsLeased, HeldBy, OneSender, Holding
<1>5. AttemptsWereTried'
  BY DEF AttemptsWereTried
<1>6. RepeatsAccounted'
  <2> SUFFICES ASSUME NEW x \in Deliveries
               PROVE  repeats[x] + (IF Owed(x)' THEN 1 ELSE 0) <= deaths'[x]
    BY DEF RepeatsAccounted
  <2>1. repeats[x] + (IF Owed(x) THEN 1 ELSE 0) <= deaths[x]
    BY DEF RepeatsAccounted
  <2>2. CASE x = job[w]
    BY <1>1, <2>1, <2>2 DEF TypeOK
  <2>3. CASE x # job[w]
    <3>1. deaths'[x] = deaths[x]
      BY <1>1, <2>3 DEF TypeOK
    <3>2. Owed(x)' => Owed(x)
      BY <2>3 DEF TypeOK, Owed, Posted, BeforePost
    <3> QED
      BY <2>1, <3>1, <3>2 DEF TypeOK
  <2> QED
    BY <2>2, <2>3
<1> QED
  BY <1>2, <1>3, <1>4, <1>5, <1>6

LEMMA TickStep ==
  ASSUME IInv, AttemptsFitLease, Tick
  PROVE  IInv'
<1> USE MaxAttemptsNat DEF IInv, Tick, history
<1>1. TypeOK'
  <2>1. due' \in [Deliveries -> Int \cup {Null}]
    BY DEF TypeOK, ScheduledWhilePending
  <2>2. age' \in [Workers -> 0..MaxAge]
    BY DEF TypeOK
  <2> QED
    BY <2>1, <2>2 DEF TypeOK
<1>2. WorkersHaveJobs' /\ Unborn' /\ RoomForAttempt' /\ ScheduledWhilePending'
  BY DEF TypeOK, WorkersHaveJobs, Unborn, RoomForAttempt, ScheduledWhilePending
<1>3. HeldIsLeased' /\ OneSender'
  BY DEF TypeOK, HeldIsLeased, HeldBy, OneSender, Holding, WorkersHaveJobs, AttemptsFitLease
<1>4. AttemptsWereTried' /\ RepeatsAccounted'
  BY DEF TypeOK, AttemptsWereTried, RepeatsAccounted, Owed
<1> QED
  BY <1>1, <1>2, <1>3, <1>4

LEMMA NextStep ==
  ASSUME IInv, AttemptsFitLease, [Next]_vars
  PROVE  IInv'
<1>1. CASE ListEndpoints
  <2>1. TypeOK'
    BY <1>1 DEF ListEndpoints, IInv, TypeOK, rows, workers, history
  <2> QED
    BY <1>1, <2>1, ElsewhereStep DEF ListEndpoints
<1>2. CASE \E d \in Deliveries : FanOut(d) \/ SendTest(d) \/ Redeliver(d)
  BY <1>2, QueueDeliveryStep DEF FanOut, SendTest, Redeliver
<1>3. ASSUME NEW newest \in Deliveries, Prune(newest)
      PROVE  IInv'
  <2> DEFINE D == {d \in Deliveries : d <= newest /\ Stored(d)}
  <2>1. endpoint' \in [Endpoints -> {"on", "off", "deleted"}]
    BY <1>3 DEF Prune, IInv, TypeOK
  <2>2. D \in SUBSET Deliveries /\ \A d \in D : Stored(d)
    OBVIOUS
  <2> QED
    BY <1>3, <2>1, <2>2, DeleteStep DEF Prune
<1>4. ASSUME NEW e \in Endpoints, SwitchOff(e) \/ TakeOver(e) \/ LoseStanding(e)
      PROVE  IInv'
  <2>1. endpoint' \in [Endpoints -> {"on", "off", "deleted"}]
    BY <1>4 DEF SwitchOff, TakeOver, LoseStanding, IInv, TypeOK
  <2>2. fit' \in [Endpoints -> BOOLEAN]
    BY <1>4 DEF SwitchOff, TakeOver, LoseStanding, IInv, TypeOK
  <2>3. UNCHANGED <<rows, listed, queue, workers, faults, history>>
    BY <1>4 DEF SwitchOff, TakeOver, LoseStanding, EndpointChanged
  <2>4. TypeOK'
    BY <2>1, <2>2, <2>3 DEF IInv, TypeOK, rows, workers, history
  <2> QED
    BY <2>3, <2>4, ElsewhereStep
<1>5. ASSUME NEW e \in Endpoints, DeleteEndpoint(e)
      PROVE  IInv'
  <2> DEFINE D == {d \in Deliveries : EndpointOf[d] = e /\ Stored(d)}
  <2>1. endpoint' \in [Endpoints -> {"on", "off", "deleted"}]
    BY <1>5 DEF DeleteEndpoint, IInv, TypeOK
  <2>2. D \in SUBSET Deliveries /\ \A d \in D : Stored(d)
    OBVIOUS
  <2> QED
    BY <1>5, <2>1, <2>2, DeleteStep DEF DeleteEndpoint
<1>6. CASE \E w \in Workers, d \in Deliveries : Take(w, d)
  BY <1>6, TakeStep
<1>7. ASSUME NEW w \in Workers, Work(w)
      PROVE  IInv'
  <2>1. CASE Claim(w)
    BY <2>1, ClaimStep
  <2>2. CASE ClaimRefused(w) \/ ReadBackFails(w)
    BY <2>2, FinishStep DEF ClaimRefused, ReadBackFails, Posted
  <2>3. CASE ReadBack(w)
    BY <2>3, ReadBackStep
  <2>4. CASE RecordRefusal(w)
    BY <2>4, RecordRefusalStep
  <2>5. CASE Post(w)
    BY <2>5, PostStep
  <2>6. CASE TurnOff(w)
    BY <2>6, TurnOffStep
  <2>7. CASE Record(w)
    BY <2>7, RecordStep
  <2> QED
    BY <1>7, <2>1, <2>2, <2>3, <2>4, <2>5, <2>6, <2>7 DEF Work
<1>8. CASE \E w \in Workers : WorkerDies(w)
  BY <1>8, WorkerDiesStep
<1>9. CASE BrokerLosesMessages \/ \E d \in Deliveries : Sweep(d)
  <2>1. queue' \in [Deliveries -> 0..MaxQueued]
    <3>1. CASE BrokerLosesMessages
      BY <3>1 DEF BrokerLosesMessages
    <3>2. ASSUME NEW last \in Deliveries, Sweep(last)
          PROVE  queue' \in [Deliveries -> 0..MaxQueued]
      <4>1. \A d \in Deliveries : queue[d] \in 0..MaxQueued
        BY DEF IInv, TypeOK
      <4>2. \A d \in Deliveries : queue[d] < MaxQueued => queue[d] + 1 \in 0..MaxQueued
        BY <4>1
      <4> QED
        BY <3>2, <4>1, <4>2 DEF Sweep
    <3> QED
      BY <1>9, <3>1, <3>2
  <2>2. faults' \in 0..MaxFaults
    BY <1>9 DEF BrokerLosesMessages, Sweep, IInv, TypeOK
  <2>3. UNCHANGED <<rows, endpoint, fit, listed, workers, history>>
    BY <1>9 DEF BrokerLosesMessages, Sweep
  <2>4. TypeOK'
    BY <2>1, <2>2, <2>3 DEF IInv, TypeOK, rows, workers, history
  <2> QED
    BY <2>3, <2>4, ElsewhereStep
<1>10. CASE Tick
  BY <1>10, TickStep
<1>11. CASE UNCHANGED vars
  <2>1. TypeOK'
    BY <1>11 DEF vars, rows, workers, history, IInv, TypeOK
  <2> QED
    BY <1>11, <2>1, ElsewhereStep DEF vars
<1> QED
  BY <1>1, <1>2, <1>3, <1>4, <1>5, <1>6, <1>7, <1>8, <1>9, <1>10, <1>11 DEF Next

\* The strengthened invariant, from which the rest follows.
THEOREM Invariance ==
  ASSUME AttemptsFitLease
  PROVE  Spec => []IInv
<1>1. Init => IInv
  BY InitHolds
<1>2. IInv /\ [Next]_vars => IInv'
  BY NextStep
<1> QED
  BY <1>1, <1>2, PTL DEF Spec

\* Rows, workers and messages keep their types, attempts their limit included:
\* attempt_delivery never counts past MAX_ATTEMPTS.
THEOREM TypeCorrect ==
  ASSUME AttemptsFitLease
  PROVE  Spec => []TypeOK
  BY Invariance, PTL DEF IInv

\* The claim keeps the immediate send and the sweeper apart, for any number of
\* workers, duplicate messages and losses, if an attempt ends within its claim.
THEOREM OneSenderAlways ==
  ASSUME AttemptsFitLease
  PROVE  Spec => []OneSender
  BY Invariance, PTL DEF IInv

\* A receiver sees an attempt twice only where a worker died holding the row.
THEOREM RepeatsArePaidForAlways ==
  ASSUME AttemptsFitLease
  PROVE  Spec => []RepeatsArePaidFor
<1>1. IInv => RepeatsArePaidFor
  <2> SUFFICES ASSUME IInv, NEW d \in Deliveries
               PROVE  repeats[d] <= deaths[d]
    BY DEF RepeatsArePaidFor
  <2>1. repeats[d] \in Nat /\ deaths[d] \in Nat
    BY DEF IInv, TypeOK
  <2>2. repeats[d] + (IF Owed(d) THEN 1 ELSE 0) <= deaths[d]
    BY DEF IInv, RepeatsAccounted
  <2> QED
    BY <2>1, <2>2
<1> QED
  BY <1>1, Invariance, PTL

\* The attempts column counts the tries, and success is what was received.
THEOREM AttemptsWereTriedAlways ==
  ASSUME AttemptsFitLease
  PROVE  Spec => []AttemptsWereTried
  BY Invariance, PTL DEF IInv

\* A row has a next attempt exactly while it is pending.
THEOREM ScheduledWhilePendingAlways ==
  ASSUME AttemptsFitLease
  PROVE  Spec => []ScheduledWhilePending
  BY Invariance, PTL DEF IInv

-----------------------------------------------------------------------------
(* The delivery log keeps its promise.                                     *)

\* The UPDATE that ends an attempt is an attempt of the promise, a refusal, or
\* nothing, if the row has gone.
LEMMA SaveKeepsPromise ==
  ASSUME IInv, NEW w \in Workers, Record(w) \/ RecordRefusal(w)
  PROVE  [Promise!Next]_<<status, attempts>>
<1> DEFINE d == job[w]
           n == read[w] + 1
<1>1. d \in Deliveries /\ HeldBy(w) /\ (pc[w] \in Posted \/ pc[w] = "refused")
  BY DEF Record, RecordRefusal, IInv, WorkersHaveJobs, HeldIsLeased, Holding, Posted
<1>2. CASE ~Stored(d)
  BY <1>2 DEF Record, RecordRefusal, Save, rows
<1>3. CASE Stored(d) /\ RecordRefusal(w)
  <2>1. /\ status[d] = "pending"
        /\ status' = [status EXCEPT ![d] = "failed"]
        /\ attempts' = attempts
    BY <1>1, <1>3 DEF RecordRefusal, Save, Stored, HeldBy, IInv, TypeOK
  <2> QED
    BY <1>1, <2>1 DEF Promise!Next, Promise!Refuse
<1>4. CASE Stored(d) /\ Record(w)
  <2>1. pc[w] \in Posted
    BY <1>4 DEF Record, Posted
  <2>2. status[d] = "pending" /\ n = attempts[d] + 1 /\ attempts[d] < MAX_ATTEMPTS
    BY <1>1, <1>4, <2>1 DEF HeldBy, Stored, Posted
  <2>3. attempts' = [attempts EXCEPT ![d] = @ + 1]
    BY <1>1, <1>4, <2>2 DEF Record, Save, IInv, TypeOK
  <2>4. \/ \E s \in Promise!Settled : status' = [status EXCEPT ![d] = s]
        \/ n < MAX_ATTEMPTS /\ status' = [status EXCEPT ![d] = "pending"]
    BY <1>4 DEF Record, Save, Promise!Settled
  <2>5. [status EXCEPT ![d] = "pending"] = status
    BY <1>1, <2>2 DEF IInv, TypeOK
  <2>6. Promise!Attempt(d)
    BY <2>2, <2>3, <2>4, <2>5 DEF Promise!Attempt
  <2> QED
    BY <1>1, <2>6 DEF Promise!Next
<1> QED
  BY <1>2, <1>3, <1>4

LEMMA StepKeepsPromise ==
  ASSUME IInv, [Next]_vars
  PROVE  [Promise!Next]_<<status, attempts>>
<1>1. CASE \E d \in Deliveries : FanOut(d) \/ SendTest(d) \/ Redeliver(d)
  BY <1>1 DEF FanOut, SendTest, Redeliver, QueueDelivery, Promise!Next, Promise!Log
<1>2. ASSUME NEW D \in SUBSET Deliveries, \A d \in D : Stored(d), Delete(D)
      PROVE  [Promise!Next]_<<status, attempts>>
  BY <1>2 DEF Delete, Stored, Promise!Next, Promise!Delete, Promise!Settled
<1>3. CASE \E d \in Deliveries : Prune(d)
  BY <1>2, <1>3 DEF Prune
<1>4. CASE \E e \in Endpoints : DeleteEndpoint(e)
  BY <1>2, <1>4 DEF DeleteEndpoint
<1>5. CASE \E w \in Workers : Record(w) \/ RecordRefusal(w)
  BY <1>5, SaveKeepsPromise
<1>6. CASE UNCHANGED <<status, attempts>>
  BY <1>6
<1>7. CASE ListEndpoints \/ BrokerLosesMessages \/ Tick \/ UNCHANGED vars
  BY <1>7, <1>6 DEF ListEndpoints, BrokerLosesMessages, Tick, vars, rows
<1>8. CASE \E e \in Endpoints : SwitchOff(e) \/ TakeOver(e) \/ LoseStanding(e)
  BY <1>8, <1>6 DEF SwitchOff, TakeOver, LoseStanding, EndpointChanged, rows
<1>9. CASE \E w \in Workers : \/ \E d \in Deliveries : Take(w, d)
                              \/ Claim(w) \/ ClaimRefused(w) \/ ReadBack(w)
                              \/ ReadBackFails(w) \/ Post(w) \/ TurnOff(w)
                              \/ WorkerDies(w)
  BY <1>9, <1>6 DEF Take, Claim, ClaimRefused, ReadBack, ReadBackFails, Post, TurnOff,
                    WorkerDies, rows
<1>10. CASE \E d \in Deliveries : Sweep(d)
  BY <1>10, <1>6 DEF Sweep, rows
<1> QED
  BY <1>1, <1>3, <1>4, <1>5, <1>7, <1>8, <1>9, <1>10 DEF Next, Work

\* What the API shows of a delivery changes only as DeliveryPromise allows:
\* settled rows never reopen and attempts count up one at a time to the limit.
THEOREM PromiseKept ==
  ASSUME AttemptsFitLease
  PROVE  Spec => KeepsPromise
<1>1. Init => Promise!Init
  BY DEF Init, Promise!Init
<1>2. IInv /\ [Next]_vars => [Promise!Next]_Promise!promiseVars
  BY StepKeepsPromise DEF Promise!promiseVars
<1> QED
  BY <1>1, <1>2, Invariance, PTL DEF Spec, KeepsPromise, Promise!Spec
=============================================================================
