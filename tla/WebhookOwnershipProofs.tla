----------------------- MODULE WebhookOwnershipProofs -----------------------
(***************************************************************************)
(* Proofs about WebhookOwnership for every set of admins and attempts. The *)
(* invariant ties the row lock to the one request that holds it and to     *)
(* the copy of the row that request read.                                  *)
(***************************************************************************)
EXTENDS WebhookOwnership, TLAPS

USE OwnershipAssumption DEF OwnershipAssumption

\* The row is locked exactly by the request between its read and its save.
LockIsHeld == \A u \in Users : (request[u].stage = "locked") <=> (lock = u)

\* Each pause on record turned off an endpoint that an admin had turned on.
PausesAreBounded == (IF row.active THEN 1 ELSE 0) <= credit

IInv == TypeOK /\ LockIsHeld /\ NoLostWrite /\ PausesAreBounded

LEMMA InitEstablishes == Init => IInv
<1> SUFFICES ASSUME Init PROVE IInv
  OBVIOUS
<1>1. PICK v \in Users : row = [active |-> TRUE, creator |-> v, url |-> v, reason |-> ""]
  BY DEF Init
<1>2. row \in Rows
  BY <1>1 DEF Rows
<1>3. Idle \in Requests /\ Idle \in AttemptStates /\ Idle.stage = "idle"
  BY DEF Requests, AttemptStates, Idle
<1>4. \A u \in Users : request[u] = Idle
  BY DEF Init
<1>5. TypeOK
  <2>1. admins \subseteq Users /\ gone \subseteq Users /\ lock \in Users \cup {Null}
    BY DEF Init
  <2>2. request \in [Users -> Requests] /\ attempt \in [Attempts -> AttemptStates]
    BY <1>3 DEF Init
  <2>3. receiver \in [Users -> Receivers]
    BY DEF Init, Receivers
  <2>4. requests = 0 /\ credit = 1
    BY DEF Init
  <2> QED BY <1>2, <2>1, <2>2, <2>3, <2>4 DEF TypeOK
<1>6. LockIsHeld /\ NoLostWrite
  <2>1. lock = Null
    BY DEF Init
  <2> QED BY <1>3, <1>4, <2>1 DEF LockIsHeld, NoLostWrite
<1>7. PausesAreBounded
  <2>1. credit = 1
    BY DEF Init
  <2>2. row.active = TRUE
    BY <1>1
  <2> QED BY <2>1, <2>2 DEF PausesAreBounded
<1> QED BY <1>5, <1>6, <1>7 DEF IInv

\* A PATCH saves a row the table can hold: an endpoint that is on has no
\* reason to be off.
LEMMA PatchedIsARow ==
    ASSUME NEW u \in Users, NEW kind \in Kinds, NEW copy \in Rows
    PROVE  Patched(u, kind, copy) \in Rows
  BY DEF Patched, TakesOver, Rows, Kinds

\* What a locked request holds.
LEMMA LockedRequest ==
    ASSUME TypeOK, NEW u \in Users, request[u].stage = "locked"
    PROVE  request[u].kind \in Kinds /\ request[u].copy \in Rows
  BY DEF TypeOK, Requests, Idle

LEMMA PermittedRequest ==
    ASSUME TypeOK, NEW u \in Users, request[u].stage = "permitted"
    PROVE  request[u].kind \in Kinds
  BY DEF TypeOK, Requests, Idle

LEMMA PauseBounds ==
    ASSUME IInv, Pause
    PROVE  /\ row' \in Rows /\ credit' \in Int
           /\ lock = Null
           /\ (IF row'.active THEN 1 ELSE 0) <= credit'
<1>1. row \in Rows /\ credit \in Int
  BY DEF IInv, TypeOK
<1>2. lock = Null
  BY DEF Pause, Writable
<1>3. CASE row.active
  <2>1. row'.active = FALSE /\ row' \in Rows
    BY <1>1, <1>3 DEF Pause, Rows
  <2>2. credit' = credit - 1
    BY <1>3 DEF Pause
  <2> QED BY <1>1, <1>2, <1>3, <2>1, <2>2 DEF IInv, PausesAreBounded
<1>4. CASE ~row.active
  <2>1. row' = row /\ credit' = credit
    BY <1>1, <1>4 DEF Pause
  <2> QED BY <1>1, <1>2, <1>4, <2>1 DEF IInv, PausesAreBounded
<1> QED BY <1>3, <1>4

\* Nothing is locked, so a write of the row leaves no copy stale.
LEMMA UnlockedWrite ==
    ASSUME IInv, lock = Null, UNCHANGED <<lock, request>>
    PROVE  LockIsHeld' /\ NoLostWrite'
<1>1. \A u \in Users : request[u].stage # "locked"
  BY DEF IInv, LockIsHeld
<1> QED BY <1>1 DEF IInv, LockIsHeld, NoLostWrite

\* A request other than a locked one changes stage, or none does.
LEMMA RequestMoves ==
    ASSUME IInv, NEW u \in Users, NEW r \in Requests,
           request[u].stage # "locked", r.stage # "locked",
           request' = [request EXCEPT ![u] = r], lock' = lock,
           row' = row \/ lock = Null
    PROVE  request' \in [Users -> Requests] /\ LockIsHeld' /\ NoLostWrite'
<1>1. request \in [Users -> Requests]
  BY DEF IInv, TypeOK
<1>2. LockIsHeld'
  BY <1>1 DEF IInv, LockIsHeld
<1>3. ASSUME NEW v \in Users, request'[v].stage = "locked" PROVE request'[v].copy = row'
  <2>1. v # u /\ request'[v] = request[v]
    BY <1>1, <1>3
  <2>2. lock = v /\ lock # Null
    BY <1>3, <2>1 DEF IInv, LockIsHeld
  <2> QED BY <1>3, <2>1, <2>2 DEF IInv, NoLostWrite
<1> QED BY <1>1, <1>2, <1>3 DEF NoLostWrite

LEMMA StepPreserves == IInv /\ [Next]_vars => IInv'
<1> SUFFICES ASSUME IInv, [Next]_vars PROVE IInv'
  OBVIOUS
<1> USE DEF IInv
<1>t. TypeOK /\ LockIsHeld /\ NoLostWrite /\ PausesAreBounded
  OBVIOUS
<1>1. ASSUME NEW u \in Users, Permit(u) PROVE IInv'
  <2>1. PICK k \in Kinds :
           request' = [request EXCEPT ![u] = [stage |-> "permitted", kind |-> k]]
    BY <1>1 DEF Permit
  <2>2. [stage |-> "permitted", kind |-> k] \in Requests
    BY DEF Requests
  <2>3. request[u].stage # "locked"
    BY <1>1 DEF Permit, Idle
  <2>4. request' \in [Users -> Requests] /\ LockIsHeld' /\ NoLostWrite'
    BY <1>1, <2>1, <2>2, <2>3, RequestMoves DEF Permit
  <2>5. TypeOK'
    BY <1>1, <2>4 DEF Permit, TypeOK
  <2> QED BY <1>1, <2>4, <2>5 DEF Permit, PausesAreBounded
<1>2. ASSUME NEW u \in Users, LockAndRead(u) PROVE IInv'
  <2>1. request[u].kind \in Kinds
    BY <1>2, PermittedRequest DEF LockAndRead
  <2>2. request' = [request EXCEPT
                      ![u] = [stage |-> "locked", kind |-> request[u].kind, copy |-> row]]
    BY <1>2 DEF LockAndRead
  <2>3. [stage |-> "locked", kind |-> request[u].kind, copy |-> row] \in Requests
    BY <2>1 DEF Requests, TypeOK
  <2>4. TypeOK'
    BY <1>2, <2>2, <2>3 DEF LockAndRead, TypeOK
  <2>5. \A v \in Users : request[v].stage # "locked"
    BY <1>2 DEF LockAndRead, LockIsHeld
  <2>6. \A v \in Users : v # u => request'[v] = request[v]
    BY <2>2 DEF TypeOK
  <2>7. request'[u].stage = "locked" /\ request'[u].copy = row
    BY <2>2 DEF TypeOK
  <2>8. LockIsHeld' /\ NoLostWrite'
    BY <1>2, <2>5, <2>6, <2>7 DEF LockAndRead, LockIsHeld, NoLostWrite
  <2> QED BY <1>2, <2>4, <2>8 DEF LockAndRead, PausesAreBounded
<1>3. ASSUME NEW u \in Users, SaveAndCommit(u) PROVE IInv'
  <2> DEFINE new == Patched(u, request[u].kind, request[u].copy)
  <2>1. request[u].kind \in Kinds /\ request[u].copy \in Rows /\ request[u].copy = row
    BY <1>3, LockedRequest DEF SaveAndCommit, NoLostWrite
  <2>2. new \in Rows
    BY <2>1, PatchedIsARow
  <2>3. \/ row' = new /\ credit' = credit + (IF new.active /\ ~row.active THEN 1 ELSE 0)
        \/ row' = row /\ credit' = credit
    BY <1>3, <2>1 DEF SaveAndCommit
  <2> HIDE DEF new
  <2>4. row' \in Rows /\ credit' \in Int
    BY <2>2, <2>3 DEF TypeOK
  <2>5. PausesAreBounded'
    <3>1. new.active \in BOOLEAN /\ row.active \in BOOLEAN
      BY <2>2 DEF TypeOK, Rows
    <3>2. credit \in Int
      BY DEF TypeOK
    <3> QED BY <2>3, <3>1, <3>2 DEF PausesAreBounded
  <2>6. request' = [request EXCEPT ![u] = Idle] /\ lock' = Null
    BY <1>3 DEF SaveAndCommit
  <2>7. \A v \in Users : request'[v].stage # "locked"
    BY <1>3, <2>6 DEF SaveAndCommit, LockIsHeld, Idle, TypeOK
  <2>8. LockIsHeld' /\ NoLostWrite'
    BY <2>6, <2>7 DEF LockIsHeld, NoLostWrite
  <2>9. TypeOK'
    BY <1>3, <2>4, <2>6 DEF SaveAndCommit, TypeOK, Requests
  <2> QED BY <2>5, <2>8, <2>9
<1>4. ASSUME NEW u \in Users, Rotate(u) PROVE IInv'
  <2>1. lock = Null /\ request[u].stage # "locked"
    BY <1>4 DEF Rotate, Writable
  <2>2. row' \in Rows /\ row'.active = row.active
    BY <1>4 DEF Rotate, TypeOK, Rows
  <2>3. request' \in [Users -> Requests] /\ LockIsHeld' /\ NoLostWrite'
    <3>1. Idle \in Requests /\ Idle.stage # "locked"
      BY DEF Requests, Idle
    <3>2. request' = [request EXCEPT ![u] = Idle] /\ lock' = lock
      BY <1>4 DEF Rotate
    <3> QED BY <2>1, <3>1, <3>2, RequestMoves
  <2>4. TypeOK'
    BY <1>4, <2>2, <2>3 DEF Rotate, TypeOK
  <2> QED BY <1>4, <2>2, <2>3, <2>4 DEF Rotate, PausesAreBounded
<1>5. ASSUME NEW u \in Users, Receive(u) \/ LoseStanding(u) \/ RegainStanding(u)
      PROVE IInv'
  <2>1. CASE ListCreated(u)
    <3>1. TypeOK'
      BY <2>1 DEF ListCreated, TypeOK, Receivers
    <3> QED BY <2>1, <3>1 DEF ListCreated, LockIsHeld, NoLostWrite, PausesAreBounded
  <2>2. CASE PauseListed(u)
    <3>1. row' \in Rows /\ credit' \in Int /\ lock = Null
          /\ (IF row'.active THEN 1 ELSE 0) <= credit'
      BY <2>2, PauseBounds DEF PauseListed
    <3>2. TypeOK'
      BY <2>2, <3>1 DEF PauseListed, TypeOK, Receivers
    <3>3. LockIsHeld' /\ NoLostWrite'
      BY <2>2, <3>1, UnlockedWrite DEF PauseListed
    <3> QED BY <2>2, <3>1, <3>2, <3>3 DEF PauseListed, PausesAreBounded
  <2>3. CASE LoseStanding(u)
    <3>1. TypeOK'
      BY <2>3 DEF LoseStanding, TypeOK, Receivers
    <3> QED BY <2>3, <3>1 DEF LoseStanding, LockIsHeld, NoLostWrite, PausesAreBounded
  <2>4. CASE RegainStanding(u)
    <3>1. TypeOK'
      BY <2>4 DEF RegainStanding, TypeOK
    <3> QED BY <2>4, <3>1 DEF RegainStanding, LockIsHeld, NoLostWrite, PausesAreBounded
  <2> QED BY <1>5, <2>1, <2>2, <2>3, <2>4 DEF Receive
<1>6. ASSUME NEW u \in Users, StartDelete(u) \/ FindOff(u) \/ DeleteUser(u) PROVE IInv'
  <2>1. CASE StartDelete(u) \/ FindOff(u)
    <3>1. UNCHANGED <<row, lock, request, attempt, requests, credit>>
      BY <2>1 DEF StartDelete, FindOff
    <3>2. TypeOK'
      BY <2>1, <3>1 DEF StartDelete, FindOff, TypeOK, Receivers
    <3> QED BY <3>1, <3>2 DEF LockIsHeld, NoLostWrite, PausesAreBounded
  <2>2. CASE DeleteUser(u)
    <3>1. PICK pauses \in BOOLEAN :
            /\ pauses => row.active
            /\ row' = [row EXCEPT !.active = @ /\ ~pauses,
                                  !.reason = IF pauses THEN "unfit" ELSE @,
                                  !.creator = IF @ = u THEN Null ELSE @]
            /\ row' # row => lock = Null
            /\ credit' = credit - (IF pauses THEN 1 ELSE 0)
            /\ UNCHANGED <<lock, request, attempt, requests>>
      <4>1. receiver[u] = "deleting" => row.active
        BY <2>2 DEF DeleteUser
      <4>2. PICK pauses \in BOOLEAN : pauses = (receiver[u] = "deleting")
        OBVIOUS
      <4> QED BY <2>2, <4>1, <4>2 DEF DeleteUser, Writable
    <3>2. row' \in Rows /\ (row'.active <=> row.active /\ ~pauses)
      <4>1. row \in Rows
        BY DEF TypeOK
      <4>2. CASE pauses
        BY <3>1, <4>1, <4>2 DEF Rows
      <4>3. CASE ~pauses
        BY <3>1, <4>1, <4>3 DEF Rows
      <4> QED BY <4>2, <4>3
    <3>3. credit' \in Int /\ PausesAreBounded'
      BY <3>1, <3>2 DEF TypeOK, PausesAreBounded
    <3>4. TypeOK'
      BY <2>2, <3>1, <3>2, <3>3 DEF DeleteUser, TypeOK, Receivers
    <3>5. LockIsHeld' /\ NoLostWrite'
      BY <3>1, UnlockedWrite DEF LockIsHeld, NoLostWrite
    <3> QED BY <3>3, <3>4, <3>5
  <2> QED BY <1>6, <2>1, <2>2
<1>7. ASSUME NEW a \in Attempts, Try(a) PROVE IInv'
  <2>1. CASE ReadEndpoint(a)
    <3>1. [stage |-> "read", creator |-> row.creator] \in AttemptStates
      BY DEF TypeOK, Rows, AttemptStates
    <3>2. TypeOK'
      BY <2>1, <3>1 DEF ReadEndpoint, TypeOK
    <3> QED BY <2>1, <3>2 DEF ReadEndpoint, LockIsHeld, NoLostWrite, PausesAreBounded
  <2>2. CASE CreatorFit(a)
    <3>1. [attempt[a] EXCEPT !.stage = "sending"] \in AttemptStates
      BY <2>2 DEF CreatorFit, TypeOK, AttemptStates, Idle
    <3>2. TypeOK'
      BY <2>2, <3>1 DEF CreatorFit, TypeOK
    <3> QED BY <2>2, <3>2 DEF CreatorFit, LockIsHeld, NoLostWrite, PausesAreBounded
  <2>3. CASE CreatorUnfit(a)
    <3>1. row' \in Rows /\ credit' \in Int /\ lock = Null
          /\ (IF row'.active THEN 1 ELSE 0) <= credit'
      BY <2>3, PauseBounds DEF CreatorUnfit
    <3>2. TypeOK'
      BY <2>3, <3>1 DEF CreatorUnfit, TypeOK, AttemptStates
    <3>3. LockIsHeld' /\ NoLostWrite'
      BY <2>3, <3>1, UnlockedWrite DEF CreatorUnfit
    <3> QED BY <2>3, <3>1, <3>2, <3>3 DEF CreatorUnfit, PausesAreBounded
  <2>4. CASE Send(a)
    <3>1. [attempt[a] EXCEPT !.stage = "gone"] \in AttemptStates /\ Idle \in AttemptStates
      BY <2>4 DEF Send, TypeOK, AttemptStates, Idle
    <3>2. TypeOK'
      BY <2>4, <3>1 DEF Send, TypeOK
    <3> QED BY <2>4, <3>2 DEF Send, LockIsHeld, NoLostWrite, PausesAreBounded
  <2>5. CASE TurnOff(a)
    <3>1. row' \in Rows /\ row'.active = FALSE /\ lock = Null
      BY <2>5 DEF TurnOff, Writable, TypeOK, Rows
    <3>2. TypeOK'
      BY <2>5, <3>1 DEF TurnOff, TypeOK, AttemptStates
    <3>3. PausesAreBounded'
      BY <2>5, <3>1 DEF TurnOff, PausesAreBounded, TypeOK
    <3>4. LockIsHeld' /\ NoLostWrite'
      BY <2>5, <3>1, UnlockedWrite DEF TurnOff
    <3> QED BY <3>2, <3>3, <3>4
  <2> QED BY <1>7, <2>1, <2>2, <2>3, <2>4, <2>5 DEF Try
<1>8. CASE UNCHANGED vars
  <2>1. TypeOK'
    BY <1>8 DEF vars, TypeOK
  <2> QED BY <1>8, <2>1 DEF vars, LockIsHeld, NoLostWrite, PausesAreBounded
<1> QED BY <1>1, <1>2, <1>3, <1>4, <1>5, <1>6, <1>7, <1>8 DEF Next, Serve

THEOREM Invariance == Spec => []IInv
  BY InitEstablishes, StepPreserves, PTL DEF Spec

\* Type correctness of the endpoint, its requests, receivers and attempts: in
\* particular an endpoint that is on never carries a reason to be off.
THEOREM TypeCorrect == Spec => []TypeOK
  BY Invariance, PTL DEF IInv

\* The lock PATCH takes covers it from its read to its save (views.py).
THEOREM NoLostWriteAlways == Spec => []NoLostWrite
  BY Invariance, PTL DEF IInv

\* Never more pauses on record than times the endpoint was turned on, however
\* many receivers and attempts find the same creator unfit (ownership.pause).
THEOREM OneAuditRowPerPauseAlways == Spec => []OneAuditRowPerPause
<1>1. IInv => OneAuditRowPerPause
  BY DEF IInv, TypeOK, PausesAreBounded, OneAuditRowPerPause
<1> QED BY Invariance, <1>1, PTL

\* The steps that write the row, and what each may write.
LEMMA RowMoves ==
    ASSUME IInv, Next, row' # row
    PROVE  \/ (row'.active => row.active) /\ row'.url = row.url
           \/ \E u \in Users : Rotate(u) \/ SaveAndCommit(u)
<1> USE DEF IInv
<1>1. ASSUME Pause PROVE ~row'.active /\ row'.url = row.url
  BY <1>1 DEF Pause, TypeOK, Rows
<1>2. ASSUME NEW u \in Users, DeleteUser(u)
      PROVE  (row'.active => row.active) /\ row'.url = row.url
  BY <1>2 DEF DeleteUser, TypeOK, Rows
<1>3. ASSUME NEW a \in Attempts, TurnOff(a) PROVE ~row'.active /\ row'.url = row.url
  BY <1>3 DEF TurnOff, TypeOK, Rows
<1>4. CASE \E u \in Users : \/ Permit(u) \/ Serve(u) \/ Receive(u)
                            \/ LoseStanding(u) \/ RegainStanding(u)
                            \/ StartDelete(u) \/ FindOff(u) \/ DeleteUser(u)
  <2>1. PICK u \in Users : \/ Permit(u) \/ Serve(u) \/ Receive(u)
                           \/ LoseStanding(u) \/ RegainStanding(u)
                           \/ StartDelete(u) \/ FindOff(u) \/ DeleteUser(u)
    BY <1>4
  <2>2. /\ ~Permit(u) /\ ~LockAndRead(u) /\ ~ListCreated(u) /\ ~LoseStanding(u)
        /\ ~RegainStanding(u) /\ ~StartDelete(u) /\ ~FindOff(u)
    BY DEF Permit, LockAndRead, ListCreated, LoseStanding, RegainStanding, StartDelete, FindOff
  <2>3. PauseListed(u) => Pause
    BY DEF PauseListed
  <2> QED BY <1>1, <1>2, <2>1, <2>2, <2>3 DEF Serve, Receive
<1>5. CASE \E a \in Attempts : Try(a)
  <2>1. PICK a \in Attempts : Try(a)
    BY <1>5
  <2>2. ~ReadEndpoint(a) /\ ~CreatorFit(a) /\ ~Send(a)
    BY DEF ReadEndpoint, CreatorFit, Send
  <2>3. CreatorUnfit(a) => Pause
    BY DEF CreatorUnfit
  <2> QED BY <1>1, <1>3, <2>1, <2>2, <2>3 DEF Try
<1> QED BY <1>4, <1>5 DEF Next

\* No edit, rotation or receiver turns a paused endpoint back on: only an
\* admin asking for it does, and that admin answers for it from then on.
THEOREM OnlyATakeOverTurnsOnAlways == Spec => OnlyATakeOverTurnsOn
<1>1. ASSUME IInv, [Next]_vars
      PROVE  [(~row.active /\ row'.active) => TakenOver]_vars
  <2> SUFFICES ASSUME Next, ~row.active, row'.active PROVE TakenOver
    BY <1>1
  <2>1. PICK u \in Users : Rotate(u) \/ SaveAndCommit(u)
    BY <1>1, RowMoves
  <2>2. ~Rotate(u)
    BY <1>1 DEF Rotate, IInv, TypeOK, Rows
  <2>3. request[u].stage = "locked" /\ request[u].copy = row
    BY <1>1, <2>1, <2>2 DEF SaveAndCommit, IInv, NoLostWrite
  <2>4. row' = Patched(u, request[u].kind, row)
    BY <2>1, <2>2, <2>3 DEF SaveAndCommit
  <2>5. request[u].kind = "turnOn"
    BY <2>4 DEF Patched
  <2>6. row'.creator = u
    BY <2>4, <2>5 DEF Patched, TakesOver
  <2> QED BY <2>3, <2>5, <2>6 DEF TakenOver
<1> QED BY <1>1, Invariance, PTL DEF Spec, OnlyATakeOverTurnsOn

\* Whoever chooses where the records go answers for the endpoint at once.
THEOREM UrlMovesWithCreatorAlways == Spec => UrlMovesWithCreator
<1>1. ASSUME IInv, [Next]_vars
      PROVE  [row'.url # row.url => row'.creator = row'.url]_vars
  <2> SUFFICES ASSUME Next, row'.url # row.url PROVE row'.creator = row'.url
    BY <1>1
  <2>1. PICK u \in Users : Rotate(u) \/ SaveAndCommit(u)
    BY <1>1, RowMoves
  <2>2. ~Rotate(u)
    BY <1>1 DEF Rotate, IInv, TypeOK, Rows
  <2>3. row' = Patched(u, request[u].kind, row)
    BY <1>1, <2>1, <2>2 DEF SaveAndCommit, IInv, NoLostWrite
  <2>4. request[u].kind = "repoint" /\ row'.url = u
    BY <2>3 DEF Patched
  <2>5. row'.creator = u
    BY <2>3, <2>4 DEF Patched, TakesOver
  <2> QED BY <2>4, <2>5
<1> QED BY <1>1, Invariance, PTL DEF Spec, UrlMovesWithCreator
=============================================================================
