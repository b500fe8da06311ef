------------------------ MODULE InvoiceLedgerProofs ------------------------
(***************************************************************************)
(* For any number of payments, of any amounts, and any number of emails    *)
(* under way: the books balance and never exceed what is billed, the       *)
(* status and the billed time follow them, a cancelled invoice stays       *)
(* cancelled, what a sent one bills never moves, and the ledger implements *)
(* InvoicePromise.                                                         *)
(***************************************************************************)
EXTENDS InvoiceLedger, FiniteSetTheorems, TLAPS

-----------------------------------------------------------------------------
(* Sums. That the payments add up to a number, and to which, is a fact     *)
(* about the recursive function of the fold. It is proved by induction on  *)
(* the parts of a finite set, from WFMin: the library's induction theorems *)
(* take an operator, which the provers cannot instantiate.                 *)

\* What holds of a part of a finite set once it holds of every smaller part of that
\* part holds of all its parts.
LEMMA SmallerFirst ==
  ASSUME NEW S, IsFiniteSet(S), NEW Q,
         \A T \in SUBSET S : (\A U \in SUBSET T : U # T => U \in Q) => T \in Q
  PROVE  SUBSET S \subseteq Q
<1> DEFINE R == StrictSubsetOrdering(S)
           Rest == (SUBSET S) \ Q
<1> SUFFICES ASSUME Rest # {} PROVE FALSE
  OBVIOUS
<1>1. IsWellFoundedOn(R, FiniteSubsetsOf(S))
  BY FS_StrictSubsetOrderingWellFounded, Zenon
<1>2. Rest \subseteq FiniteSubsetsOf(S)
  BY FS_Subset DEF FiniteSubsetsOf
<1> HIDE DEF R, Rest
<1>3. PICK T \in Rest : \A U \in Rest : ~(<<U, T>> \in R)
  BY <1>1, <1>2, WFMin
<1>4. \A U \in SUBSET T : U # T => U \in Q
  <2> SUFFICES ASSUME NEW U \in SUBSET T, U # T, U \notin Q PROVE FALSE
    OBVIOUS
  <2>1. U \in Rest /\ <<U, T>> \in R
    BY DEF Rest, R, StrictSubsetOrdering
  <2> QED  BY <2>1, <1>3
<1> QED  BY <1>3, <1>4 DEF Rest

First(s) == CHOOSE y \in s : TRUE

\* The fold's recursive function: g gives each part of S the sum of f over it.
Sums(g, f, S) ==
  g = [s \in SUBSET S |-> IF s = {} THEN 0
                          ELSE f[First(s)] + g[s \ {First(s)}]]

\* The sum is the value of that function, since there is one (SumsExist).
LEMMA SumIsOfSums ==
  ASSUME NEW f, NEW S
  PROVE  SumFunctionOnSet(f, S) = (CHOOSE g : Sums(g, f, S))[S]
  BY DEF SumFunctionOnSet, FoldFunctionOnSet, MapThenFoldSet, Sums, First

LEMMA SumsValue ==
  ASSUME NEW f, NEW S, NEW g, Sums(g, f, S), NEW s \in SUBSET S
  PROVE  g[s] = IF s = {} THEN 0 ELSE f[First(s)] + g[s \ {First(s)}]
  BY DEF Sums

LEMMA FirstIn == ASSUME NEW s, s # {} PROVE First(s) \in s
  BY DEF First

\* The recursive functions over two sets agree on what they share.
LEMMA SumsAgree ==
  ASSUME NEW f, NEW S, IsFiniteSet(S), NEW T \in SUBSET S,
         NEW g, Sums(g, f, S), NEW h, Sums(h, f, T)
  PROVE  \A s \in SUBSET T : g[s] = h[s]
<1> DEFINE Q == {s \in SUBSET T : g[s] = h[s]}
<1>1. ASSUME NEW s \in SUBSET T, \A U \in SUBSET s : U # s => U \in Q
      PROVE  s \in Q
  <2>1. CASE s = {}
    <3>1. g[s] = 0
      BY <2>1, SumsValue
    <3>2. h[s] = 0
      BY <2>1, SumsValue
    <3> QED  BY <3>1, <3>2
  <2>2. CASE s # {}
    <3>1. First(s) \in s
      BY <2>2, FirstIn
    <3>2. s \ {First(s)} \in Q
      BY <3>1, <1>1
    <3>3. g[s] = f[First(s)] + g[s \ {First(s)}]
      BY <2>2, SumsValue
    <3>4. h[s] = f[First(s)] + h[s \ {First(s)}]
      BY <2>2, SumsValue
    <3> QED  BY <3>2, <3>3, <3>4
  <2> QED  BY <2>1, <2>2
<1>2. IsFiniteSet(T)
  BY FS_Subset
<1> HIDE DEF Q
<1>3. SUBSET T \subseteq Q
  BY <1>1, <1>2, SmallerFirst
<1> QED  BY <1>3 DEF Q

\* There is such a function, over every finite set.
LEMMA SumsExist ==
  ASSUME NEW f, NEW S, IsFiniteSet(S)
  PROVE  \E g : Sums(g, f, S)
<1> DEFINE V(s) == SumFunctionOnSet(f, s)
           Q == {s \in SUBSET S : \E g : Sums(g, f, s)}
<1>1. ASSUME NEW T \in SUBSET S, \A U \in SUBSET T : U # T => U \in Q
      PROVE  T \in Q
  <2> DEFINE G == [s \in SUBSET T |-> IF s = {} THEN 0
                                      ELSE f[First(s)] + V(s \ {First(s)})]
  <2>1. ASSUME NEW U \in SUBSET T, U # T
        PROVE  V(U) = G[U]
    <3> DEFINE h == CHOOSE g : Sums(g, f, U)
    <3>1. Sums(h, f, U)
      BY <1>1, <2>1
    <3>2. V(U) = h[U]
      BY SumIsOfSums
    <3> HIDE DEF h
    <3>3. CASE U = {}
      BY <3>1, <3>2, <3>3, SumsValue
    <3>4. CASE U # {}
      <4> DEFINE W == U \ {First(U)}
                 k == CHOOSE g : Sums(g, f, W)
      <4>1. First(U) \in U
        BY <3>4, FirstIn
      <4>2. W \in SUBSET T /\ W # T
        BY <4>1
      <4>3. Sums(k, f, W)
        BY <4>2, <1>1
      <4>4. V(W) = k[W]
        BY SumIsOfSums
      <4> HIDE DEF k
      <4>5. IsFiniteSet(U)
        BY FS_Subset
      <4>6. h[W] = k[W]
        <5>1. W \in SUBSET U /\ W \in SUBSET W
          OBVIOUS
        <5> HIDE DEF W
        <5> QED  BY <5>1, <4>3, <3>1, <4>5, SumsAgree
      <4>7. h[U] = f[First(U)] + h[W]
        BY <3>1, <3>4, SumsValue
      <4> QED  BY <3>2, <3>4, <4>4, <4>6, <4>7
    <3> QED  BY <3>3, <3>4
  <2>2. Sums(G, f, T)
    <3> SUFFICES ASSUME NEW s \in SUBSET T, s # {}
                 PROVE  V(s \ {First(s)}) = G[s \ {First(s)}]
      BY DEF Sums
    <3>1. First(s) \in s
      BY FirstIn
    <3>2. s \ {First(s)} \in SUBSET T /\ s \ {First(s)} # T
      BY <3>1
    <3> QED  BY <3>2, <2>1
  <2> QED  BY <2>2
<1> HIDE DEF Q
<1>2. SUBSET S \subseteq Q
  BY <1>1, SmallerFirst
<1> QED  BY <1>2 DEF Q

LEMMA SumOfNothing == ASSUME NEW f PROVE SumFunctionOnSet(f, {}) = 0
<1>1. PICK g : Sums(g, f, {})
  BY SumsExist, FS_EmptySet
<1> QED  BY <1>1, SumIsOfSums, SumsValue

LEMMA SumFirst ==
  ASSUME NEW f, NEW S, IsFiniteSet(S), S # {}
  PROVE  SumFunctionOnSet(f, S) = f[First(S)] + SumFunctionOnSet(f, S \ {First(S)})
<1> DEFINE T == S \ {First(S)}
           g == CHOOSE x : Sums(x, f, S)
           h == CHOOSE x : Sums(x, f, T)
<1>1. IsFiniteSet(T)
  BY FS_RemoveElement
<1>2. Sums(g, f, S) /\ Sums(h, f, T)
  BY <1>1, SumsExist
<1>3. SumFunctionOnSet(f, S) = g[S] /\ SumFunctionOnSet(f, T) = h[T]
  BY SumIsOfSums
<1> HIDE DEF g, h
<1>4. g[T] = h[T]
  <2>1. T \in SUBSET S /\ T \in SUBSET T
    OBVIOUS
  <2> HIDE DEF T
  <2> QED  BY <1>2, <2>1, SumsAgree
<1>5. g[S] = f[First(S)] + g[T]
  BY <1>2, SumsValue
<1> QED  BY <1>3, <1>4, <1>5

LEMMA SumIsNat ==
  ASSUME NEW f, NEW S, IsFiniteSet(S), \A x \in S : f[x] \in Nat
  PROVE  SumFunctionOnSet(f, S) \in Nat
<1> DEFINE Q == {T \in SUBSET S : SumFunctionOnSet(f, T) \in Nat}
<1>1. ASSUME NEW T \in SUBSET S, \A U \in SUBSET T : U # T => U \in Q
      PROVE  T \in Q
  <2>1. CASE T = {}
    BY <2>1, SumOfNothing
  <2>2. CASE T # {}
    <3>1. First(T) \in T
      BY <2>2, FirstIn
    <3>2. T \ {First(T)} \in Q
      BY <3>1, <1>1
    <3>3. IsFiniteSet(T)
      BY FS_Subset
    <3> QED  BY <2>2, <3>1, <3>2, <3>3, SumFirst
  <2> QED  BY <2>1, <2>2
<1> HIDE DEF Q
<1>2. SUBSET S \subseteq Q
  BY <1>1, SmallerFirst
<1> QED  BY <1>2 DEF Q

\* It does not matter which term is taken first.
LEMMA SumAnyFirst ==
  ASSUME NEW f, NEW S, IsFiniteSet(S), \A x \in S : f[x] \in Nat, NEW x \in S
  PROVE  SumFunctionOnSet(f, S) = f[x] + SumFunctionOnSet(f, S \ {x})
<1> DEFINE V(T) == SumFunctionOnSet(f, T)
           Q == {T \in SUBSET S : \A y \in T : V(T) = f[y] + V(T \ {y})}
<1>1. ASSUME NEW T \in SUBSET S, \A U \in SUBSET T : U # T => U \in Q, NEW y \in T
      PROVE  V(T) = f[y] + V(T \ {y})
  <2> DEFINE z == First(T)
             A == T \ {z}
             B == T \ {y}
  <2>1. z \in T
    BY FirstIn
  <2>2. IsFiniteSet(T) /\ IsFiniteSet(B)
    BY FS_Subset
  <2>3. V(T) = f[z] + V(A)
    BY <2>2, SumFirst
  <2>4. CASE y = z
    BY <2>3, <2>4
  <2>5. CASE y # z
    <3> HIDE DEF z
    <3>1. V(A) = f[y] + V(A \ {y})
      BY <1>1, <2>1, <2>5
    <3>2. V(B) = f[z] + V(B \ {z})
      BY <1>1, <2>1, <2>5
    <3>3. A \ {y} = B \ {z}
      OBVIOUS
    <3>4. V(A \ {y}) \in Nat
      <4>1. IsFiniteSet(A \ {y})
        BY FS_Subset
      <4> QED  BY <4>1, SumIsNat
    <3>5. f[y] \in Nat /\ f[z] \in Nat
      BY <2>1
    <3> DEFINE C == V(A \ {y})
    <3>6. V(A) = f[y] + C /\ V(B) = f[z] + C
      BY <3>1, <3>2, <3>3, Zenon
    <3> HIDE DEF A, C, V
    <3>7. V(T) = f[y] + V(B)
      BY <2>3, <3>4, <3>5, <3>6 DEF C
    <3> QED  BY <3>7
  <2> QED  BY <2>4, <2>5
<1>2. \A T \in SUBSET S : (\A U \in SUBSET T : U # T => U \in Q) => T \in Q
  BY <1>1
<1> HIDE DEF Q
<1>3. SUBSET S \subseteq Q
  BY <1>2, SmallerFirst
<1> QED  BY <1>3 DEF Q

LEMMA SumSame ==
  ASSUME NEW f, NEW g, NEW S, IsFiniteSet(S), \A x \in S : f[x] = g[x]
  PROVE  SumFunctionOnSet(f, S) = SumFunctionOnSet(g, S)
<1> DEFINE Q == {T \in SUBSET S : SumFunctionOnSet(f, T) = SumFunctionOnSet(g, T)}
<1>1. ASSUME NEW T \in SUBSET S, \A U \in SUBSET T : U # T => U \in Q
      PROVE  T \in Q
  <2>1. CASE T = {}
    BY <2>1, SumOfNothing
  <2>2. CASE T # {}
    <3>1. First(T) \in T
      BY <2>2, FirstIn
    <3>2. T \ {First(T)} \in Q
      BY <3>1, <1>1
    <3>3. IsFiniteSet(T)
      BY FS_Subset
    <3> QED  BY <2>2, <3>1, <3>2, <3>3, SumFirst
  <2> QED  BY <2>1, <2>2
<1> HIDE DEF Q
<1>2. SUBSET S \subseteq Q
  BY <1>1, SmallerFirst
<1> QED  BY <1>2 DEF Q
-----------------------------------------------------------------------------
(* The payments.                                                           *)

USE LedgerAssumption DEF LedgerAssumption

Paying(p) == {i \in Pays : p[i] > 0}

\* What is banked is a number, positive if any payment is.
LEMMA BankedIsNat ==
  ASSUME NEW p \in [Pays -> Nat]
  PROVE  /\ Banked(p) \in Nat
         /\ \A i \in Pays : p[i] <= Banked(p)
<1>1. IsFiniteSet(Paying(p)) /\ \A i \in Paying(p) : p[i] \in Nat
  BY FS_Subset DEF Paying
<1>2. Banked(p) = SumFunctionOnSet(p, Paying(p))
  BY DEF Banked, Paying
<1>3. Banked(p) \in Nat
  BY <1>1, <1>2, SumIsNat
<1>4. ASSUME NEW i \in Pays, p[i] > 0
      PROVE  p[i] <= Banked(p)
  <2>1. i \in Paying(p)
    BY <1>4 DEF Paying
  <2>2. IsFiniteSet(Paying(p) \ {i})
    BY <1>1, FS_RemoveElement
  <2>3. SumFunctionOnSet(p, Paying(p) \ {i}) \in Nat
    BY <1>1, <2>2, SumIsNat
  <2>4. Banked(p) = p[i] + SumFunctionOnSet(p, Paying(p) \ {i})
    BY <1>1, <1>2, <2>1, SumAnyFirst
  <2> QED  BY <2>3, <2>4, <1>4
<1> QED  BY <1>3, <1>4

\* A new payment adds its amount.
LEMMA BankedAdds ==
  ASSUME NEW p \in [Pays -> Nat], NEW i \in Pays, p[i] = 0, NEW amount \in Nat \ {0}
  PROVE  Banked([p EXCEPT ![i] = amount]) = Banked(p) + amount
<1> DEFINE q == [p EXCEPT ![i] = amount]
<1>1. q \in [Pays -> Nat] /\ q[i] = amount
  OBVIOUS
<1>2. Paying(q) \ {i} = Paying(p) /\ i \in Paying(q)
  BY DEF Paying
<1>3. \A j \in Paying(p) : p[j] = q[j]
  BY DEF Paying
<1>4. /\ IsFiniteSet(Paying(q)) /\ \A j \in Paying(q) : q[j] \in Nat
      /\ IsFiniteSet(Paying(p))
  BY <1>1, FS_Subset DEF Paying
<1> HIDE DEF q
<1>5. SumFunctionOnSet(q, Paying(q)) = amount + SumFunctionOnSet(q, Paying(p))
  BY <1>1, <1>2, <1>4, SumAnyFirst
<1>6. SumFunctionOnSet(q, Paying(p)) = SumFunctionOnSet(p, Paying(p))
  BY <1>3, <1>4, SumSame
<1>7. /\ Banked(q) = SumFunctionOnSet(q, Paying(q))
      /\ Banked(p) = SumFunctionOnSet(p, Paying(p))
  BY DEF Banked, Paying
<1>8. Banked(p) \in Nat
  BY BankedIsNat
<1>9. Banked(q) = Banked(p) + amount
  BY <1>5, <1>6, <1>7, <1>8
<1> QED  BY <1>9 DEF q

\* A payment deleted leaves less.
LEMMA BankedDrops ==
  ASSUME NEW p \in [Pays -> Nat], NEW i \in Pays, p[i] > 0
  PROVE  Banked([p EXCEPT ![i] = 0]) <= Banked(p)
<1> DEFINE q == [p EXCEPT ![i] = 0]
<1>1. q \in [Pays -> Nat] /\ q[i] = 0
  OBVIOUS
<1>2. p[i] \in Nat \ {0}
  OBVIOUS
<1>3. [q EXCEPT ![i] = p[i]] = p
  OBVIOUS
<1> HIDE DEF q
<1>4. Banked(p) = Banked(q) + p[i]
  BY <1>1, <1>2, <1>3, BankedAdds
<1>5. Banked(q) \in Nat
  BY <1>1, BankedIsNat
<1>6. Banked(q) <= Banked(p)
  BY <1>2, <1>4, <1>5
<1> QED  BY <1>6 DEF q

\* No payments add up to nothing.
LEMMA NothingBanked == Banked([i \in Pays |-> 0]) = 0
<1>1. {i \in Pays : [j \in Pays |-> 0][i] > 0} = {}
  OBVIOUS
<1> QED  BY <1>1, SumOfNothing DEF Banked
-----------------------------------------------------------------------------
(* The inductive invariant.                                                *)

\* An invoice that was sent is no draft, which keeps EditAmounts away from it,
SentIsNoDraft == row.sent => row.status # "Draft"

\* and a draft has no money on its books, so its total may be anything.
DraftIsUnpaid == row.status = "Draft" => row.paid = 0

\* The books only lag behind deletions: they never show less than is banked, nor
\* more than is billed. So what Payable lets through, by the books, still fits.
BooksBehind ==
    /\ row.due = row.total - row.paid
    /\ Banked(pays) <= row.paid /\ row.paid <= row.total

\* Paid and paid_at follow the books, for an invoice of nothing too once a payment
\* has come and gone.
PaidMeansCovered ==
    row.status # "Cancelled" =>
        /\ row.paidAt <=> row.status = "Paid"
        /\ row.status = "Paid" => row.paid >= row.total
        /\ row.total > 0 /\ row.paid >= row.total => row.status = "Paid"

IInv ==
    /\ TypeOK
    /\ SentIsNoDraft
    /\ DraftIsUnpaid
    /\ BooksBehind
    /\ BooksBalance
    /\ PaidMeansCovered
    /\ TimeFollowsMoney

LEMMA PaysAreNat == ASSUME TypeOK PROVE pays \in [Pays -> Nat]
  BY DEF TypeOK

LEMMA InitInvariant == Init => IInv
<1> SUFFICES ASSUME Init PROVE IInv
  OBVIOUS
<1>1. PICK total \in 0..MaxTotal, auto \in BOOLEAN :
        row = Raised(IF auto THEN "Sent" ELSE "Draft", total)
  BY DEF Init
<1>2. /\ row \in Rows
      /\ row.status \in {"Sent", "Draft"}
      /\ row.sent = FALSE /\ row.paidAt = FALSE
      /\ row.total = total /\ row.paid = 0 /\ row.due = total
  BY <1>1 DEF Raised, Rows, Statuses
<1>3. Banked(pays) = 0
  BY NothingBanked DEF Init
<1>4. TypeOK
  <2>1. task \in [Tasks -> {"none", "queued", "read", "mailed"}]
    BY DEF Init
  <2>2. pays \in [Pays -> 0..MaxTotal] /\ deleting \subseteq Pays
    BY DEF Init
  <2>3. {late, timeHeld, sweep, viewing, lost} \subseteq BOOLEAN
    BY DEF Init
  <2> QED  BY <1>2, <2>1, <2>2, <2>3 DEF TypeOK
<1>5. timeHeld = TRUE
  BY DEF Init
<1> QED
  BY <1>2, <1>3, <1>4, <1>5 DEF IInv, SentIsNoDraft, DraftIsUnpaid, BooksBehind,
     BooksBalance, PaidMeansCovered, TimeFollowsMoney
-----------------------------------------------------------------------------
(* Steps that leave the payments and what the invoice bills alone.         *)

\* What such a step makes of the row: perhaps a new status, never one that leaves
\* Cancelled or Paid, or makes a Draft or Paid.
Moved(r, s) ==
    /\ s \in Rows
    /\ s.total = r.total /\ s.paid = r.paid /\ s.due = r.total - r.paid
    /\ s.paidAt = r.paidAt
    /\ r.sent => s.sent
    /\ s.status = "Draft" => r.status = "Draft" /\ s.sent = r.sent
    /\ s.status = "Paid" <=> r.status = "Paid"
    /\ r.status = "Cancelled" => s.status = "Cancelled"

\* Send and RecordMail, before the save.
SentRow(r) == [r EXCEPT !.sent = TRUE,
                        !.status = IF @ = "Draft" THEN "Sent" ELSE @]

LEMMA SentMoves ==
  ASSUME NEW r \in Rows, r.due = r.total - r.paid
  PROVE  /\ Moved(r, SentRow(r))
         /\ SentRow(r).sent = TRUE
         /\ SentRow(r).status = IF r.status = "Draft" THEN "Sent" ELSE r.status
  BY DEF Rows, Statuses, SentRow, Moved

LEMMA StatusMoves ==
  ASSUME NEW r \in Rows, r.due = r.total - r.paid,
         NEW status \in Statuses \ {"Draft", "Paid"}, r.status # "Paid",
         r.status = "Cancelled" => status = "Cancelled"
  PROVE  /\ Moved(r, [r EXCEPT !.status = status])
         /\ [r EXCEPT !.status = status].status = status
         /\ [r EXCEPT !.status = status].sent = r.sent
  BY DEF Rows, Statuses, Moved

\* RecordView, before the save.
ViewedRow(r) == [r EXCEPT !.viewed = TRUE,
                          !.status = IF @ = "Sent" THEN "Viewed" ELSE @]

LEMMA ViewMoves ==
  ASSUME NEW r \in Rows, r.due = r.total - r.paid
  PROVE  /\ Moved(r, ViewedRow(r))
         /\ ViewedRow(r).sent = r.sent
         /\ ViewedRow(r).status = IF r.status = "Sent" THEN "Viewed" ELSE r.status
  BY DEF Rows, Statuses, ViewedRow, Moved

\* A save of the whole row, which derives amount_due, finds it derived already.
LEMMA DerivedIsSame ==
  ASSUME NEW r \in Rows, r.due = r.total - r.paid
  PROVE  [r EXCEPT !.due = r.total - r.paid] = r
  BY DEF Rows

\* The row saved, or nothing saved at all.
SavedOrNot ==
    \/ timeHeld' = (timeHeld /\ (row'.status = "Cancelled" => Banked(pays') > 0))
    \/ UNCHANGED <<row, timeHeld>>

LEMMA SavedIsSaved ==
  ASSUME NEW r, Save(r, pays), UNCHANGED pays
  PROVE  row' = r /\ SavedOrNot
  BY DEF Save, SavedOrNot

LEMMA MovedKeepsInvariant ==
  ASSUME IInv, TypeOK', Moved(row, row'), SavedOrNot, UNCHANGED <<pays, deleting, lost>>
  PROVE  IInv'
<1>1. Banked(pays)' = Banked(pays) /\ Banked(pays') = Banked(pays) /\ Banked(pays) \in Nat
  BY BankedIsNat, PaysAreNat DEF IInv, Banked
<1>2. SentIsNoDraft' /\ DraftIsUnpaid' /\ PaidMeansCovered'
  BY DEF IInv, Moved, SentIsNoDraft, DraftIsUnpaid, PaidMeansCovered
<1>3. BooksBehind' /\ BooksBalance'
  BY <1>1 DEF IInv, Moved, BooksBehind, BooksBalance
<1>4. TimeFollowsMoney'
  BY <1>1 DEF IInv, Moved, SavedOrNot, TimeFollowsMoney, TypeOK
<1> QED  BY <1>2, <1>3, <1>4 DEF IInv

\* The steps in question,
Quiet ==
    \/ EditDates \/ DayPasses \/ Send \/ Cancel
    \/ \E t \in Tasks : ReadForMail(t) \/ Mail(t) \/ RecordMail(t) \/ LoseMail(t)
    \/ ListOverdue \/ MarkOverdue \/ OpenLink \/ RecordView

\* and what InvoicePromise sees of them: an issue, the end of an open invoice, or
\* nothing.
Phase(r) ==
    CASE r.status = "Draft"     -> "draft"
      [] r.status = "Paid"      -> "settled"
      [] r.status = "Cancelled" -> "void"
      [] OTHER                  -> "open"

Seen(r, s) ==
    \/ /\ s.sent = TRUE
       /\ Phase(s) = IF Phase(r) = "draft" THEN "open" ELSE Phase(r)
    \/ s.sent = r.sent /\ Phase(r) \in {"draft", "open"} /\ Phase(s) = "void"
    \/ s.sent = r.sent /\ Phase(s) = Phase(r)

LEMMA QuietSteps ==
  ASSUME IInv, Quiet
  PROVE  /\ Moved(row, row') /\ Seen(row, row')
         /\ SavedOrNot
         /\ UNCHANGED <<pays, deleting, lost>>
         /\ TypeOK'
<1> DEFINE Goal == /\ Moved(row, row') /\ Seen(row, row') /\ SavedOrNot
                   /\ UNCHANGED <<pays, deleting, lost>>
                   /\ TypeOK'
<1>1. /\ TypeOK /\ row \in Rows /\ row.due = row.total - row.paid
      /\ late \in BOOLEAN /\ sweep \in BOOLEAN /\ viewing \in BOOLEAN
      /\ task \in [Tasks -> {"none", "queued", "read", "mailed"}]
  BY DEF IInv, TypeOK, BooksBehind
<1>2. Moved(row, row) /\ Seen(row, row)
  BY <1>1 DEF Moved, Seen, Phase
<1>3. ASSUME UNCHANGED <<row, timeHeld, pays, deleting, lost>>,
             late' \in BOOLEAN, sweep' \in BOOLEAN, viewing' \in BOOLEAN,
             task' \in [Tasks -> {"none", "queued", "read", "mailed"}]
      PROVE  Goal
  BY <1>1, <1>2, <1>3 DEF SavedOrNot, TypeOK
<1>4. ASSUME NEW s, Moved(row, s), Seen(row, s), Save(s, pays),
             UNCHANGED <<pays, deleting, lost>>,
             late' \in BOOLEAN, sweep' \in BOOLEAN, viewing' \in BOOLEAN,
             task' \in [Tasks -> {"none", "queued", "read", "mailed"}]
      PROVE  Goal
  <2>1. row' = s /\ SavedOrNot
    BY <1>4, SavedIsSaved
  <2>2. timeHeld' \in BOOLEAN
    BY <1>1, <1>4 DEF Save, TypeOK
  <2>3. row' \in Rows
    BY <1>4, <2>1 DEF Moved
  <2>4. TypeOK'
    BY <1>1, <1>4, <2>2, <2>3 DEF TypeOK
  <2> QED  BY <1>4, <2>1, <2>4
<1>5. [row EXCEPT !.due = row.total - row.paid] = row
  BY <1>1, DerivedIsSame
<1> SUFFICES Goal
  BY DEF Goal
<1> HIDE DEF Goal
<1>6. CASE EditDates
  BY <1>1, <1>2, <1>4, <1>5, <1>6 DEF EditDates, SaveAll
<1>7. CASE DayPasses
  BY <1>1, <1>3, <1>7 DEF DayPasses
<1>8. CASE Send
  <2> DEFINE s == SentRow(row)
  <2>1. Moved(row, s) /\ Seen(row, s)
    BY <1>1, SentMoves DEF Seen, Phase
  <2>2. s \in Rows /\ s.due = s.total - s.paid
    BY <2>1 DEF Moved
  <2>3. Save([s EXCEPT !.due = s.total - s.paid], pays)
    BY <1>8 DEF Send, SaveAll, SentRow
  <2> HIDE DEF s
  <2>4. Save(s, pays)
    BY <2>2, <2>3, DerivedIsSame
  <2> QED  BY <1>1, <1>4, <1>8, <2>1, <2>4 DEF Send
<1>9. CASE Cancel
  <2> DEFINE s == [row EXCEPT !.status = "Cancelled"]
  <2>1. row.status \notin {"Paid", "Cancelled"} /\ Save(s, pays)
    BY <1>9 DEF Cancel, Settled
  <2>2. Moved(row, s) /\ Seen(row, s)
    BY <1>1, <2>1, StatusMoves DEF Statuses, Seen, Phase
  <2> QED  BY <1>1, <1>4, <1>9, <2>1, <2>2 DEF Cancel
<1>10. ASSUME NEW t \in Tasks, ReadForMail(t) \/ Mail(t) \/ LoseMail(t)
       PROVE  Goal
  BY <1>1, <1>3, <1>10 DEF ReadForMail, Mail, LoseMail
<1>11. ASSUME NEW t \in Tasks, RecordMail(t)
       PROVE  Goal
  <2>1. Moved(row, SentRow(row)) /\ Seen(row, SentRow(row))
    BY <1>1, SentMoves DEF Seen, Phase
  <2>2. Save(SentRow(row), pays)
    BY <1>11 DEF RecordMail, SentRow
  <2> QED  BY <1>1, <1>4, <1>11, <2>1, <2>2 DEF RecordMail
<1>12. CASE ListOverdue
  BY <1>1, <1>3, <1>12 DEF ListOverdue
<1>13. CASE MarkOverdue
  <2>1. CASE OverdueCandidate
    <3> DEFINE s == [row EXCEPT !.status = "Overdue"]
    <3>1. row.status \in {"Sent", "Viewed", "Partially_Paid"} /\ Save(s, pays)
      BY <1>13, <2>1 DEF MarkOverdue, OverdueCandidate
    <3>2. Moved(row, s) /\ Seen(row, s)
      BY <1>1, <3>1, StatusMoves DEF Statuses, Seen, Phase
    <3> QED  BY <1>1, <1>4, <1>13, <3>1, <3>2 DEF MarkOverdue
  <2>2. CASE ~OverdueCandidate
    BY <1>1, <1>3, <1>13, <2>2 DEF MarkOverdue
  <2> QED  BY <2>1, <2>2
<1>14. CASE OpenLink
  BY <1>1, <1>3, <1>14 DEF OpenLink
<1>15. CASE RecordView
  <2>1. CASE row.viewed
    BY <1>1, <1>3, <1>15, <2>1 DEF RecordView
  <2>2. CASE ~row.viewed
    <3>1. Moved(row, ViewedRow(row)) /\ Seen(row, ViewedRow(row))
      BY <1>1, ViewMoves DEF Seen, Phase
    <3>2. Save(ViewedRow(row), pays)
      BY <1>15, <2>2 DEF RecordView, ViewedRow
    <3> QED  BY <1>1, <1>4, <1>15, <3>1, <3>2 DEF RecordView
  <2> QED  BY <2>1, <2>2
<1> QED
  BY <1>6, <1>7, <1>8, <1>9, <1>10, <1>11, <1>12, <1>13, <1>14, <1>15 DEF Quiet
-----------------------------------------------------------------------------
(* Steps that bring the books to what is banked.                           *)

\* The status a payment leaves an invoice in that is not cancelled.
LEMMA StandingFacts ==
  ASSUME NEW r \in Rows, r.status # "Cancelled", late \in BOOLEAN,
         NEW banked \in Nat, banked <= r.total
  PROVE  /\ Standing(r, banked) \in Statuses \ {"Cancelled"}
         /\ Standing(r, banked) = "Paid" <=> banked >= r.total
         /\ Standing(r, banked) = "Draft" => /\ banked = 0
                                             /\ r.status = "Draft" \/ ~r.sent
<1>1. Unpaid(r) \in {"Draft", "Overdue", "Viewed", "Sent"}
  BY DEF Unpaid, Rows
<1>2. Unpaid(r) = "Draft" => ~r.sent
  BY DEF Unpaid, Rows
<1>3. CASE banked >= r.total
  <2>1. r.total \in Nat
    BY DEF Rows
  <2>2. banked \notin 1..(r.total - 1)
    BY <1>3, <2>1
  <2>3. Standing(r, banked) = "Paid"
    BY <1>3, <2>2 DEF Standing
  <2> QED  BY <1>3, <2>3 DEF Statuses
<1>4. CASE banked \in 1..(r.total - 1)
  <2>1. Standing(r, banked) = "Partially_Paid"
    BY <1>4 DEF Standing, Rows
  <2> QED  BY <1>4, <2>1 DEF Statuses, Rows
<1>5. CASE ~(banked >= r.total) /\ banked \notin 1..(r.total - 1)
  <2>1. banked = 0
    BY <1>5 DEF Rows
  <2>2. Standing(r, banked) = IF r.status \in {"Paid", "Partially_Paid"} THEN Unpaid(r)
                                                                       ELSE r.status
    BY <1>5 DEF Standing
  <2> QED  BY <1>1, <1>2, <1>5, <2>1, <2>2 DEF Statuses, Rows
<1> QED  BY <1>3, <1>4, <1>5

LEMMA UpdatedRow ==
  ASSUME NEW r \in Rows, late \in BOOLEAN, NEW banked \in Nat, banked <= r.total
  PROVE  LET s == Updated(r, banked)
         IN  /\ s \in Rows
             /\ s.total = r.total /\ s.sent = r.sent
             /\ s.paid = banked /\ s.due = r.total - banked
             /\ r.status = "Cancelled" => s.status = "Cancelled"
             /\ r.status # "Cancelled" =>
                  /\ s.status = Standing(r, banked)
                  /\ s.paidAt = (banked >= r.total)
<1> DEFINE open == [r EXCEPT !.paid = banked, !.due = r.total - banked]
<1>1. /\ open \in Rows
      /\ open.status = r.status /\ open.sent = r.sent /\ open.total = r.total
      /\ open.paid = banked /\ open.due = r.total - banked
  <2>1. r.total \in 0..MaxTotal /\ MaxTotal \in Nat
    BY LedgerAssumption DEF Rows
  <2>2. banked \in 0..MaxTotal /\ r.total - banked \in -MaxTotal..MaxTotal
    BY <2>1
  <2> QED  BY <2>2 DEF Rows
<1> HIDE DEF open
<1>2. CASE r.status = "Cancelled"
  <2>1. Updated(r, banked) = open
    BY <1>2 DEF Updated, open
  <2> QED  BY <1>1, <1>2, <2>1
<1>3. CASE r.status # "Cancelled"
  <2> DEFINE s == [open EXCEPT !.status = Standing(r, banked),
                               !.paidAt = banked >= r.total]
  <2>1. Updated(r, banked) = s
    BY <1>3 DEF Updated, open
  <2>2. Standing(r, banked) \in Statuses /\ (banked >= r.total) \in BOOLEAN
    BY <1>3, StandingFacts
  <2>3. /\ s \in Rows
        /\ s.status = Standing(r, banked) /\ s.paidAt = (banked >= r.total)
        /\ s.sent = open.sent /\ s.total = open.total
        /\ s.paid = open.paid /\ s.due = open.due
    BY <1>1, <2>2 DEF Rows
  <2> HIDE DEF s
  <2> QED  BY <1>1, <1>3, <2>1, <2>3
<1> QED  BY <1>2, <1>3

\* What InvoicePromise sees of it: a posting, or money given back.
Posted(r, s) ==
    /\ s.sent = r.sent /\ s.total = r.total
    /\ \/ /\ r.status # "Cancelled"
          /\ s.paid \in 0..r.total
          /\ s.status # "Cancelled"
          /\ s.status = "Paid" <=> s.paid = r.total
          /\ s.status = "Draft" => s.paid = 0 /\ ~r.sent
       \/ /\ r.status = "Cancelled" /\ s.status = "Cancelled"
          /\ s.paid \in 0..r.paid

LEMMA UpdateSteps ==
  ASSUME IInv, UpdateInvoicePayment(pays'), pays' \in [Pays -> 0..MaxTotal],
         deleting' \subseteq Pays, UNCHANGED <<late, task, sweep, viewing>>,
         Banked(pays') <= row.total,
         row.status = "Cancelled" => Banked(pays') <= Banked(pays)
  PROVE  IInv' /\ Posted(row, row')
<1> DEFINE banked == Banked(pays')
           s == Updated(row, banked)
<1>1. row \in Rows /\ late \in BOOLEAN /\ pays' \in [Pays -> Nat]
  BY DEF IInv, TypeOK
<1>2. banked \in Nat /\ banked <= row.total
  BY <1>1, BankedIsNat
<1>3. /\ row' = s
      /\ timeHeld' = (timeHeld /\ (s.status = "Cancelled" => banked > 0))
      /\ lost' = FALSE
  BY DEF UpdateInvoicePayment, Save
<1>4. Banked(pays)' = banked
  BY DEF Banked
<1> HIDE DEF banked
<1>5. /\ s \in Rows
      /\ s.total = row.total /\ s.sent = row.sent
      /\ s.paid = banked /\ s.due = row.total - banked
      /\ row.status = "Cancelled" => s.status = "Cancelled"
      /\ row.status # "Cancelled" =>
           /\ s.status = Standing(row, banked)
           /\ s.paidAt = (banked >= row.total)
  BY <1>1, <1>2, UpdatedRow
<1> HIDE DEF s
<1>6. row.status # "Cancelled" =>
        /\ s.status \in Statuses \ {"Cancelled"}
        /\ s.status = "Paid" <=> banked >= row.total
        /\ s.status = "Draft" => banked = 0 /\ (row.status = "Draft" \/ ~row.sent)
  BY <1>1, <1>2, <1>5, StandingFacts
<1>7. row.total \in Nat /\ row.paid \in Nat /\ Banked(pays) <= row.paid
  BY <1>1 DEF IInv, BooksBehind, Rows
<1>8. TypeOK'
  BY <1>3, <1>5 DEF IInv, TypeOK
<1>9. SentIsNoDraft' /\ DraftIsUnpaid'
  BY <1>3, <1>5, <1>6 DEF IInv, SentIsNoDraft, DraftIsUnpaid
<1>10. BooksBehind' /\ BooksBalance'
  BY <1>2, <1>3, <1>4, <1>5, <1>7 DEF BooksBehind, BooksBalance
<1>11. PaidMeansCovered'
  BY <1>2, <1>3, <1>5, <1>6, <1>7 DEF PaidMeansCovered
<1>12. TimeFollowsMoney'
  <2>1. ~timeHeld => row.status = "Cancelled" /\ Banked(pays) = 0
    BY DEF IInv, TimeFollowsMoney
  <2>2. ~timeHeld' => row'.status = "Cancelled" /\ banked = 0
    <3>1. CASE ~timeHeld
      <4>1. banked <= Banked(pays) /\ Banked(pays) = 0
        BY <2>1, <3>1 DEF banked
      <4> QED  BY <1>2, <1>3, <1>5, <2>1, <3>1, <4>1
    <3>2. CASE timeHeld /\ ~timeHeld'
      <4>1. s.status = "Cancelled" /\ ~(banked > 0)
        BY <1>3, <3>2
      <4> QED  BY <1>2, <1>3, <4>1
    <3> QED  BY <3>1, <3>2
  <2>3. row'.status = "Cancelled" /\ timeHeld' => banked > 0
    BY <1>3
  <2> QED  BY <1>4, <2>2, <2>3 DEF TimeFollowsMoney
<1>13. Posted(row, row')
  <2>1. CASE row.status = "Cancelled"
    <3>1. banked <= row.paid
      <4>1. Banked(pays) \in Nat
        BY PaysAreNat, BankedIsNat DEF IInv
      <4> QED  BY <1>2, <1>7, <2>1, <4>1 DEF banked
    <3> QED  BY <1>2, <1>3, <1>5, <1>7, <2>1, <3>1 DEF Posted
  <2>2. CASE row.status # "Cancelled"
    BY <1>2, <1>3, <1>5, <1>6, <1>7, <2>2 DEF Posted, IInv, SentIsNoDraft
  <2> QED  BY <2>1, <2>2
<1> QED
  BY <1>8, <1>9, <1>10, <1>11, <1>12, <1>13 DEF IInv, TypeOK, PaidMeansCovered

\* What a deletion leaves before the books follow, and what a cut one leaves.
LEMMA DeletionSteps ==
  ASSUME IInv, NEW p \in Pays, DeletePayment(p) \/ FailAfterDelete(p)
  PROVE  IInv' /\ UNCHANGED row
<1>1. /\ pays' \in [Pays -> 0..MaxTotal]
      /\ Banked(pays') <= Banked(pays)
  <2>1. CASE DeletePayment(p)
    <3>1. pays' = [pays EXCEPT ![p] = 0] /\ pays[p] > 0
      BY <2>1 DEF DeletePayment
    <3>2. Banked([pays EXCEPT ![p] = 0]) <= Banked(pays)
      BY <3>1, PaysAreNat, BankedDrops DEF IInv
    <3> QED  BY <3>1, <3>2 DEF IInv, TypeOK
  <2>2. CASE FailAfterDelete(p)
    <3>1. pays' = pays /\ Banked(pays) \in Nat
      BY <2>2, PaysAreNat, BankedIsNat DEF FailAfterDelete, IInv
    <3> QED  BY <3>1 DEF IInv, TypeOK
  <2> QED  BY <2>1, <2>2
<1>2. Banked(pays) \in Nat /\ Banked(pays') \in Nat /\ Banked(pays)' = Banked(pays')
  <2>1. pays' \in [Pays -> Nat]
    BY <1>1
  <2> QED  BY <2>1, PaysAreNat, BankedIsNat DEF IInv, Banked
<1>3. /\ UNCHANGED <<row, late, timeHeld, task, sweep, viewing>>
      /\ deleting' \subseteq Pays /\ lost' \in BOOLEAN
      /\ deleting' # {} \/ lost'
  BY DEF DeletePayment, FailAfterDelete, IInv, TypeOK
<1>4. TypeOK'
  BY <1>1, <1>3 DEF IInv, TypeOK
<1>5. SentIsNoDraft' /\ DraftIsUnpaid' /\ PaidMeansCovered'
  BY <1>3 DEF IInv, SentIsNoDraft, DraftIsUnpaid, PaidMeansCovered
<1>6. BooksBehind' /\ BooksBalance'
  <2>1. row.paid \in Nat
    BY DEF IInv, TypeOK, Rows
  <2> QED  BY <1>1, <1>2, <1>3, <2>1 DEF IInv, BooksBehind, BooksBalance
<1>7. TimeFollowsMoney'
  BY <1>1, <1>2, <1>3 DEF IInv, TimeFollowsMoney
<1> QED  BY <1>3, <1>4, <1>5, <1>6, <1>7 DEF IInv

\* A payment recorded fits: Payable goes by the books, which show no less than
\* what is banked.
LEMMA RecordSteps ==
  ASSUME IInv, NEW p \in Pays, RecordPayment(p)
  PROVE  IInv' /\ Posted(row, row')
<1>1. PICK amount \in 1..MaxTotal :
        Payable(amount) /\ pays' = [pays EXCEPT ![p] = amount]
  BY DEF RecordPayment
<1>2. pays[p] = 0 /\ pays \in [Pays -> Nat] /\ amount \in Nat \ {0}
  BY LedgerAssumption, PaysAreNat DEF RecordPayment, IInv
<1>3. Banked([pays EXCEPT ![p] = amount]) = Banked(pays) + amount
  BY <1>2, BankedAdds
<1>4. Banked(pays') <= row.total
  <2>1. amount <= row.due /\ row.due = row.total - row.paid /\ Banked(pays) <= row.paid
    BY <1>1 DEF Payable, IInv, BooksBehind
  <2>2. Banked(pays) \in Nat /\ row.paid \in Nat /\ row.total \in Nat
    BY <1>2, BankedIsNat DEF IInv, TypeOK, Rows
  <2>3. Banked(pays) + amount <= row.total
    BY <1>2, <2>1, <2>2
  <2> QED  BY <1>1, <1>3, <2>3
<1>5. row.status # "Cancelled"
  BY <1>1 DEF Payable
<1>6. pays' \in [Pays -> 0..MaxTotal]
  BY <1>1 DEF IInv, TypeOK
<1>7. /\ UpdateInvoicePayment(pays')
      /\ UNCHANGED <<late, task, sweep, viewing>> /\ deleting' \subseteq Pays
  BY DEF RecordPayment, IInv, TypeOK
<1> QED  BY <1>4, <1>5, <1>6, <1>7, UpdateSteps

\* After a deletion the books drop to what is banked.
LEMMA UpdateAfterDeleteSteps ==
  ASSUME IInv, NEW p \in Pays, UpdateAfterDelete(p)
  PROVE  IInv' /\ Posted(row, row')
<1>1. pays' = pays /\ UpdateInvoicePayment(pays')
  BY DEF UpdateAfterDelete
<1>2. Banked(pays') <= row.total /\ Banked(pays') <= Banked(pays)
  <2>1. Banked(pays) \in Nat /\ row.paid \in Nat /\ row.total \in Nat
    BY PaysAreNat, BankedIsNat DEF IInv, TypeOK, Rows
  <2>2. Banked(pays) <= row.paid /\ row.paid <= row.total
    BY DEF IInv, BooksBehind
  <2> QED  BY <1>1, <2>1, <2>2
<1>3. /\ pays' \in [Pays -> 0..MaxTotal] /\ deleting' \subseteq Pays
      /\ UNCHANGED <<late, task, sweep, viewing>>
  BY DEF UpdateAfterDelete, IInv, TypeOK
<1> QED  BY <1>1, <1>2, <1>3, UpdateSteps

\* A draft's amounts are edited with nothing paid, banked or sent.
Repriced(r, s) ==
    /\ ~r.sent /\ ~s.sent /\ r.status = "Draft" /\ s.status = "Draft"
    /\ r.paid = 0 /\ s.paid = 0
    /\ s.total \in Nat

LEMMA EditAmountsSteps ==
  ASSUME IInv, EditAmounts
  PROVE  IInv' /\ Repriced(row, row')
<1>1. PICK total \in 0..MaxTotal : SaveAll([row EXCEPT !.total = total], pays)
  BY DEF EditAmounts
<1>2. /\ TypeOK /\ row \in Rows /\ row.status = "Draft" /\ ~row.sent /\ row.paid = 0
      /\ Banked(pays) <= 0
  BY DEF EditAmounts, IInv, TypeOK, SentIsNoDraft, DraftIsUnpaid, BooksBehind, Rows
<1>3. Banked(pays) = 0 /\ Banked(pays)' = 0
  <2>1. Banked(pays) \in Nat
    BY PaysAreNat, BankedIsNat DEF IInv
  <2> QED  BY <1>2, <2>1 DEF EditAmounts, Banked
<1>4. /\ row' = [[row EXCEPT !.total = total] EXCEPT !.due = total - 0]
      /\ timeHeld' = (timeHeld /\ (row'.status = "Cancelled" => Banked(pays) > 0))
  BY <1>1, <1>2 DEF SaveAll, Save, Rows
<1>5. total \in Nat /\ total - 0 = total /\ total \in -MaxTotal..MaxTotal
  BY LedgerAssumption
<1>6. /\ row' \in Rows
      /\ row'.status = "Draft" /\ row'.sent = row.sent /\ row'.paidAt = row.paidAt
      /\ row'.total = total /\ row'.paid = row.paid /\ row'.due = total
  BY <1>2, <1>4, <1>5 DEF Rows
<1>7. row'.status # "Cancelled" /\ (timeHeld' <=> timeHeld)
  BY <1>4, <1>6
<1>8. timeHeld
  BY <1>2 DEF IInv, TimeFollowsMoney
<1>9. TypeOK'
  <2>1. timeHeld' \in BOOLEAN
    BY <1>4
  <2> QED  BY <1>2, <1>6, <2>1 DEF EditAmounts, TypeOK
<1>10. SentIsNoDraft' /\ DraftIsUnpaid' /\ PaidMeansCovered'
  BY <1>2, <1>6 DEF IInv, SentIsNoDraft, DraftIsUnpaid, PaidMeansCovered
<1>11. BooksBehind' /\ BooksBalance'
  BY <1>2, <1>3, <1>5, <1>6 DEF BooksBehind, BooksBalance
<1>12. TimeFollowsMoney'
  BY <1>7, <1>8 DEF TimeFollowsMoney
<1> QED
  BY <1>2, <1>5, <1>6, <1>9, <1>10, <1>11, <1>12 DEF IInv, Repriced
-----------------------------------------------------------------------------
(* Every step, and what InvoicePromise sees of it.                         *)

LEMMA EveryStep ==
  ASSUME IInv, [Next]_vars
  PROVE  /\ IInv'
         /\ \/ Moved(row, row') /\ Seen(row, row')
            \/ Posted(row, row')
            \/ Repriced(row, row')
<1>1. CASE Quiet
  BY <1>1, QuietSteps, MovedKeepsInvariant
<1>2. CASE EditAmounts
  BY <1>2, EditAmountsSteps
<1>3. ASSUME NEW p \in Pays, RecordPayment(p)
      PROVE  IInv' /\ Posted(row, row')
  BY <1>3, RecordSteps
<1>4. ASSUME NEW p \in Pays, UpdateAfterDelete(p)
      PROVE  IInv' /\ Posted(row, row')
  BY <1>4, UpdateAfterDeleteSteps
<1>5. ASSUME UNCHANGED row
      PROVE  Moved(row, row') /\ Seen(row, row')
  BY <1>5 DEF IInv, TypeOK, BooksBehind, Moved, Seen
<1>6. ASSUME NEW p \in Pays, DeletePayment(p) \/ FailAfterDelete(p)
      PROVE  IInv' /\ Moved(row, row') /\ Seen(row, row')
  BY <1>5, <1>6, DeletionSteps
<1>7. CASE UNCHANGED vars
  <2>1. IInv'
    BY <1>7 DEF vars, IInv, TypeOK, SentIsNoDraft, DraftIsUnpaid, BooksBehind,
       BooksBalance, PaidMeansCovered, TimeFollowsMoney, Banked
  <2> QED  BY <1>5, <1>7, <2>1 DEF vars
<1> QED
  BY <1>1, <1>2, <1>3, <1>4, <1>6, <1>7 DEF Next, Quiet

LEMMA PromiseStarts == Init => Promise!Init
<1> SUFFICES ASSUME Init PROVE Promise!Init
  OBVIOUS
<1>1. PICK total \in 0..MaxTotal, auto \in BOOLEAN :
        row = Raised(IF auto THEN "Sent" ELSE "Draft", total)
  BY DEF Init
<1>2. /\ row.sent = FALSE /\ row.paid = 0 /\ row.total = total
      /\ row.status = "Draft" \/ row.status = "Sent"
  BY <1>1 DEF Raised
<1>3. total \in Nat
  OBVIOUS
<1> QED  BY <1>2, <1>3 DEF Promise!Init

\* The row's part in the promise.
LEMMA MovedIsPromised ==
  ASSUME row \in Rows, row' \in Rows, Moved(row, row'), Seen(row, row')
  PROVE  [Promise!Next]_Promise!vars
  BY DEF Moved, Seen, Phase, Rows, Statuses, Promise!Next, Promise!vars, Promise!Issue, Promise!Void

LEMMA PostedIsPromised ==
  ASSUME row \in Rows, row' \in Rows, Posted(row, row')
  PROVE  [Promise!Next]_Promise!vars
<1>1. /\ row'.paid \in Nat /\ row.total \in Nat /\ row.paid \in Nat
      /\ row.status \in Statuses /\ row'.status \in Statuses
  BY DEF Rows
<1>2. CASE row.status = "Cancelled"
  BY <1>1, <1>2 DEF Posted, Promise!Next, Promise!Return
<1>3. CASE row.status # "Cancelled"
  BY <1>1, <1>3 DEF Posted, Statuses, Promise!Next, Promise!Post
<1> QED  BY <1>2, <1>3

LEMMA RepricedIsPromised ==
  ASSUME row \in Rows, row' \in Rows, Repriced(row, row')
  PROVE  [Promise!Next]_Promise!vars
<1>1. row.sent = row'.sent
  BY DEF Repriced, Rows
<1> QED  BY <1>1 DEF Repriced, Promise!Next, Promise!Price
-----------------------------------------------------------------------------
(* The theorems.                                                           *)

\* What every other theorem rests on.
THEOREM Invariance == Spec => []IInv
<1>1. IInv /\ [Next]_vars => IInv'
  BY EveryStep
<1> QED  BY InitInvariant, <1>1, PTL DEF Spec

\* The row, the payments and the tasks stay in the sets they are declared over:
\* in particular no interleaving pays an invoice past its total.
THEOREM TypeCorrect == Spec => []TypeOK
<1>1. IInv => TypeOK
  BY DEF IInv
<1> QED  BY <1>1, Invariance, PTL

\* Payments and deletions, interleaved and cut short as they may be, leave the
\* books true: update_invoice_payment sums the rows there are.
THEOREM BooksBalanceAlways == Spec => []BooksBalance
<1>1. IInv => BooksBalance
  BY DEF IInv
<1> QED  BY <1>1, Invariance, PTL

\* Status, paid_at and amount_paid, written by different paths, never disagree on
\* whether a live invoice is covered.
THEOREM PaidIffCoveredAlways == Spec => []PaidIffCovered
<1>1. IInv => PaidIffCovered
  <2> SUFFICES ASSUME IInv, row.total > 0, row.status # "Cancelled"
               PROVE  /\ row.status = "Paid" <=> row.paid >= row.total
                      /\ row.paidAt <=> row.status = "Paid"
    BY DEF PaidIffCovered
  <2> QED  BY DEF IInv, PaidMeansCovered
<1> QED  BY <1>1, Invariance, PTL

\* A cancelled invoice lets its time go exactly when no payment is left on it, in
\* whichever order it was cancelled and its payments deleted (Invoice.save).
THEOREM TimeFollowsMoneyAlways == Spec => []TimeFollowsMoney
<1>1. IInv => TimeFollowsMoney
  BY DEF IInv
<1> QED  BY <1>1, Invariance, PTL

\* No sweep, email, view or payment takes an invoice out of Cancelled.
THEOREM CancelledIsFinalAlways == Spec => CancelledIsFinal
<1>1. IInv /\ [Next]_vars => [row.status = "Cancelled" => row'.status = "Cancelled"]_vars
  BY EveryStep DEF Moved, Posted, Repriced
<1> QED  BY <1>1, Invariance, PTL DEF Spec, CancelledIsFinal

\* Once sent, an invoice is never a draft again and what it bills never moves.
THEOREM SentFiguresFixedAlways == Spec => SentFiguresFixed
<1>1. IInv /\ [Next]_vars
        => [row.sent => row'.status # "Draft" /\ row'.total = row.total]_vars
  <2> SUFFICES ASSUME IInv, [Next]_vars, row.sent
               PROVE  row'.status # "Draft" /\ row'.total = row.total
    OBVIOUS
  <2>1. SentIsNoDraft
    BY DEF IInv
  <2> QED  BY <2>1, EveryStep DEF SentIsNoDraft, Moved, Posted, Repriced
<1> QED  BY <1>1, Invariance, PTL DEF Spec, SentFiguresFixed

\* The row with its seven statuses, its payments and the interleavings of staff,
\* sweep, email and portal, implement the four phases of InvoicePromise: every
\* step is one of the promise's, or nothing the promise speaks of.
THEOREM PromiseKeptAlways == Spec => PromiseKept
<1>1. IInv /\ IInv' /\ [Next]_vars => [Promise!Next]_Promise!vars
  <2> SUFFICES ASSUME IInv, IInv', [Next]_vars PROVE [Promise!Next]_Promise!vars
    OBVIOUS
  <2>1. row \in Rows /\ row' \in Rows
    BY DEF IInv, TypeOK
  <2> QED
    BY <2>1, EveryStep, MovedIsPromised, PostedIsPromised, RepricedIsPromised
<1> QED
  BY <1>1, PromiseStarts, Invariance, PTL DEF Spec, PromiseKept, Promise!Spec
=============================================================================
