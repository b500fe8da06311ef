--------------------------- MODULE InvoicePromise ---------------------------
(***************************************************************************)
(* What an invoice promises the customer and the books, whatever a staff   *)
(* request, a sweep or an email does to its row: it is priced as a draft,  *)
(* issued once, collected up to its total, and either settled or voided.   *)
(***************************************************************************)
EXTENDS Naturals

VARIABLES phase,    \* "draft", "open", "settled" or "void"
          issued,   \* it has been sent; it is no draft again
          total, posted   \* what was billed, and what the books say was paid

vars == <<phase, issued, total, posted>>

Init ==
    /\ phase \in {"draft", "open"} /\ ~issued
    /\ total \in Nat /\ posted = 0

\* Only a draft is priced.
Price == phase = "draft" /\ total' \in Nat /\ UNCHANGED <<phase, issued, posted>>

\* It is sent, or an email sent earlier is recorded.
Issue ==
    /\ issued' = TRUE
    /\ phase' = IF phase = "draft" THEN "open" ELSE phase
    /\ UNCHANGED <<total, posted>>

\* The books are brought to what was really paid, never more than was billed.
Post ==
    /\ phase # "void"
    /\ posted' \in 0..total
    /\ phase' \in CASE posted' = total -> {"settled"}
                    [] posted' # total /\ posted' > 0 -> {"open"}
                    [] OTHER -> {"open"} \cup IF issued THEN {} ELSE {"draft"}
    /\ UNCHANGED <<issued, total>>

Void ==
    /\ phase \in {"draft", "open"}
    /\ phase' = "void"
    /\ UNCHANGED <<issued, total, posted>>

\* A void invoice only ever gives money back.
Return ==
    /\ phase = "void"
    /\ posted' \in 0..posted
    /\ UNCHANGED <<phase, issued, total>>

Next == Price \/ Issue \/ Post \/ Void \/ Return

Spec == Init /\ [][Next]_vars
=============================================================================
