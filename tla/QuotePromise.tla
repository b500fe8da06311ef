---------------------------- MODULE QuotePromise ----------------------------
(***************************************************************************)
(* What a quote (estimate) promises the client: it is priced as a draft,   *)
(* every price that reaches the client is the one it is agreed at, the     *)
(* client answers once and in time, and once agreed it stays agreed, all   *)
(* unless the request that makes it undoes it.                             *)
(***************************************************************************)

CONSTANT Figures

VARIABLES phase,    \* "draft", "out", "agreed", "closed", "gone" or "undone"
          figures,  \* what it asks
          told,     \* the figures the client was mailed
          answer,   \* "none", "yes" or "no": the client's own
          lapsed,   \* its expiry date has passed
          posting   \* the request that makes it has yet to end

vars == <<phase, figures, told, answer, lapsed, posting>>

Init ==
    /\ phase = "draft" /\ figures \in Figures
    /\ told = {} /\ answer = "none" /\ lapsed \in BOOLEAN /\ posting = TRUE

\* The request that makes it ends once: it sets a draft's price and dates; a quote that
\* is no draft any more it leaves as it is, or undoes.
Post ==
    /\ posting /\ posting' = FALSE
    /\ \/ UNCHANGED <<phase, figures, told, answer, lapsed>>
       \/ /\ phase = "draft" /\ figures' \in Figures /\ lapsed' \in BOOLEAN
          /\ UNCHANGED <<phase, told, answer>>
       \/ phase # "draft" /\ phase' = "undone"

\* Of a quote undone nothing is promised.
Adrift == phase = "undone" /\ UNCHANGED <<phase, posting>>

\* Only a draft is priced.
Price ==
    /\ phase = "draft" /\ figures' \in Figures
    /\ UNCHANGED <<phase, told, answer, lapsed, posting>>

Issue ==
    /\ phase = "draft" /\ phase' = "out"
    /\ UNCHANGED <<figures, told, answer, lapsed, posting>>

\* Whatever is mailed, and whenever, is what stands.
Tell ==
    /\ phase # "draft" /\ told' = told \cup {figures}
    /\ UNCHANGED <<phase, figures, answer, lapsed, posting>>

Answer(a) ==
    /\ phase = "out" /\ answer = "none"
    /\ a = "yes" => ~lapsed
    /\ answer' = a
    /\ phase' = IF a = "yes" THEN "agreed" ELSE "closed"
    /\ UNCHANGED <<figures, told, lapsed, posting>>

\* The seller invoices it, whatever the client said or did not say.
Raise ==
    /\ phase \in {"draft", "out", "closed"}
    /\ phase' = "agreed"
    /\ UNCHANGED <<figures, told, answer, lapsed, posting>>

\* Only a quote that did lapse is closed for it.
Lapse ==
    /\ phase \in {"draft", "out"} /\ lapsed
    /\ phase' = "closed"
    /\ UNCHANGED <<figures, told, answer, lapsed, posting>>

Calendar == lapsed' \in BOOLEAN /\ UNCHANGED <<phase, figures, told, answer, posting>>

Withdraw == phase' = "gone" /\ UNCHANGED <<figures, told, answer, lapsed, posting>>

Next ==
    \/ Post \/ Adrift \/ Price \/ Issue \/ Tell \/ Raise \/ Lapse \/ Calendar \/ Withdraw
    \/ \E a \in {"yes", "no"} : Answer(a)

Spec == Init /\ [][Next]_vars
=============================================================================
