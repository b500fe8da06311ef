------------------------- MODULE MCAutomationChain -------------------------
(* Instances of AutomationChain for TLC. *)
EXTENDS AutomationChain, TLC

CONSTANTS open, won, deal, account, task

MCRecords == {deal, account, task}
MCValues  == {open, won}
MCParent  == [r \in MCRecords |-> IF r = deal THEN account ELSE r]

set(event, when, target, to) ==
    [event |-> event, when |-> when, act |-> [do |-> "set", target |-> target, to |-> to]]
create(event, when, to) ==
    [event |-> event, when |-> when, act |-> [do |-> "create", to |-> to]]
fail(when) == [event |-> "updated", when |-> when, act |-> [do |-> "fail"]]

\* Lists of three rules that answer each other: two that move a record there and
\* back before one that reaches its parent, and one that fails before two that
\* answer one move; then two that answer a creation and its correction.
MCRuleLists ==
    {<<set("updated", won, "record", open), set("updated", open, "record", won),
       set("updated", won, "parent", won)>>,
     <<fail(won), set("updated", won, "parent", won), create("updated", won, won)>>,
     <<set("created", won, "record", open), create("updated", open, won)>>}

\* Workers are interchangeable.
MCSymmetry == Permutations(Workers)
=============================================================================
