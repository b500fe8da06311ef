-------------------------- MODULE AutomationChain --------------------------
(***************************************************************************)
(* What one saved change sets off: a request's saves are captured while it *)
(* runs and handed to the rule engine after it, which runs each matching   *)
(* rule in list order; a rule's own write is a change of the same chain,   *)
(* one level deeper. Several requests do so at once on the same records.   *)
(* A rule matches a record created with the value `when`, or one that      *)
(* moved to it, and does one thing.                                        *)
(***************************************************************************)
EXTENDS Integers, Sequences, FiniteSets, SequencesExt

CONSTANTS Workers,
          Records,
          Values,
          Parent,        \* the record a rule's "parent" target reaches, or itself
          RuleLists,     \* the rule lists an org may have
          MAX_DEPTH,
          MaxSaves,      \* bound: saves made by requests
          Absent

Events  == {"created", "updated"}
Actions == [do : {"set"}, target : {"record", "parent"}, to : Values]
           \cup [do : {"create"}, to : Values]
           \cup [do : {"fail"}]
Definitions == [event : Events, when : Values, act : Actions]

ASSUME ChainAssumption ==
    /\ Absent \notin Values /\ Absent \notin Records
    /\ Parent \in [Records -> Records]
    /\ RuleLists \subseteq Seq(Definitions)
    /\ MAX_DEPTH \in Nat \ {0} /\ MaxSaves \in Nat

VARIABLES
    rules,     \* the org's switched-on rules, in list order
    value,     \* per record, what the watched field holds, or Absent
    saves,
    stage,     \* per process: idle, serving a request, running a chain
    saving,    \* the save it is in: the row as read before it
    buffer,    \* changes captured and not yet processed
    seen,      \* chain.seen: (rule, record) pairs a rule has acted on
    runs,      \* the chain's AutomationRun rows, in order
    stack,     \* the _handle calls under way, innermost first
    later,     \* a change produced, yet to be handled
    current    \* the rule running, or NoRule

chainVars == <<rules, value, saves, stage, saving, buffer, seen, runs, stack, later, current>>
engineVars == <<seen, runs, stack, later, current>>

NoRule == 0
NoRun  == 0
NotSaving == [rec |-> Absent]

\* A captured change.
Changes == [rec : Records, event : Events, old : Values \cup {Absent}, new : Values]
Frames  == [change : Changes, depth : Nat, cause : Nat, next : Nat \ {0}]
\* No chain is deeper than MAX_DEPTH.
Runs    == [rule : Nat \ {NoRule}, rec : Records, depth : 1..MAX_DEPTH, cause : Nat,
            status : {"done", "failed"}, wrote : Records \cup {Absent}]

ChainTypeOK ==
    /\ rules \in RuleLists
    /\ value \in [Records -> Values \cup {Absent}]
    /\ saves \in 0..MaxSaves
    /\ stage \in [Workers -> {"idle", "request", "chain"}]
    /\ saving \in [Workers -> {NotSaving} \cup [rec : Records, old : Values, new : Values]]
    /\ buffer \in [Workers -> Seq(Changes)]
    /\ seen \in [Workers -> SUBSET ((DOMAIN rules) \X Records)]
    /\ runs \in [Workers -> Seq(Runs)]
    /\ stack \in [Workers -> Seq(Frames)]
    /\ later \in [Workers -> Seq(Frames)]
    /\ current \in [Workers -> {NoRule} \cup DOMAIN rules]

ChainInit ==
    /\ rules \in RuleLists
    /\ value \in [Records -> Values \cup {Absent}]
    /\ saves = 0
    /\ stage = [p \in Workers |-> "idle"]
    /\ saving = [p \in Workers |-> NotSaving]
    /\ buffer = [p \in Workers |-> <<>>]
    /\ seen = [p \in Workers |-> {}]
    /\ runs = [p \in Workers |-> <<>>]
    /\ stack = [p \in Workers |-> <<>>]
    /\ later = [p \in Workers |-> <<>>]
    /\ current = [p \in Workers |-> NoRule]

Unused == {r \in Records : value[r] = Absent}

-----------------------------------------------------------------------------
(* The request and what its saves leave in the buffer.                     *)

\* Mutant of Merge: a field back where it started stays.
MergeKeepingAll(buf, c) ==
    LET same == {i \in DOMAIN buf : buf[i].rec = c.rec} IN
    IF same = {} THEN Append(buf, c)
    ELSE LET i == CHOOSE j \in same : TRUE
         IN  IF buf[i].event = "created" THEN buf
             ELSE [buf EXCEPT ![i].new = c.new]

\* _merge: one entry per record; a create absorbs the updates after it; two
\* updates keep the first old value and the last new one, and a field back
\* where it started drops out.
Merge(buf, c) ==
    LET same == {i \in DOMAIN buf : buf[i].rec = c.rec} IN
    IF same = {} THEN Append(buf, c)
    ELSE LET i == CHOOSE j \in same : TRUE
             e == buf[i]
         IN  IF e.event = "created" THEN buf
             ELSE IF e.old = c.new THEN RemoveAt(buf, i)
             ELSE [buf EXCEPT ![i].new = c.new]

BeginRequest(p) ==
    /\ stage[p] = "idle"
    /\ stage' = [stage EXCEPT ![p] = "request"]
    /\ UNCHANGED <<rules, value, saves, saving, buffer, engineVars>>

\* pre_save reads the row as it is stored.
BeforeSave(p, r, v) ==
    /\ stage[p] = "request" /\ saving[p] = NotSaving
    /\ saves < MaxSaves
    /\ value[r] # Absent
    /\ saves' = saves + 1
    /\ saving' = [saving EXCEPT ![p] = [rec |-> r, old |-> value[r], new |-> v]]
    /\ UNCHANGED <<rules, value, stage, buffer, engineVars>>

\* The write, which the request may yet roll back, and post_save.
Save(p) ==
    LET s == saving[p] IN
    /\ s # NotSaving
    /\ value' \in {value, [value EXCEPT ![s.rec] = s.new]}
    /\ buffer' = IF s.old = s.new THEN buffer
                 ELSE [buffer EXCEPT ![p] =
                         Merge(@, [rec |-> s.rec, event |-> "updated",
                                   old |-> s.old, new |-> s.new])]
    /\ saving' = [saving EXCEPT ![p] = NotSaving]
    /\ UNCHANGED <<rules, saves, stage, engineVars>>

\* A record created in the request; the pool of Records bounds these.
Create(p, v) ==
    /\ stage[p] = "request" /\ saving[p] = NotSaving
    /\ saves < MaxSaves /\ Unused # {}
    /\ saves' = saves + 1
    /\ LET r == CHOOSE x \in Unused : TRUE IN
          /\ value' = [value EXCEPT ![r] = v]
          /\ buffer' = [buffer EXCEPT ![p] =
                Merge(@, [rec |-> r, event |-> "created", old |-> Absent, new |-> v])]
    /\ UNCHANGED <<rules, stage, saving, engineVars>>

\* The middleware hands the buffer to the engine once the view has returned.
EndRequest(p) ==
    /\ stage[p] = "request" /\ saving[p] = NotSaving
    /\ stage' = [stage EXCEPT ![p] = "chain"]
    /\ UNCHANGED <<rules, value, saves, saving, buffer, engineVars>>

-----------------------------------------------------------------------------
(* The engine.                                                             *)

Resting(p) == stage[p] = "chain" /\ stack[p] = <<>> /\ later[p] = <<>>

\* process and _start: each change begins a chain of its own.
NextChange(p) ==
    /\ Resting(p) /\ buffer[p] # <<>>
    /\ later' = [later EXCEPT ![p] =
          <<[change |-> Head(buffer[p]), depth |-> 1, cause |-> NoRun, next |-> 1]>>]
    /\ buffer' = [buffer EXCEPT ![p] = Tail(@)]
    /\ seen' = [seen EXCEPT ![p] = {}]
    /\ runs' = [runs EXCEPT ![p] = <<>>]
    /\ UNCHANGED <<rules, value, saves, stage, saving, stack, current>>

EndOfBuffer(p) ==
    /\ Resting(p) /\ buffer[p] = <<>>
    /\ stage' = [stage EXCEPT ![p] = "idle"]
    /\ seen' = [seen EXCEPT ![p] = {}]
    /\ runs' = [runs EXCEPT ![p] = <<>>]
    /\ UNCHANGED <<rules, value, saves, saving, buffer, stack, later, current>>

\* _confirmed: the record, read again, shows the captured value.
Confirmed(c) == c.event = "updated" => value[c.rec] = c.new

\* _handle: load the record; a change it no longer shows sets nothing off.
Handle(p) ==
    /\ later[p] # <<>>
    /\ later' = [later EXCEPT ![p] = <<>>]
    /\ stack' = IF Confirmed(later[p][1].change)
                THEN [stack EXCEPT ![p] = later[p] \o @] ELSE stack
    /\ UNCHANGED <<rules, value, saves, stage, saving, buffer, seen, runs, current>>

Handling(p) == stack[p] # <<>> /\ later[p] = <<>> /\ current[p] = NoRule

Top(p) == stack[p][1]

\* trigger_matches and conditions_match.
Matches(d, c) ==
    /\ d.event = c.event
    /\ IF d.event = "created" THEN value[c.rec] = d.when ELSE c.new = d.when

\* Mutant of CauseRule: the run that made the change is not kept from it.
NoCauseRule(p) == IF p \in Workers THEN NoRule ELSE NoRun

\* The rule whose run made the change being handled.
CauseRule(p) == IF Top(p).cause = NoRun THEN NoRule ELSE runs[p][Top(p).cause].rule

\* Mutant of HasActed: what a rule acted on is forgotten one level deeper.
HasActedHere(p, i) == \E k \in DOMAIN runs[p] :
    runs[p][k].rule = i /\ runs[p][k].rec = Top(p).change.rec
    /\ runs[p][k].depth = Top(p).depth

HasActed(p, i) == <<i, Top(p).change.rec>> \in seen[p]

\* Whether _consider goes on to run the rule.
Applies(p, i) ==
    LET c == Top(p).change IN
    /\ i # CauseRule(p)
    /\ ~HasActed(p, i)
    /\ Confirmed(c)
    /\ Matches(rules[i], c)

Following(f) == f.next + 1

MoveOn(s) == [s EXCEPT ![1].next = Following(s[1])]

ConsiderRule(p) ==
    /\ Handling(p) /\ Top(p).next <= Len(rules)
    /\ LET i == Top(p).next IN
       IF Applies(p, i)
       THEN /\ current' = [current EXCEPT ![p] = i]
            /\ seen' = [seen EXCEPT ![p] = @ \cup {<<i, Top(p).change.rec>>}]
            /\ UNCHANGED stack
       ELSE stack' = [stack EXCEPT ![p] = MoveOn(@)] /\ UNCHANGED <<current, seen>>
    /\ UNCHANGED <<rules, value, saves, stage, saving, buffer, runs, later>>

\* A rule is passed over: its owner may not act, it is paused, its object's
\* module is off, the org's hourly limit is reached, or considering it broke.
PassOver(p) ==
    /\ Handling(p) /\ Top(p).next <= Len(rules)
    /\ stack' = [stack EXCEPT ![p] = MoveOn(@)]
    /\ UNCHANGED <<rules, value, saves, stage, saving, buffer, seen, runs, later, current>>

\* Every rule has been considered: back to the rule whose write this was.
Return(p) ==
    /\ Handling(p) /\ Top(p).next > Len(rules)
    /\ stack' = [stack EXCEPT ![p] = Tail(@)]
    /\ UNCHANGED <<rules, value, saves, stage, saving, buffer, seen, runs, later, current>>

RunRow(p, status, wrote) ==
    [rule |-> current[p], rec |-> Top(p).change.rec, depth |-> Top(p).depth,
     cause |-> Top(p).cause, status |-> status, wrote |-> wrote]

MayGoDeeper(d) == d < MAX_DEPTH

\* What the rule does to record r: the records written and what they then hold,
\* at most one here. A target that is not there is a skipped step, and the run
\* is done all the same.
Written(act, r) ==
    CASE act.do = "create" -> IF Unused = {} THEN {} ELSE {CHOOSE x \in Unused : TRUE}
      [] act.do = "set" /\ act.target = "record" -> {r}
      [] act.do = "set" /\ act.target = "parent" ->
            IF Parent[r] = r \/ value[Parent[r]] = Absent THEN {} ELSE {Parent[r]}
      [] act.do = "fail" -> {}

\* The steps are applied and the row written in one transaction; the changes
\* captured meanwhile belong to this run and are handled next.
RunDone(p) ==
    LET act == rules[current[p]].act
        out == Written(act, Top(p).change.rec)
        moved == {r \in out : value[r] # act.to}
        change(r) == [rec |-> r, old |-> value[r], new |-> act.to,
                      event |-> IF value[r] = Absent THEN "created" ELSE "updated"]
        made == IF out = {} THEN Absent ELSE CHOOSE r \in out : TRUE
    IN  /\ current[p] # NoRule /\ act.do # "fail"
        /\ value' = [r \in Records |-> IF r \in out THEN act.to ELSE value[r]]
        /\ runs' = [runs EXCEPT ![p] = Append(@, RunRow(p, "done", made))]
        /\ later' = IF moved # {} /\ MayGoDeeper(Top(p).depth)
                    THEN [later EXCEPT ![p] =
                            <<[change |-> change(made), depth |-> Top(p).depth + 1,
                               cause |-> Len(runs[p]) + 1, next |-> 1]>>]
                    ELSE later
        /\ stack' = [stack EXCEPT ![p] = MoveOn(@)]
        /\ current' = [current EXCEPT ![p] = NoRule]
        /\ UNCHANGED <<rules, saves, stage, saving, buffer, seen>>

\* The rule no longer validates, or a step failed and the others are undone:
\* the row says so, and what the steps captured is dropped.
RunFailed(p) ==
    /\ current[p] # NoRule
    /\ runs' = [runs EXCEPT ![p] = Append(@, RunRow(p, "failed", Absent))]
    /\ stack' = [stack EXCEPT ![p] = MoveOn(@)]
    /\ current' = [current EXCEPT ![p] = NoRule]
    /\ UNCHANGED <<rules, value, saves, stage, saving, buffer, seen, later>>

-----------------------------------------------------------------------------
Work(p) == \/ Save(p) \/ EndRequest(p) \/ NextChange(p) \/ EndOfBuffer(p) \/ Handle(p)
           \/ ConsiderRule(p) \/ PassOver(p) \/ Return(p) \/ RunDone(p) \/ RunFailed(p)

ChainNext == \E p \in Workers :
           \/ BeginRequest(p) \/ Work(p)
           \/ \E v \in Values : Create(p, v) \/ \E r \in Records : BeforeSave(p, r, v)

ChainSpec == ChainInit /\ [][ChainNext]_chainVars

-----------------------------------------------------------------------------
(* Properties.                                                             *)

\* A rule acts on a record at most once per chain, at whatever depth and
\* whether it was done or failed, so rules that undo each other stop.
OncePerChain ==
    \A p \in Workers : \A i, j \in DOMAIN runs[p] :
        (runs[p][i].rule = runs[p][j].rule /\ runs[p][i].rec = runs[p][j].rec) => i = j

\* Every run says truly what set it off: the request's change at depth 1, or a
\* done run of another rule, one level up, that wrote this very record. So a
\* failed rule's writes set nothing off, and no rule answers its own run.
CauseIsTrue ==
    \A p \in Workers : \A i \in DOMAIN runs[p] :
        LET run == runs[p][i]
            by  == runs[p][run.cause]
        IN  IF run.cause = NoRun THEN run.depth = 1
            ELSE /\ run.cause < i
                 /\ by.status = "done" /\ by.wrote = run.rec
                 /\ by.rule # run.rule /\ run.depth = by.depth + 1

\* What a request hands over is one net change per record, whatever it and
\* others saved in between: a record saved back to where the request found it
\* sets nothing off.
OneNetChange ==
    \A p \in Workers : \A i, j \in DOMAIN buffer[p] :
        /\ buffer[p][i].rec = buffer[p][j].rec => i = j
        /\ buffer[p][i].event = "updated" => buffer[p][i].old # buffer[p][i].new
=============================================================================
