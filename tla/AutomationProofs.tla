-------------------------- MODULE AutomationProofs --------------------------
(***************************************************************************)
(* The automation engine. For any number of workers, records, rules and    *)
(* saves, and any depth: what one saved change sets off stops and is told  *)
(* truly (AutomationChain). For any finite set of processes, any rules and *)
(* any limit: how far an org's hour may overrun its limit, and what the    *)
(* skipped row counts (AutomationLimit).                                   *)
(***************************************************************************)
EXTENDS AutomationChain, AutomationLimit, FiniteSetTheorems, SequenceTheorems, TLAPS

-----------------------------------------------------------------------------
(* What a request captures.                                                *)

\* What OneNetChange asks of one buffer.
NetChanges(buf) ==
    \A i, j \in DOMAIN buf :
        /\ buf[i].rec = buf[j].rec => i = j
        /\ buf[i].event = "updated" => buf[i].old # buf[i].new

\* A change dropped out of a buffer, the rest in their order.
LEMMA RemovedChange ==
  ASSUME NEW buf \in Seq(Changes), NEW i \in DOMAIN buf, NetChanges(buf)
  PROVE  RemoveAt(buf, i) \in Seq(Changes) /\ NetChanges(RemoveAt(buf, i))
<1> DEFINE n == Len(buf)
           left == SubSeq(buf, 1, i - 1)
           right == SubSeq(buf, i + 1, n)
           rest == left \o right
           At(j) == IF j < i THEN j ELSE j + 1
<1>1. n \in Nat /\ i \in 1..n /\ DOMAIN buf = 1..n /\ \A j \in 1..n : buf[j] \in Changes
  BY LenProperties, ElementOfSeq
<1>2. /\ left \in Seq(Changes) /\ Len(left) = i - 1
      /\ \A j \in 1..(i - 1) : left[j] = buf[j]
  <2>1. \A j \in 1..(i - 1) : buf[j] \in Changes
    BY <1>1
  <2>2. /\ left \in Seq(Changes)
        /\ Len(left) = IF 1 <= i - 1 THEN (i - 1) - 1 + 1 ELSE 0
        /\ \A j \in 1..((i - 1) - 1 + 1) : left[j] = buf[1 + j - 1]
    BY <1>1, <2>1, SubSeqProperties
  <2> QED  BY <1>1, <2>2
<1>3. /\ right \in Seq(Changes) /\ Len(right) = n - i
      /\ \A j \in 1..(n - i) : right[j] = buf[i + j]
  <2>1. \A j \in (i + 1)..n : buf[j] \in Changes
    BY <1>1
  <2>2. /\ right \in Seq(Changes)
        /\ Len(right) = IF i + 1 <= n THEN n - (i + 1) + 1 ELSE 0
        /\ \A j \in 1..(n - (i + 1) + 1) : right[j] = buf[(i + 1) + j - 1]
    BY <1>1, <2>1, SubSeqProperties
  <2> HIDE DEF right, n
  <2>3. n - (i + 1) + 1 = n - i /\ (i + 1 <= n \/ n - i = 0)
    BY <1>1
  <2>4. \A j \in 1..(n - i) : (i + 1) + j - 1 = i + j
    BY <1>1
  <2> QED  BY <1>1, <2>2, <2>3, <2>4
<1>4. RemoveAt(buf, i) = rest
  BY DEF RemoveAt
<1> HIDE DEF n, left, right
<1>5. /\ rest \in Seq(Changes) /\ Len(rest) = n - 1
      /\ \A j \in 1..(n - 1) :
           rest[j] = IF j <= i - 1 THEN left[j] ELSE right[j - (i - 1)]
  <2>1. /\ rest \in Seq(Changes) /\ Len(rest) = Len(left) + Len(right)
        /\ \A j \in 1..(Len(left) + Len(right)) :
             rest[j] = IF j <= Len(left) THEN left[j] ELSE right[j - Len(left)]
    BY <1>2, <1>3, ConcatProperties
  <2>2. Len(left) + Len(right) = n - 1
    BY <1>1, <1>2, <1>3
  <2> HIDE DEF rest
  <2> QED  BY <1>2, <2>1, <2>2
<1> HIDE DEF rest
<1>6. \A j \in 1..(n - 1) : At(j) \in 1..n /\ rest[j] = buf[At(j)]
  <2> SUFFICES ASSUME NEW j \in 1..(n - 1)
               PROVE  At(j) \in 1..n /\ rest[j] = buf[At(j)]
    OBVIOUS
  <2>1. CASE j < i
    BY <1>1, <1>2, <1>5, <2>1
  <2>2. CASE ~(j < i)
    <3>1. j - (i - 1) \in 1..(n - i) /\ i + (j - (i - 1)) = j + 1
      BY <1>1, <2>2
    <3>2. right[j - (i - 1)] = buf[j + 1]
      BY <1>3, <3>1
    <3> QED  BY <1>1, <1>5, <2>2, <3>2
  <2> QED  BY <2>1, <2>2
<1>7. \A j, k \in 1..(n - 1) : At(j) = At(k) => j = k
  BY <1>1
<1>8. DOMAIN rest = 1..(n - 1)
  BY <1>5, LenProperties
<1> HIDE DEF At
<1>9. NetChanges(rest)
  <2> SUFFICES ASSUME NEW j \in 1..(n - 1), NEW k \in 1..(n - 1)
               PROVE  /\ rest[j].rec = rest[k].rec => j = k
                      /\ rest[j].event = "updated" => rest[j].old # rest[j].new
    BY <1>8 DEF NetChanges
  <2>1. /\ At(j) \in DOMAIN buf /\ rest[j] = buf[At(j)]
        /\ At(k) \in DOMAIN buf /\ rest[k] = buf[At(k)]
    BY <1>1, <1>6
  <2> QED  BY <1>7, <2>1 DEF NetChanges
<1> QED  BY <1>4, <1>5, <1>9

\* A change that is one is merged in: one entry per record, each of them a change.
LEMMA MergedChange ==
  ASSUME NEW buf \in Seq(Changes), NetChanges(buf),
         NEW c \in Changes, c.event = "updated" => c.old # c.new
  PROVE  Merge(buf, c) \in Seq(Changes) /\ NetChanges(Merge(buf, c))
<1> DEFINE same == {i \in DOMAIN buf : buf[i].rec = c.rec}
           i == CHOOSE j \in same : TRUE
<1>1. Len(buf) \in Nat /\ DOMAIN buf = 1..Len(buf)
  BY LenProperties
<1>2. CASE same = {}
  <2>1. Merge(buf, c) = Append(buf, c)
    BY <1>2 DEF Merge
  <2>2. /\ Append(buf, c) \in Seq(Changes)
        /\ Len(Append(buf, c)) = Len(buf) + 1
        /\ \A j \in 1..Len(buf) : Append(buf, c)[j] = buf[j]
        /\ Append(buf, c)[Len(buf) + 1] = c
    BY AppendProperties
  <2>3. DOMAIN Append(buf, c) = 1..(Len(buf) + 1)
    BY <2>2, LenProperties
  <2>4. NetChanges(Append(buf, c))
    BY <1>1, <1>2, <2>2, <2>3 DEF NetChanges
  <2> QED  BY <2>1, <2>2, <2>4
<1>3. CASE same # {}
  <2>1. i \in DOMAIN buf /\ buf[i].rec = c.rec
    BY <1>3
  <2>2. Merge(buf, c) = IF buf[i].event = "created" THEN buf
                        ELSE IF buf[i].old = c.new THEN RemoveAt(buf, i)
                        ELSE [buf EXCEPT ![i].new = c.new]
    BY <1>3 DEF Merge
  <2> HIDE DEF i, same
  <2>3. CASE buf[i].event = "created"
    BY <2>2, <2>3
  <2>4. CASE buf[i].event # "created" /\ buf[i].old = c.new
    BY <2>1, <2>2, <2>4, RemovedChange
  <2>5. CASE buf[i].event # "created" /\ buf[i].old # c.new
    <3> DEFINE e == [buf[i] EXCEPT !.new = c.new]
    <3>1. buf[i] \in Changes
      BY <1>1, <2>1, ElementOfSeq
    <3>2. /\ e \in Changes /\ e.rec = buf[i].rec /\ e.event = buf[i].event
          /\ e.old = buf[i].old /\ e.new = c.new
      BY <3>1 DEF Changes
    <3>3. Merge(buf, c) = [buf EXCEPT ![i] = e]
      BY <2>2, <2>5
    <3> HIDE DEF e
    <3>4. /\ [buf EXCEPT ![i] = e] \in Seq(Changes)
          /\ Len([buf EXCEPT ![i] = e]) = Len(buf)
          /\ \A j \in 1..Len(buf) :
               [buf EXCEPT ![i] = e][j] = IF j = i THEN e ELSE buf[j]
      BY <1>1, <2>1, <3>2, ExceptSeq
    <3>5. DOMAIN [buf EXCEPT ![i] = e] = DOMAIN buf
      OBVIOUS
    <3>6. NetChanges([buf EXCEPT ![i] = e])
      BY <1>1, <2>1, <2>5, <3>2, <3>4, <3>5 DEF NetChanges
    <3> QED  BY <3>3, <3>4, <3>6
  <2> QED  BY <2>3, <2>4, <2>5
<1> QED  BY <1>2, <1>3

LEMMA TailOfChanges ==
  ASSUME NEW buf \in Seq(Changes), buf # <<>>, NetChanges(buf)
  PROVE  /\ Head(buf) \in Changes
         /\ Tail(buf) \in Seq(Changes) /\ NetChanges(Tail(buf))
<1>1. /\ Head(buf) \in Changes /\ Tail(buf) \in Seq(Changes)
      /\ Len(Tail(buf)) = Len(buf) - 1
      /\ \A i \in 1..Len(Tail(buf)) : Tail(buf)[i] = buf[i + 1]
  BY HeadTailProperties
<1>2. /\ DOMAIN Tail(buf) = 1..(Len(buf) - 1) /\ Len(buf) \in Nat
      /\ DOMAIN buf = 1..Len(buf)
  BY <1>1, LenProperties
<1>3. \A i \in 1..(Len(buf) - 1) : i + 1 \in 1..Len(buf) /\ Tail(buf)[i] = buf[i + 1]
  BY <1>1, <1>2
<1>4. \A i, j \in 1..(Len(buf) - 1) : i + 1 = j + 1 => i = j
  BY <1>2
<1>5. NetChanges(Tail(buf))
  BY <1>2, <1>3, <1>4 DEF NetChanges
<1> QED  BY <1>1, <1>5
-----------------------------------------------------------------------------
(* The inductive invariant. The engine keeps one chain per worker: what it *)
(* says of one is a predicate of that worker's seen, runs, stack, later    *)
(* and current.                                                            *)

\* What a frame will write on the runs it leads to is true of the runs there are.
FrameTrue(rs, f) ==
    /\ f.depth <= MAX_DEPTH
    /\ IF f.cause = NoRun THEN f.depth = 1
       ELSE /\ f.cause \in DOMAIN rs
            /\ rs[f.cause].status = "done" /\ rs[f.cause].wrote = f.change.rec
            /\ f.depth = rs[f.cause].depth + 1

\* The parts of OncePerChain and CauseIsTrue that are about one chain's runs.
RunOnce(rs) ==
    \A i, j \in DOMAIN rs : rs[i].rule = rs[j].rule /\ rs[i].rec = rs[j].rec => i = j

TrueCauses(rs) ==
    \A i \in DOMAIN rs :
        IF rs[i].cause = NoRun THEN rs[i].depth = 1
        ELSE /\ rs[i].cause < i
             /\ rs[rs[i].cause].status = "done" /\ rs[rs[i].cause].wrote = rs[i].rec
             /\ rs[rs[i].cause].rule # rs[i].rule
             /\ rs[i].depth = rs[rs[i].cause].depth + 1

\* Rule i may run for the change of frame f, whose pair chain.seen already holds.
MayRun(se, rs, f, i) ==
    /\ <<i, f.change.rec>> \in se
    /\ \A k \in DOMAIN rs : rs[k].rule # i \/ rs[k].rec # f.change.rec
    /\ f.cause # NoRun => rs[f.cause].rule # i

ChainOK(se, rs, st, la, cu) ==
    /\ RunOnce(rs) /\ TrueCauses(rs)
    /\ \A k \in DOMAIN rs : <<rs[k].rule, rs[k].rec>> \in se
    /\ \A k \in DOMAIN st : FrameTrue(rs, st[k])
    /\ \A k \in DOMAIN la : FrameTrue(rs, la[k])
    /\ cu # NoRule => st # <<>> /\ la = <<>> /\ MayRun(se, rs, st[1], cu)

ChainsOK == \A p \in Workers : ChainOK(seen[p], runs[p], stack[p], later[p], current[p])

ChainInv == ChainTypeOK /\ OneNetChange /\ ChainsOK

\* The types of one chain's parts.
ChainTyped(se, rs, st, la, cu) ==
    /\ se \in SUBSET ((DOMAIN rules) \X Records) /\ rs \in Seq(Runs)
    /\ st \in Seq(Frames) /\ la \in Seq(Frames) /\ cu \in {NoRule} \cup DOMAIN rules

LEMMA InvSaysWhatIsChecked == ChainInv => OncePerChain /\ CauseIsTrue
<1> SUFFICES ASSUME ChainInv PROVE OncePerChain /\ CauseIsTrue
  OBVIOUS
<1>1. ASSUME NEW p \in Workers PROVE RunOnce(runs[p]) /\ TrueCauses(runs[p])
  BY DEF ChainInv, ChainsOK, ChainOK
<1>2. OncePerChain
  BY <1>1 DEF OncePerChain, RunOnce
<1>3. CauseIsTrue
  BY <1>1 DEF CauseIsTrue, TrueCauses
<1> QED  BY <1>2, <1>3

LEMMA NoChainIsOK == ChainOK({}, <<>>, <<>>, <<>>, NoRule)
  BY DEF ChainOK, RunOnce, TrueCauses

\* Facts of one worker's chain, for the steps.
LEMMA ChainOf ==
  ASSUME ChainInv, NEW p \in Workers
  PROVE  /\ ChainOK(seen[p], runs[p], stack[p], later[p], current[p])
         /\ ChainTyped(seen[p], runs[p], stack[p], later[p], current[p])
  BY DEF ChainInv, ChainsOK, ChainTypeOK, ChainTyped

\* A step of one worker's chain: it is enough to look at that chain.
LEMMA OneChainMoves ==
  ASSUME ChainInv, NEW p \in Workers, NEW se, NEW rs, NEW st, NEW la, NEW cu,
         seen' = [seen EXCEPT ![p] = se], runs' = [runs EXCEPT ![p] = rs],
         stack' = [stack EXCEPT ![p] = st], later' = [later EXCEPT ![p] = la],
         current' = [current EXCEPT ![p] = cu],
         ChainTyped(se, rs, st, la, cu), ChainOK(se, rs, st, la, cu),
         UNCHANGED rules
  PROVE  /\ ChainsOK'
         /\ seen' \in [Workers -> SUBSET ((DOMAIN rules') \X Records)]
         /\ runs' \in [Workers -> Seq(Runs)]
         /\ stack' \in [Workers -> Seq(Frames)]
         /\ later' \in [Workers -> Seq(Frames)]
         /\ current' \in [Workers -> {NoRule} \cup DOMAIN rules']
<1>1. \A q \in Workers :
        /\ q = p => /\ seen'[q] = se /\ runs'[q] = rs /\ stack'[q] = st
                    /\ later'[q] = la /\ current'[q] = cu
        /\ q # p => /\ seen'[q] = seen[q] /\ runs'[q] = runs[q] /\ stack'[q] = stack[q]
                    /\ later'[q] = later[q] /\ current'[q] = current[q]
  BY DEF ChainInv, ChainTypeOK
<1>2. ChainsOK'
  <2> SUFFICES ASSUME NEW q \in Workers
               PROVE  ChainOK(seen'[q], runs'[q], stack'[q], later'[q], current'[q])
    BY DEF ChainsOK
  <2>1. CASE q = p
    BY <1>1, <2>1
  <2>2. CASE q # p
    BY <1>1, <2>2, ChainOf
  <2> QED  BY <2>1, <2>2
<1> QED  BY <1>2 DEF ChainInv, ChainTypeOK, ChainTyped
-----------------------------------------------------------------------------
(* What the steps make of one chain.                                       *)

LEMMA RulesAreASeq ==
  ASSUME ChainInv
  PROVE  rules \in Seq(Definitions) /\ Len(rules) \in Nat /\ DOMAIN rules = 1..Len(rules)
<1>1. rules \in Seq(Definitions)
  BY ChainAssumption DEF ChainInv, ChainTypeOK
<1> QED  BY <1>1, LenProperties

\* A chain starts with the change that sets it off, at depth 1.
LEMMA NewChain ==
  ASSUME NEW c \in Changes
  PROVE  LET f == [change |-> c, depth |-> 1, cause |-> NoRun, next |-> 1]
         IN  /\ ChainTyped({}, <<>>, <<>>, <<f>>, NoRule)
             /\ ChainOK({}, <<>>, <<>>, <<f>>, NoRule)
<1> DEFINE f == [change |-> c, depth |-> 1, cause |-> NoRun, next |-> 1]
<1>1. f \in Frames /\ f.depth = 1 /\ f.cause = NoRun
  BY DEF Frames, NoRun
<1> HIDE DEF f
<1>2. ChainTyped({}, <<>>, <<>>, <<f>>, NoRule)
  BY <1>1 DEF ChainTyped
<1>3. FrameTrue(<<>>, f)
  BY <1>1, ChainAssumption DEF FrameTrue
<1>4. ChainOK({}, <<>>, <<>>, <<f>>, NoRule)
  BY <1>3 DEF ChainOK, RunOnce, TrueCauses
<1> QED  BY <1>2, <1>4 DEF f

\* A change produced is handled before what is left of the one it came from.
LEMMA PushedChain ==
  ASSUME NEW se, NEW rs, NEW st, NEW la, NEW cu, la # <<>>,
         ChainTyped(se, rs, st, la, cu), ChainOK(se, rs, st, la, cu)
  PROVE  /\ ChainTyped(se, rs, la \o st, <<>>, cu) /\ ChainOK(se, rs, la \o st, <<>>, cu)
         /\ ChainTyped(se, rs, st, <<>>, cu) /\ ChainOK(se, rs, st, <<>>, cu)
<1>1. st \in Seq(Frames) /\ la \in Seq(Frames) /\ cu = NoRule
  BY DEF ChainTyped, ChainOK
<1>2. /\ la \o st \in Seq(Frames) /\ Len(la \o st) = Len(la) + Len(st)
      /\ \A i \in 1..(Len(la) + Len(st)) :
           (la \o st)[i] = IF i <= Len(la) THEN la[i] ELSE st[i - Len(la)]
  BY <1>1, ConcatProperties
<1>3. /\ Len(la) \in Nat /\ Len(st) \in Nat /\ DOMAIN la = 1..Len(la)
      /\ DOMAIN st = 1..Len(st) /\ DOMAIN (la \o st) = 1..(Len(la) + Len(st))
  BY <1>1, <1>2, LenProperties
<1> DEFINE both == la \o st
<1>4. \A k \in DOMAIN both : FrameTrue(rs, both[k])
  <2> SUFFICES ASSUME NEW k \in 1..(Len(la) + Len(st)) PROVE FrameTrue(rs, both[k])
    BY <1>3
  <2>1. CASE k <= Len(la)
    <3>1. k \in DOMAIN la /\ both[k] = la[k]
      BY <1>2, <1>3, <2>1
    <3> HIDE DEF both
    <3> QED  BY <3>1 DEF ChainOK
  <2>2. CASE ~(k <= Len(la))
    <3>1. k - Len(la) \in DOMAIN st /\ both[k] = st[k - Len(la)]
      BY <1>2, <1>3, <2>2
    <3> HIDE DEF both
    <3> QED  BY <3>1 DEF ChainOK
  <2> QED  BY <2>1, <2>2
<1>5. both \in Seq(Frames)
  BY <1>2
<1> HIDE DEF both
<1>6. ChainTyped(se, rs, both, <<>>, cu) /\ ChainOK(se, rs, both, <<>>, cu)
  BY <1>1, <1>4, <1>5 DEF ChainTyped, ChainOK
<1>7. ChainTyped(se, rs, st, <<>>, cu) /\ ChainOK(se, rs, st, <<>>, cu)
  BY <1>1 DEF ChainTyped, ChainOK
<1> QED  BY <1>6, <1>7 DEF both

\* What MoveOn makes of a stack, for the frames and for their types.
LEMMA MovedStack ==
  ASSUME NEW st \in Seq(Frames), st # <<>>
  PROVE  /\ MoveOn(st) \in Seq(Frames) /\ DOMAIN MoveOn(st) = DOMAIN st
         /\ st[1] \in Frames
         /\ \A k \in DOMAIN st : /\ MoveOn(st)[k].change = st[k].change
                                 /\ MoveOn(st)[k].depth = st[k].depth
                                 /\ MoveOn(st)[k].cause = st[k].cause
<1>1. Len(st) \in Nat \ {0} /\ DOMAIN st = 1..Len(st)
  BY EmptySeq, LenProperties
<1>2. 1 \in DOMAIN st /\ st[1] \in Frames
  BY <1>1, ElementOfSeq
<1> DEFINE f == [st[1] EXCEPT !.next = Following(st[1])]
<1>3. /\ f \in Frames /\ f.change = st[1].change /\ f.depth = st[1].depth
      /\ f.cause = st[1].cause
  <2>1. Following(st[1]) \in Nat \ {0}
    BY <1>2 DEF Frames, Following
  <2> QED  BY <1>2, <2>1 DEF Frames
<1>4. MoveOn(st) = [st EXCEPT ![1] = f]
  BY DEF MoveOn
<1> HIDE DEF f
<1>5. /\ [st EXCEPT ![1] = f] \in Seq(Frames)
      /\ \A j \in 1..Len(st) : [st EXCEPT ![1] = f][j] = IF j = 1 THEN f ELSE st[j]
  BY <1>1, <1>3, ExceptSeq
<1>6. DOMAIN [st EXCEPT ![1] = f] = DOMAIN st
  OBVIOUS
<1> QED  BY <1>1, <1>2, <1>3, <1>4, <1>5, <1>6

LEMMA MovedChain ==
  ASSUME NEW se, NEW rs, NEW st, NEW la, st # <<>>,
         ChainTyped(se, rs, st, la, NoRule), ChainOK(se, rs, st, la, NoRule)
  PROVE  ChainTyped(se, rs, MoveOn(st), la, NoRule) /\ ChainOK(se, rs, MoveOn(st), la, NoRule)
<1>1. st \in Seq(Frames)
  BY DEF ChainTyped
<1>2. ChainTyped(se, rs, MoveOn(st), la, NoRule)
  BY <1>1, MovedStack DEF ChainTyped
<1>3. \A k \in DOMAIN MoveOn(st) : FrameTrue(rs, MoveOn(st)[k])
  <2> SUFFICES ASSUME NEW k \in DOMAIN st PROVE FrameTrue(rs, MoveOn(st)[k])
    BY <1>1, MovedStack
  <2>1. FrameTrue(rs, st[k])
    BY DEF ChainOK
  <2>2. /\ MoveOn(st)[k].change = st[k].change /\ MoveOn(st)[k].depth = st[k].depth
        /\ MoveOn(st)[k].cause = st[k].cause
    BY <1>1, MovedStack
  <2> QED  BY <2>1, <2>2 DEF FrameTrue
<1> QED  BY <1>2, <1>3 DEF ChainOK

LEMMA PoppedChain ==
  ASSUME NEW se, NEW rs, NEW st, NEW la, st # <<>>,
         ChainTyped(se, rs, st, la, NoRule), ChainOK(se, rs, st, la, NoRule)
  PROVE  ChainTyped(se, rs, Tail(st), la, NoRule) /\ ChainOK(se, rs, Tail(st), la, NoRule)
<1>1. st \in Seq(Frames)
  BY DEF ChainTyped
<1>2. /\ Tail(st) \in Seq(Frames) /\ Len(Tail(st)) = Len(st) - 1
      /\ \A i \in 1..Len(Tail(st)) : Tail(st)[i] = st[i + 1]
  BY <1>1, HeadTailProperties
<1>3. DOMAIN Tail(st) = 1..(Len(st) - 1) /\ Len(st) \in Nat /\ DOMAIN st = 1..Len(st)
  BY <1>1, <1>2, LenProperties
<1>4. \A k \in DOMAIN Tail(st) : k + 1 \in DOMAIN st /\ Tail(st)[k] = st[k + 1]
  BY <1>2, <1>3
<1>5. \A k \in DOMAIN Tail(st) : FrameTrue(rs, Tail(st)[k])
  BY <1>4 DEF ChainOK
<1> QED  BY <1>2, <1>5 DEF ChainTyped, ChainOK

\* A rule that applies has its pair put in chain.seen before it runs.
LEMMA ChosenRule ==
  ASSUME NEW se, NEW rs, NEW st, NEW i \in DOMAIN rules, i # NoRule, st # <<>>,
         ChainTyped(se, rs, st, <<>>, NoRule), ChainOK(se, rs, st, <<>>, NoRule),
         <<i, st[1].change.rec>> \notin se,
         st[1].cause # NoRun => rs[st[1].cause].rule # i
  PROVE  LET more == se \cup {<<i, st[1].change.rec>>}
         IN  ChainTyped(more, rs, st, <<>>, i) /\ ChainOK(more, rs, st, <<>>, i)
<1> DEFINE rec == st[1].change.rec
           more == se \cup {<<i, rec>>}
<1>1. rec \in Records
  BY MovedStack DEF ChainTyped, Frames, Changes
<1>2. ChainTyped(more, rs, st, <<>>, i)
  BY <1>1 DEF ChainTyped
<1>3. \A k \in DOMAIN rs : rs[k].rule # i \/ rs[k].rec # rec
  <2>1. \A k \in DOMAIN rs : <<rs[k].rule, rs[k].rec>> \in se
    BY DEF ChainOK
  <2>2. <<i, rec>> \notin se
    OBVIOUS
  <2> HIDE DEF rec
  <2> QED  BY <2>1, <2>2
<1>4. MayRun(more, rs, st[1], i)
  BY <1>3 DEF MayRun
<1>5. ChainOK(more, rs, st, <<>>, i)
  BY <1>4 DEF ChainOK
<1> QED  BY <1>2, <1>5

\* The row a run writes, and the change it may have made: true to what set it off.
LEMMA RanRule ==
  ASSUME NEW se, NEW rs, NEW st, NEW cu, NEW row, NEW la,
         cu # NoRule, rules \in Seq(Definitions),
         ChainTyped(se, rs, st, <<>>, cu), ChainOK(se, rs, st, <<>>, cu),
         row \in [rule : {cu}, rec : {st[1].change.rec}, depth : {st[1].depth},
                  cause : {st[1].cause}, status : {"done", "failed"},
                  wrote : Records \cup {Absent}],
         \/ la = <<>>
         \/ \E f \in Frames : /\ la = <<f>> /\ f.cause = Len(rs) + 1
                             /\ f.depth = row.depth + 1 /\ f.depth <= MAX_DEPTH
                             /\ row.status = "done" /\ f.change.rec = row.wrote
  PROVE  /\ ChainTyped(se, Append(rs, row), MoveOn(st), la, NoRule)
         /\ ChainOK(se, Append(rs, row), MoveOn(st), la, NoRule)
<1> DEFINE more == Append(rs, row)
           top == st[1]
<1>1. /\ rs \in Seq(Runs) /\ Len(rs) \in Nat /\ DOMAIN rs = 1..Len(rs)
      /\ st \in Seq(Frames) /\ st # <<>>
  BY LenProperties DEF ChainTyped, ChainOK
<1>2. 1 \in DOMAIN st /\ top \in Frames
  <2>1. Len(st) \in Nat \ {0} /\ DOMAIN st = 1..Len(st)
    BY <1>1, EmptySeq, LenProperties
  <2> QED  BY <1>1, <2>1, ElementOfSeq
<1>3. /\ MoveOn(st) \in Seq(Frames) /\ DOMAIN MoveOn(st) = DOMAIN st
      /\ \A k \in DOMAIN st : /\ MoveOn(st)[k].change = st[k].change
                              /\ MoveOn(st)[k].depth = st[k].depth
                              /\ MoveOn(st)[k].cause = st[k].cause
  BY <1>1, MovedStack
<1>4. FrameTrue(rs, top) /\ MayRun(se, rs, top, cu)
  BY <1>2 DEF ChainOK
<1>5. /\ row.rule = cu /\ row.rec = top.change.rec /\ row.depth = top.depth
      /\ row.cause = top.cause
  OBVIOUS
<1>6. \A k \in DOMAIN rs : rs[k] \in Runs
  BY <1>1, ElementOfSeq
<1>7. row \in Runs
  <2>1. cu \in Nat \ {NoRule}
    <3>1. Len(rules) \in Nat /\ DOMAIN rules = 1..Len(rules)
      BY LenProperties
    <3> QED  BY <3>1 DEF ChainTyped, NoRule
  <2>2. top.change.rec \in Records /\ top.depth \in Nat /\ top.cause \in Nat
    BY <1>2 DEF Frames, Changes
  <2>3. top.depth \in 1..MAX_DEPTH
    <3>1. CASE top.cause = NoRun
      BY <1>4, <3>1, ChainAssumption DEF FrameTrue
    <3>2. CASE top.cause # NoRun
      <4>1. rs[top.cause] \in Runs /\ top.depth = rs[top.cause].depth + 1
            /\ top.depth <= MAX_DEPTH
        BY <1>4, <1>6, <3>2 DEF FrameTrue
      <4>2. rs[top.cause].depth \in Nat
        BY <4>1, ChainAssumption DEF Runs
      <4> QED  BY <2>2, <4>1, <4>2, ChainAssumption
    <3> QED  BY <3>1, <3>2
  <2>4. /\ row.rule \in Nat \ {NoRule} /\ row.rec \in Records
        /\ row.depth \in 1..MAX_DEPTH /\ row.cause \in Nat
    BY <1>5, <2>1, <2>2, <2>3
  <2>5. /\ row = [rule |-> row.rule, rec |-> row.rec, depth |-> row.depth,
                  cause |-> row.cause, status |-> row.status, wrote |-> row.wrote]
        /\ row.status \in {"done", "failed"} /\ row.wrote \in Records \cup {Absent}
    OBVIOUS
  <2> QED  BY <2>4, <2>5 DEF Runs
<1>8. /\ more \in Seq(Runs) /\ Len(more) = Len(rs) + 1
      /\ \A k \in 1..Len(rs) : more[k] = rs[k]
      /\ more[Len(rs) + 1] = row
  BY <1>1, <1>7, AppendProperties
<1>9. DOMAIN more = 1..(Len(rs) + 1)
  BY <1>8, LenProperties
<1> HIDE DEF more, top
<1>10. \A f : FrameTrue(rs, f) => FrameTrue(more, f)
  BY <1>1, <1>8, <1>9 DEF FrameTrue
<1>11. \A k \in DOMAIN MoveOn(st) : FrameTrue(more, MoveOn(st)[k])
  <2> SUFFICES ASSUME NEW k \in DOMAIN st PROVE FrameTrue(more, MoveOn(st)[k])
    BY <1>3
  <2>1. FrameTrue(more, st[k])
    BY <1>10 DEF ChainOK
  <2> QED  BY <1>3, <2>1 DEF FrameTrue
<1>12. \A k \in DOMAIN la : FrameTrue(more, la[k])
  <2>1. CASE la = <<>>
    BY <2>1
  <2>2. ASSUME NEW f \in Frames, la = <<f>>, f.cause = Len(rs) + 1,
               f.depth = row.depth + 1, f.depth <= MAX_DEPTH,
               row.status = "done", f.change.rec = row.wrote
        PROVE  FrameTrue(more, f)
    <3>1. f.cause # NoRun /\ f.cause \in DOMAIN more /\ more[f.cause] = row
      BY <1>1, <1>8, <1>9, <2>2 DEF NoRun
    <3> QED  BY <2>2, <3>1 DEF FrameTrue
  <2> QED  BY <2>1, <2>2
<1>13. RunOnce(more)
  <2>1. \A k \in 1..Len(rs) : more[k].rule # row.rule \/ more[k].rec # row.rec
    BY <1>1, <1>4, <1>5, <1>8 DEF MayRun
  <2>2. RunOnce(rs)
    BY DEF ChainOK
  <2> SUFFICES ASSUME NEW i \in 1..(Len(rs) + 1), NEW j \in 1..(Len(rs) + 1),
                      more[i].rule = more[j].rule, more[i].rec = more[j].rec
               PROVE  i = j
    BY <1>9 DEF RunOnce
  <2>3. CASE i \in 1..Len(rs) /\ j \in 1..Len(rs)
    BY <1>1, <1>8, <2>2, <2>3 DEF RunOnce
  <2>4. CASE i = Len(rs) + 1 \/ j = Len(rs) + 1
    BY <1>1, <1>8, <2>1, <2>4
  <2> QED  BY <1>1, <2>3, <2>4
<1>14. TrueCauses(more)
  <2>1. TrueCauses(rs)
    BY DEF ChainOK
  <2>2. ASSUME NEW i \in 1..Len(rs)
        PROVE  IF rs[i].cause = NoRun THEN rs[i].depth = 1
               ELSE /\ rs[i].cause \in 1..Len(rs) /\ rs[i].cause < i
                    /\ rs[rs[i].cause].status = "done" /\ rs[rs[i].cause].wrote = rs[i].rec
                    /\ rs[rs[i].cause].rule # rs[i].rule
                    /\ rs[i].depth = rs[rs[i].cause].depth + 1
    <3>1. rs[i].cause \in Nat
      BY <1>1, <1>6 DEF Runs
    <3>2. rs[i].cause # NoRun => rs[i].cause < i
      BY <1>1, <2>1 DEF TrueCauses
    <3>3. rs[i].cause # NoRun => rs[i].cause \in 1..Len(rs)
      BY <1>1, <3>1, <3>2 DEF NoRun
    <3> QED  BY <1>1, <2>1, <3>3 DEF TrueCauses
  <2>3. row.cause = NoRun => row.depth = 1
    BY <1>4, <1>5 DEF FrameTrue
  <2>4. row.cause # NoRun =>
          /\ row.cause \in 1..Len(rs)
          /\ rs[row.cause].status = "done" /\ rs[row.cause].wrote = row.rec
          /\ rs[row.cause].rule # row.rule
          /\ row.depth = rs[row.cause].depth + 1
    BY <1>1, <1>4, <1>5 DEF FrameTrue, MayRun
  <2>5. row.cause # NoRun => row.cause < Len(rs) + 1
    BY <1>1, <2>4
  <2>6. \A i \in 1..(Len(rs) + 1) : i \in 1..Len(rs) \/ i = Len(rs) + 1
    BY <1>1
  <2>7. ASSUME NEW i \in 1..Len(rs)
        PROVE  IF more[i].cause = NoRun THEN more[i].depth = 1
               ELSE /\ more[i].cause < i
                    /\ more[more[i].cause].status = "done"
                    /\ more[more[i].cause].wrote = more[i].rec
                    /\ more[more[i].cause].rule # more[i].rule
                    /\ more[i].depth = more[more[i].cause].depth + 1
    BY <1>8, <2>2
  <2>8. IF row.cause = NoRun THEN row.depth = 1
        ELSE /\ row.cause < Len(rs) + 1
             /\ more[row.cause].status = "done"
             /\ more[row.cause].wrote = row.rec
             /\ more[row.cause].rule # row.rule
             /\ row.depth = more[row.cause].depth + 1
    BY <1>8, <2>3, <2>4, <2>5
  <2> QED  BY <1>8, <1>9, <2>6, <2>7, <2>8 DEF TrueCauses
<1>15. \A k \in DOMAIN more : <<more[k].rule, more[k].rec>> \in se
  <2>1. <<row.rule, row.rec>> \in se
    BY <1>4, <1>5 DEF MayRun
  <2>2. \A k \in 1..Len(rs) : <<rs[k].rule, rs[k].rec>> \in se
    BY <1>1 DEF ChainOK
  <2>3. \A k \in 1..(Len(rs) + 1) : k \in 1..Len(rs) \/ k = Len(rs) + 1
    BY <1>1
  <2>4. \A k \in 1..Len(rs) : <<more[k].rule, more[k].rec>> \in se
    BY <1>8, <2>2
  <2> QED  BY <1>8, <1>9, <2>1, <2>3, <2>4
<1>16. la \in Seq(Frames)
  <2>1. CASE la = <<>>
    BY <2>1
  <2>2. ASSUME NEW f \in Frames, la = <<f>> PROVE la \in Seq(Frames)
    BY <2>2
  <2> QED  BY <2>1, <2>2
<1>17. ChainTyped(se, more, MoveOn(st), la, NoRule)
  BY <1>3, <1>8, <1>16 DEF ChainTyped
<1>18. ChainOK(se, more, MoveOn(st), la, NoRule)
  BY <1>11, <1>12, <1>13, <1>14, <1>15 DEF ChainOK
<1> QED  BY <1>17, <1>18 DEF more
-----------------------------------------------------------------------------
(* The steps.                                                              *)

LEMMA ChainStarts == ChainInit => ChainInv
<1> SUFFICES ASSUME ChainInit PROVE ChainInv
  OBVIOUS
<1>1. ChainTypeOK
  BY ChainAssumption DEF ChainInit, ChainTypeOK, NoRule, NotSaving
<1>2. OneNetChange
  BY DEF ChainInit, OneNetChange
<1>3. ChainsOK
  BY NoChainIsOK DEF ChainInit, ChainsOK
<1> QED  BY <1>1, <1>2, <1>3 DEF ChainInv

LEMMA NetBuffers == OneNetChange <=> \A p \in Workers : NetChanges(buffer[p])
  BY DEF OneNetChange, NetChanges

\* A step of a request leaves every chain as it is.
LEMMA ChainsStill ==
  ASSUME ChainInv, UNCHANGED <<rules, engineVars>>
  PROVE  /\ ChainsOK'
         /\ rules' \in RuleLists
         /\ seen' \in [Workers -> SUBSET ((DOMAIN rules') \X Records)]
         /\ runs' \in [Workers -> Seq(Runs)]
         /\ stack' \in [Workers -> Seq(Frames)]
         /\ later' \in [Workers -> Seq(Frames)]
         /\ current' \in [Workers -> {NoRule} \cup DOMAIN rules']
  BY DEF engineVars, ChainInv, ChainsOK, ChainTypeOK

\* One more change in a request's buffer.
LEMMA OneBufferMerges ==
  ASSUME ChainInv, NEW p \in Workers, NEW c \in Changes,
         c.event = "updated" => c.old # c.new,
         buffer' = [buffer EXCEPT ![p] = Merge(@, c)]
  PROVE  OneNetChange' /\ buffer' \in [Workers -> Seq(Changes)]
<1>1. buffer \in [Workers -> Seq(Changes)] /\ \A q \in Workers : NetChanges(buffer[q])
  BY NetBuffers DEF ChainInv, ChainTypeOK
<1>2. Merge(buffer[p], c) \in Seq(Changes) /\ NetChanges(Merge(buffer[p], c))
  BY <1>1, MergedChange
<1>3. \A q \in Workers : NetChanges(buffer'[q])
  BY <1>1, <1>2
<1>4. OneNetChange'
  BY <1>3 DEF OneNetChange, NetChanges
<1> QED  BY <1>1, <1>2, <1>4

LEMMA RequestSteps ==
  ASSUME ChainInv, NEW p \in Workers,
         \/ BeginRequest(p) \/ Save(p) \/ EndRequest(p)
         \/ \E v \in Values : Create(p, v) \/ \E r \in Records : BeforeSave(p, r, v)
  PROVE  ChainInv'
<1>1. ChainTypeOK /\ OneNetChange
  BY DEF ChainInv
<1>2. UNCHANGED <<rules, engineVars>>
  BY DEF BeginRequest, Save, EndRequest, Create, BeforeSave
<1>3. ASSUME OneNetChange',
             value' \in [Records -> Values \cup {Absent}], saves' \in 0..MaxSaves,
             stage' \in [Workers -> {"idle", "request", "chain"}],
             saving' \in [Workers -> {NotSaving} \cup
                                     [rec : Records, old : Values, new : Values]],
             buffer' \in [Workers -> Seq(Changes)]
      PROVE  ChainInv'
  BY <1>2, <1>3, ChainsStill DEF ChainInv, ChainTypeOK
<1>4. OneNetChange' \/ buffer' # buffer
  BY <1>1 DEF OneNetChange
<1>5. CASE BeginRequest(p)
  BY <1>1, <1>3, <1>4, <1>5 DEF BeginRequest, ChainTypeOK
<1>6. CASE EndRequest(p)
  BY <1>1, <1>3, <1>4, <1>6 DEF EndRequest, ChainTypeOK
<1>7. ASSUME NEW v \in Values, NEW r \in Records, BeforeSave(p, r, v)
      PROVE  ChainInv'
  <2>1. value[r] \in Values
    BY <1>1, <1>7 DEF BeforeSave, ChainTypeOK
  <2>2. /\ UNCHANGED <<value, stage, buffer>>
        /\ saves < MaxSaves /\ saves' = saves + 1
        /\ saving' = [saving EXCEPT ![p] = [rec |-> r, old |-> value[r], new |-> v]]
    BY <1>7 DEF BeforeSave
  <2>3. saves' \in 0..MaxSaves
    BY <1>1, <2>2, ChainAssumption DEF ChainTypeOK
  <2>4. saving' \in [Workers -> {NotSaving} \cup
                                [rec : Records, old : Values, new : Values]]
    BY <1>1, <2>1, <2>2 DEF ChainTypeOK
  <2> QED  BY <1>1, <1>3, <1>4, <2>2, <2>3, <2>4 DEF ChainTypeOK
<1>8. CASE Save(p)
  <2> DEFINE s == saving[p]
             c == [rec |-> s.rec, event |-> "updated", old |-> s.old, new |-> s.new]
  <2>1. s \in [rec : Records, old : Values, new : Values]
    BY <1>1, <1>8 DEF Save, ChainTypeOK
  <2>2. /\ c \in Changes /\ c.event = "updated" /\ c.old = s.old /\ c.new = s.new
    BY <2>1 DEF Changes, Events
  <2>3. value' \in [Records -> Values \cup {Absent}]
    <3>1. [value EXCEPT ![s.rec] = s.new] \in [Records -> Values \cup {Absent}]
      BY <1>1, <2>1 DEF ChainTypeOK
    <3> QED  BY <1>1, <1>8, <3>1 DEF Save, ChainTypeOK
  <2>4. OneNetChange' /\ buffer' \in [Workers -> Seq(Changes)]
    <3>1. CASE s.old = s.new
      <4>1. buffer' = buffer
        BY <1>8, <3>1 DEF Save
      <4> QED  BY <1>1, <1>4, <4>1 DEF ChainTypeOK
    <3>2. CASE s.old # s.new
      <4>1. buffer' = [buffer EXCEPT ![p] = Merge(@, c)]
        BY <1>8, <3>2 DEF Save
      <4> HIDE DEF c, s
      <4> QED  BY <2>2, <3>2, <4>1, OneBufferMerges
    <3> QED  BY <3>1, <3>2
  <2>5. /\ saving' \in [Workers -> {NotSaving} \cup
                                   [rec : Records, old : Values, new : Values]]
        /\ UNCHANGED <<saves, stage>>
    BY <1>1, <1>8 DEF Save, ChainTypeOK
  <2> QED  BY <1>1, <1>3, <2>3, <2>4, <2>5 DEF ChainTypeOK
<1>9. ASSUME NEW v \in Values, Create(p, v)
      PROVE  ChainInv'
  <2> DEFINE r == CHOOSE x \in Unused : TRUE
             c == [rec |-> r, event |-> "created", old |-> Absent, new |-> v]
  <2>1. /\ UNCHANGED <<stage, saving>>
        /\ saves < MaxSaves /\ saves' = saves + 1 /\ Unused # {}
        /\ value' = [value EXCEPT ![r] = v]
        /\ buffer' = [buffer EXCEPT ![p] = Merge(@, c)]
    BY <1>9 DEF Create
  <2>2. r \in Records
    BY <2>1 DEF Unused
  <2> HIDE DEF r
  <2>3. c \in Changes /\ c.event # "updated"
    BY <2>2 DEF Changes, Events
  <2>4. value' \in [Records -> Values \cup {Absent}]
    BY <1>1, <2>1, <2>2 DEF ChainTypeOK
  <2>5. saves' \in 0..MaxSaves
    BY <1>1, <2>1, ChainAssumption DEF ChainTypeOK
  <2>6. OneNetChange' /\ buffer' \in [Workers -> Seq(Changes)]
    <3> HIDE DEF c
    <3> QED  BY <2>1, <2>3, OneBufferMerges
  <2> QED  BY <1>1, <1>3, <2>1, <2>4, <2>5, <2>6 DEF ChainTypeOK
<1> QED  BY <1>5, <1>6, <1>7, <1>8, <1>9

\* A step of the engine on one chain, the request's part as it was.
LEMMA EngineStep ==
  ASSUME ChainInv, NEW p \in Workers, NEW se, NEW rs, NEW st, NEW la, NEW cu,
         seen' = [seen EXCEPT ![p] = se], runs' = [runs EXCEPT ![p] = rs],
         stack' = [stack EXCEPT ![p] = st], later' = [later EXCEPT ![p] = la],
         current' = [current EXCEPT ![p] = cu],
         ChainTyped(se, rs, st, la, cu), ChainOK(se, rs, st, la, cu),
         UNCHANGED <<rules, saves, saving>>,
         value' \in [Records -> Values \cup {Absent}],
         stage' \in [Workers -> {"idle", "request", "chain"}],
         buffer' \in [Workers -> Seq(Changes)], OneNetChange'
  PROVE  ChainInv'
<1>1. /\ ChainsOK'
      /\ seen' \in [Workers -> SUBSET ((DOMAIN rules') \X Records)]
      /\ runs' \in [Workers -> Seq(Runs)]
      /\ stack' \in [Workers -> Seq(Frames)]
      /\ later' \in [Workers -> Seq(Frames)]
      /\ current' \in [Workers -> {NoRule} \cup DOMAIN rules']
  BY OneChainMoves
<1>2. ChainTypeOK
  BY DEF ChainInv
<1>3. rules' \in RuleLists /\ saves' \in 0..MaxSaves
      /\ saving' \in [Workers -> {NotSaving} \cup
                                 [rec : Records, old : Values, new : Values]]
  BY <1>2 DEF ChainTypeOK
<1> QED  BY <1>1, <1>3 DEF ChainInv, ChainTypeOK

\* The parts of a chain that a step leaves alone, in the form EngineStep asks for.
LEMMA SameParts ==
  ASSUME ChainInv, NEW p \in Workers
  PROVE  /\ seen = [seen EXCEPT ![p] = seen[p]] /\ runs = [runs EXCEPT ![p] = runs[p]]
         /\ stack = [stack EXCEPT ![p] = stack[p]] /\ later = [later EXCEPT ![p] = later[p]]
         /\ current = [current EXCEPT ![p] = current[p]]
         /\ value \in [Records -> Values \cup {Absent}]
         /\ stage \in [Workers -> {"idle", "request", "chain"}]
         /\ buffer \in [Workers -> Seq(Changes)]
         /\ OneNetChange /\ (UNCHANGED buffer => OneNetChange')
  BY DEF ChainInv, ChainTypeOK, OneNetChange

LEMMA ChangeSteps ==
  ASSUME ChainInv, NEW p \in Workers, NextChange(p) \/ EndOfBuffer(p) \/ Handle(p)
  PROVE  ChainInv'
<1>1. /\ ChainOK(seen[p], runs[p], stack[p], later[p], current[p])
      /\ ChainTyped(seen[p], runs[p], stack[p], later[p], current[p])
  BY ChainOf
<1>2. stack[p] = <<>> => current[p] = NoRule
  BY <1>1 DEF ChainOK
<1>3. CASE NextChange(p)
  <2> DEFINE la == <<[change |-> Head(buffer[p]), depth |-> 1, cause |-> NoRun,
                      next |-> 1]>>
  <2>1. /\ stack[p] = <<>> /\ buffer[p] # <<>>
        /\ later' = [later EXCEPT ![p] = la]
        /\ buffer' = [buffer EXCEPT ![p] = Tail(@)]
        /\ seen' = [seen EXCEPT ![p] = {}] /\ runs' = [runs EXCEPT ![p] = <<>>]
        /\ UNCHANGED <<rules, value, saves, stage, saving, stack, current>>
    BY <1>3 DEF NextChange, Resting
  <2>2. buffer[p] \in Seq(Changes) /\ NetChanges(buffer[p])
    BY SameParts, NetBuffers
  <2>3. /\ Head(buffer[p]) \in Changes
        /\ Tail(buffer[p]) \in Seq(Changes) /\ NetChanges(Tail(buffer[p]))
    BY <2>1, <2>2, TailOfChanges
  <2>4. /\ ChainTyped({}, <<>>, <<>>, la, NoRule) /\ ChainOK({}, <<>>, <<>>, la, NoRule)
    BY <2>3, NewChain
  <2>5. buffer' \in [Workers -> Seq(Changes)] /\ OneNetChange'
    <3>1. buffer' \in [Workers -> Seq(Changes)]
      BY <2>1, <2>3, SameParts
    <3>2. \A q \in Workers : NetChanges(buffer'[q])
      BY <2>1, <2>3, SameParts, NetBuffers
    <3> QED  BY <3>1, <3>2 DEF OneNetChange, NetChanges
  <2> HIDE DEF la
  <2>6. stack' = [stack EXCEPT ![p] = <<>>] /\ current' = [current EXCEPT ![p] = NoRule]
    BY <1>2, <2>1, SameParts
  <2> QED  BY <2>1, <2>4, <2>5, <2>6, SameParts, EngineStep
<1>4. CASE EndOfBuffer(p)
  <2>1. /\ stack[p] = <<>> /\ later[p] = <<>>
        /\ stage' = [stage EXCEPT ![p] = "idle"]
        /\ seen' = [seen EXCEPT ![p] = {}] /\ runs' = [runs EXCEPT ![p] = <<>>]
        /\ UNCHANGED <<rules, value, saves, saving, buffer, stack, later, current>>
    BY <1>4 DEF EndOfBuffer, Resting
  <2>2. ChainTyped({}, <<>>, <<>>, <<>>, NoRule)
    BY DEF ChainTyped
  <2>3. /\ stack' = [stack EXCEPT ![p] = <<>>] /\ later' = [later EXCEPT ![p] = <<>>]
        /\ current' = [current EXCEPT ![p] = NoRule]
    BY <1>2, <2>1, SameParts
  <2>4. stage' \in [Workers -> {"idle", "request", "chain"}]
    BY <2>1, SameParts
  <2> QED  BY <2>1, <2>2, <2>3, <2>4, NoChainIsOK, SameParts, EngineStep
<1>5. CASE Handle(p)
  <2>1. /\ later[p] # <<>> /\ later' = [later EXCEPT ![p] = <<>>]
        /\ \/ stack' = [stack EXCEPT ![p] = later[p] \o stack[p]]
           \/ stack' = stack
        /\ UNCHANGED <<rules, value, saves, stage, saving, buffer, seen, runs, current>>
    BY <1>5 DEF Handle
  <2>2. PICK st : /\ st \in {later[p] \o stack[p], stack[p]}
                  /\ stack' = [stack EXCEPT ![p] = st]
    BY <2>1, SameParts
  <2>3. /\ ChainTyped(seen[p], runs[p], st, <<>>, current[p])
        /\ ChainOK(seen[p], runs[p], st, <<>>, current[p])
    BY <1>1, <2>1, <2>2, PushedChain
  <2>4. /\ seen' = [seen EXCEPT ![p] = seen[p]] /\ runs' = [runs EXCEPT ![p] = runs[p]]
        /\ current' = [current EXCEPT ![p] = current[p]]
    BY <2>1, SameParts
  <2>5. /\ value' \in [Records -> Values \cup {Absent}]
        /\ stage' \in [Workers -> {"idle", "request", "chain"}]
        /\ buffer' \in [Workers -> Seq(Changes)] /\ OneNetChange'
        /\ UNCHANGED <<rules, saves, saving>>
    BY <2>1, SameParts
  <2>6. later' = [later EXCEPT ![p] = <<>>]
    BY <2>1
  <2> QED  BY <2>2, <2>3, <2>4, <2>5, <2>6, EngineStep
<1> QED  BY <1>3, <1>4, <1>5

LEMMA RuleSteps ==
  ASSUME ChainInv, NEW p \in Workers, ConsiderRule(p) \/ PassOver(p) \/ Return(p)
  PROVE  ChainInv'
<1>1. /\ ChainOK(seen[p], runs[p], stack[p], <<>>, NoRule)
      /\ ChainTyped(seen[p], runs[p], stack[p], <<>>, NoRule)
      /\ stack[p] # <<>> /\ later[p] = <<>> /\ current[p] = NoRule
  BY ChainOf DEF ConsiderRule, PassOver, Return, Handling
<1>2. UNCHANGED <<rules, value, saves, stage, saving, buffer, runs, later>>
  BY DEF ConsiderRule, PassOver, Return
<1>3. /\ runs' = [runs EXCEPT ![p] = runs[p]] /\ later' = [later EXCEPT ![p] = <<>>]
      /\ value' \in [Records -> Values \cup {Absent}]
      /\ stage' \in [Workers -> {"idle", "request", "chain"}]
      /\ buffer' \in [Workers -> Seq(Changes)] /\ OneNetChange'
      /\ UNCHANGED <<rules, saves, saving>>
  BY <1>1, <1>2, SameParts
<1>4. ASSUME stack' = [stack EXCEPT ![p] = MoveOn(@)], UNCHANGED <<seen, current>>
      PROVE  ChainInv'
  <2>1. /\ ChainTyped(seen[p], runs[p], MoveOn(stack[p]), <<>>, NoRule)
        /\ ChainOK(seen[p], runs[p], MoveOn(stack[p]), <<>>, NoRule)
    BY <1>1, MovedChain
  <2>2. /\ stack' = [stack EXCEPT ![p] = MoveOn(stack[p])]
        /\ seen' = [seen EXCEPT ![p] = seen[p]] /\ current' = [current EXCEPT ![p] = NoRule]
    BY <1>1, <1>4, SameParts
  <2> QED  BY <1>3, <2>1, <2>2, EngineStep
<1>5. CASE PassOver(p)
  BY <1>4, <1>5 DEF PassOver
<1>6. CASE Return(p)
  <2>1. stack' = [stack EXCEPT ![p] = Tail(stack[p])] /\ UNCHANGED <<seen, current>>
    BY <1>6 DEF Return
  <2>2. /\ ChainTyped(seen[p], runs[p], Tail(stack[p]), <<>>, NoRule)
        /\ ChainOK(seen[p], runs[p], Tail(stack[p]), <<>>, NoRule)
    BY <1>1, PoppedChain
  <2>3. /\ seen' = [seen EXCEPT ![p] = seen[p]] /\ current' = [current EXCEPT ![p] = NoRule]
    BY <1>1, <2>1, SameParts
  <2> QED  BY <1>3, <2>1, <2>2, <2>3, EngineStep
<1>7. CASE ConsiderRule(p)
  <2> DEFINE i == Top(p).next
             more == seen[p] \cup {<<i, stack[p][1].change.rec>>}
  <2>1. CASE Applies(p, i)
    <3>1. /\ current' = [current EXCEPT ![p] = i]
          /\ seen' = [seen EXCEPT ![p] = more]
          /\ UNCHANGED stack /\ i <= Len(rules)
      BY <1>7, <2>1 DEF ConsiderRule, Top
    <3>2. i \in DOMAIN rules /\ i # NoRule
      <4>1. stack[p][1] \in Frames
        BY <1>1, MovedStack DEF ChainTyped
      <4>2. i \in Nat \ {0}
        BY <4>1 DEF Frames, Top
      <4> QED  BY <3>1, <4>2, RulesAreASeq DEF NoRule
    <3>3. <<i, stack[p][1].change.rec>> \notin seen[p]
      BY <2>1 DEF Applies, HasActed, Top
    <3>4. stack[p][1].cause # NoRun => runs[p][stack[p][1].cause].rule # i
      BY <2>1 DEF Applies, CauseRule, Top
    <3> HIDE DEF i
    <3>5. ChainTyped(more, runs[p], stack[p], <<>>, i) /\ ChainOK(more, runs[p], stack[p], <<>>, i)
      BY <1>1, <3>2, <3>3, <3>4, ChosenRule
    <3> HIDE DEF more
    <3>6. stack' = [stack EXCEPT ![p] = stack[p]]
      BY <3>1, SameParts
    <3> QED  BY <1>3, <3>1, <3>5, <3>6, EngineStep
  <2>2. CASE ~Applies(p, i)
    <3>1. stack' = [stack EXCEPT ![p] = MoveOn(@)] /\ UNCHANGED <<seen, current>>
      BY <1>7, <2>2 DEF ConsiderRule
    <3> QED  BY <1>4, <3>1
  <2> QED  BY <2>1, <2>2
<1> QED  BY <1>5, <1>6, <1>7

\* A rule that ran: its row and, if its write moved a record and the chain may go
\* deeper, one change, caused by that very row.
LEMMA RunSteps ==
  ASSUME ChainInv, NEW p \in Workers, RunDone(p) \/ RunFailed(p)
  PROVE  ChainInv'
<1> DEFINE cu == current[p]
           st == stack[p]
           rs == runs[p]
<1>1. /\ ChainOK(seen[p], rs, st, later[p], cu) /\ ChainTyped(seen[p], rs, st, later[p], cu)
      /\ cu # NoRule
  BY ChainOf DEF RunDone, RunFailed
<1>2. st # <<>> /\ later[p] = <<>> /\ st \in Seq(Frames) /\ cu \in DOMAIN rules
  BY <1>1 DEF ChainOK, ChainTyped
<1>3. ASSUME NEW row, NEW la,
             row \in [rule : {cu}, rec : {st[1].change.rec}, depth : {st[1].depth},
                      cause : {st[1].cause}, status : {"done", "failed"},
                      wrote : Records \cup {Absent}],
             \/ la = <<>>
             \/ \E f \in Frames : /\ la = <<f>> /\ f.cause = Len(rs) + 1
                                 /\ f.depth = row.depth + 1 /\ f.depth <= MAX_DEPTH
                                 /\ row.status = "done" /\ f.change.rec = row.wrote,
             runs' = [runs EXCEPT ![p] = Append(@, row)],
             stack' = [stack EXCEPT ![p] = MoveOn(@)],
             later' = [later EXCEPT ![p] = la],
             current' = [current EXCEPT ![p] = NoRule],
             UNCHANGED <<rules, saves, stage, saving, buffer, seen>>,
             value' \in [Records -> Values \cup {Absent}]
      PROVE  ChainInv'
  <2>1. /\ ChainTyped(seen[p], Append(rs, row), MoveOn(st), la, NoRule)
        /\ ChainOK(seen[p], Append(rs, row), MoveOn(st), la, NoRule)
    <3>1. ChainOK(seen[p], rs, st, <<>>, cu) /\ ChainTyped(seen[p], rs, st, <<>>, cu)
      BY <1>1, <1>2
    <3>2. rules \in Seq(Definitions)
      BY RulesAreASeq
    <3> HIDE DEF cu, st, rs
    <3> QED  BY <1>1, <1>3, <3>1, <3>2, RanRule
  <2>2. /\ seen' = [seen EXCEPT ![p] = seen[p]]
        /\ stage' \in [Workers -> {"idle", "request", "chain"}]
        /\ buffer' \in [Workers -> Seq(Changes)] /\ OneNetChange'
        /\ UNCHANGED <<rules, saves, saving>>
    BY <1>3, SameParts
  <2>3. /\ runs' = [runs EXCEPT ![p] = Append(rs, row)]
        /\ stack' = [stack EXCEPT ![p] = MoveOn(st)]
    BY <1>3
  <2>4. /\ later' = [later EXCEPT ![p] = la] /\ current' = [current EXCEPT ![p] = NoRule]
        /\ value' \in [Records -> Values \cup {Absent}]
    BY <1>3
  <2> HIDE DEF cu, st, rs
  <2> QED  BY <2>1, <2>2, <2>3, <2>4, EngineStep
<1>4. CASE RunFailed(p)
  <2> DEFINE row == RunRow(p, "failed", Absent)
  <2>1. row \in [rule : {cu}, rec : {st[1].change.rec}, depth : {st[1].depth},
                 cause : {st[1].cause}, status : {"done", "failed"},
                 wrote : Records \cup {Absent}]
    BY DEF RunRow, Top
  <2>2. later' = [later EXCEPT ![p] = <<>>] /\ value' \in [Records -> Values \cup {Absent}]
    BY <1>2, <1>4, SameParts DEF RunFailed
  <2> HIDE DEF row
  <2>3. /\ runs' = [runs EXCEPT ![p] = Append(@, row)]
        /\ stack' = [stack EXCEPT ![p] = MoveOn(@)]
        /\ current' = [current EXCEPT ![p] = NoRule]
        /\ UNCHANGED <<rules, saves, stage, saving, buffer, seen>>
    BY <1>4 DEF RunFailed, row
  <2> HIDE DEF cu, st, rs
  <2> QED  BY <1>3, <2>1, <2>2, <2>3
<1>5. CASE RunDone(p)
  <2> DEFINE act == rules[cu].act
             out == Written(act, Top(p).change.rec)
             moved == {r \in out : value[r] # act.to}
             change(r) == [rec |-> r, old |-> value[r], new |-> act.to,
                           event |-> IF value[r] = Absent THEN "created" ELSE "updated"]
             made == IF out = {} THEN Absent ELSE CHOOSE r \in out : TRUE
             row == RunRow(p, "done", made)
             f == [change |-> change(made), depth |-> Top(p).depth + 1,
                   cause |-> Len(rs) + 1, next |-> 1]
             deeper == moved # {} /\ MayGoDeeper(Top(p).depth)
             la == IF deeper THEN <<f>> ELSE <<>>
  <2>1. /\ act.do # "fail"
        /\ value' = [r \in Records |-> IF r \in out THEN act.to ELSE value[r]]
        /\ runs' = [runs EXCEPT ![p] = Append(@, row)]
        /\ later' = IF deeper THEN [later EXCEPT ![p] = <<f>>] ELSE later
        /\ stack' = [stack EXCEPT ![p] = MoveOn(@)]
        /\ current' = [current EXCEPT ![p] = NoRule]
        /\ UNCHANGED <<rules, saves, stage, saving, buffer, seen>>
    BY <1>5 DEF RunDone
  <2>2. act \in Actions
    <3>1. rules[cu] \in Definitions
      BY <1>2, RulesAreASeq, ElementOfSeq
    <3> QED  BY <3>1 DEF Definitions
  <2>3. act.to \in Values
    BY <2>1, <2>2 DEF Actions
  <2>4. st[1] \in Frames /\ Top(p) = st[1]
    BY <1>2, MovedStack DEF Top
  <2>5. st[1].change.rec \in Records /\ st[1].depth \in Nat /\ st[1].cause \in Nat
    BY <2>4 DEF Frames, Changes
  <2>6. out \subseteq Records
    <3>1. Parent[Top(p).change.rec] \in Records
      BY <2>4, <2>5, ChainAssumption
    <3>2. Unused \subseteq Records
      BY DEF Unused
    <3>3. CASE act.do = "create"
      <4>1. out = IF Unused = {} THEN {} ELSE {CHOOSE x \in Unused : TRUE}
        BY <3>3 DEF Written
      <4> QED  BY <3>2, <4>1
    <3>4. CASE act.do = "set" /\ act.target = "record"
      BY <2>4, <2>5, <3>4 DEF Written
    <3>5. CASE act.do = "set" /\ act.target = "parent"
      <4>1. out \subseteq {Parent[Top(p).change.rec]}
        BY <3>5 DEF Written
      <4> QED  BY <3>1, <4>1
    <3> HIDE DEF act
    <3>6. \/ act.do = "create"
          \/ act.do = "set" /\ act.target = "record"
          \/ act.do = "set" /\ act.target = "parent"
      <4>1. CASE act \in [do : {"set"}, target : {"record", "parent"}, to : Values]
        BY <4>1
      <4>2. CASE act \in [do : {"create"}, to : Values]
        BY <4>2
      <4>3. act \notin [do : {"fail"}]
        BY <2>1
      <4> QED  BY <2>2, <4>1, <4>2, <4>3 DEF Actions
    <3> HIDE DEF out
    <3> QED  BY <3>3, <3>4, <3>5, <3>6
  <2>7. made \in Records \cup {Absent} /\ (moved # {} => made \in Records)
    BY <2>6
  <2>8. value' \in [Records -> Values \cup {Absent}]
    BY <2>1, <2>3, SameParts
  <2>9. row \in [rule : {cu}, rec : {st[1].change.rec}, depth : {st[1].depth},
                 cause : {st[1].cause}, status : {"done", "failed"},
                 wrote : Records \cup {Absent}]
    BY <2>7 DEF RunRow, Top
  <2>10. deeper => /\ f \in Frames /\ f.cause = Len(rs) + 1 /\ f.depth = row.depth + 1
                   /\ f.depth <= MAX_DEPTH /\ f.change.rec = row.wrote
    <3> SUFFICES ASSUME deeper
                 PROVE  /\ f \in Frames /\ f.cause = Len(rs) + 1 /\ f.depth = row.depth + 1
                        /\ f.depth <= MAX_DEPTH /\ f.change.rec = row.wrote
      OBVIOUS
    <3>1. made \in Records /\ value[made] \in Values \cup {Absent}
      BY <2>7, SameParts
    <3>2. change(made) \in Changes /\ change(made).rec = made
      BY <2>3, <3>1 DEF Changes, Events
    <3>3. Len(rs) \in Nat
      BY <1>1, LenProperties DEF ChainTyped
    <3>4. row.depth = Top(p).depth /\ row.wrote = made
      BY DEF RunRow
    <3>5. Top(p).depth \in Nat /\ Top(p).depth < MAX_DEPTH
      BY <2>4, <2>5 DEF MayGoDeeper
    <3> HIDE DEF change, made, row
    <3> QED  BY <3>2, <3>3, <3>4, <3>5, ChainAssumption DEF Frames
  <2>11. row.status = "done"
    BY DEF RunRow
  <2> HIDE DEF f, deeper, row
  <2>12. later' = [later EXCEPT ![p] = la]
    BY <1>2, <2>1, SameParts
  <2>13. \/ la = <<>>
         \/ \E g \in Frames : /\ la = <<g>> /\ g.cause = Len(rs) + 1
                             /\ g.depth = row.depth + 1 /\ g.depth <= MAX_DEPTH
                             /\ row.status = "done" /\ g.change.rec = row.wrote
    BY <2>10, <2>11
  <2> HIDE DEF cu, st, rs, la
  <2> QED  BY <1>3, <2>1, <2>8, <2>9, <2>12, <2>13
<1> QED  BY <1>4, <1>5

\* What every theorem about chains rests on.
THEOREM ChainInvariance == ChainSpec => []ChainInv
<1>1. ChainInv /\ [ChainNext]_chainVars => ChainInv'
  <2> SUFFICES ASSUME ChainInv, [ChainNext]_chainVars PROVE ChainInv'
    OBVIOUS
  <2>1. CASE ChainNext
    <3>1. PICK p \in Workers :
            \/ BeginRequest(p) \/ Work(p)
            \/ \E v \in Values : Create(p, v) \/ \E r \in Records : BeforeSave(p, r, v)
      BY <2>1 DEF ChainNext
    <3> QED  BY <3>1, RequestSteps, ChangeSteps, RuleSteps, RunSteps DEF Work
  <2>2. CASE UNCHANGED chainVars
    <3>1. UNCHANGED <<rules, engineVars>>
      BY <2>2 DEF chainVars, engineVars
    <3>2. UNCHANGED <<rules, value, saves, stage, saving, buffer>>
      BY <2>2 DEF chainVars
    <3> QED  BY <3>1, <3>2, ChainsStill DEF ChainInv, ChainTypeOK, OneNetChange
  <2> QED  BY <2>1, <2>2
<1> QED  BY <1>1, ChainStarts, PTL DEF ChainSpec

\* For any number of workers, records, rules and saves, any depth limit, and whatever
\* is rolled back, fails or is passed over: a rule acts on a record at most once per
\* chain (chain.seen, filled before the rule runs).
THEOREM OncePerChainAlways == ChainSpec => []OncePerChain
  BY ChainInvariance, InvSaysWhatIsChecked, PTL

\* Every run names the request's change, or the done run of another rule, one level
\* up, that wrote its record: what the history shows of a chain is what happened.
THEOREM CauseIsTrueAlways == ChainSpec => []CauseIsTrue
  BY ChainInvariance, InvSaysWhatIsChecked, PTL

\* A request hands over one net change per record, none of them back where it began.
THEOREM OneNetChangeAlways == ChainSpec => []OneNetChange
<1>1. ChainInv => OneNetChange
  BY DEF ChainInv
<1> QED  BY <1>1, ChainInvariance, PTL
-----------------------------------------------------------------------------
(* AutomationLimit. The overrun rests on counting a run from the moment it *)
(* passes the check: rows plus runs under way.                             *)

USE LimitAssumption DEF LimitAssumption

N == Cardinality(Processes)

\* Rows of the hour and runs that have yet to write theirs.
RunsAccounted ==
    /\ ran[hour] + Cardinality(Running) <= RUNS_PER_HOUR + N - 1
    /\ \A h \in Hours : h > hour => ran[h] = 0

\* A process past the lock holds its row, and read what the row still counts.
LockedRowIsCurrent ==
    \A p \in Processes : process[p].stage = "locked" =>
        /\ holder[process[p].window][process[p].rule] = p
        /\ process[p].read = skipRow[process[p].window][process[p].rule]

NoticeForKey == \A h \in Hours : notices[h] = (IF noticeKey[h] THEN 1 ELSE 0)

IInv == /\ TypeOK /\ RunsAccounted /\ OverrunBounded
        /\ LockedRowIsCurrent /\ SkipsCounted /\ NoticeForKey

LEMMA ProcessesFinite == N \in Nat \ {0}
  BY FS_CardinalityType, FS_EmptySet DEF N

LEMMA RunningFinite ==
    IsFiniteSet(Running) /\ Cardinality(Running) \in Nat /\ Cardinality(Running) <= N
<1>1. Running \subseteq Processes
  BY DEF Running
<1> QED BY <1>1, FS_Subset, FS_CardinalityType DEF N

LEMMA RunningFiniteNext ==
    /\ IsFiniteSet(Running') /\ Cardinality(Running') \in Nat
    /\ Cardinality(Running') <= N
<1>1. Running' \subseteq Processes
  BY DEF Running
<1> QED BY <1>1, FS_Subset, FS_CardinalityType DEF N

\* Only the stage of p changes, and it is not running before or after.
LEMMA StillRunning ==
    ASSUME TypeOK, NEW p \in Processes, NEW s,
           process' = [process EXCEPT ![p] = s],
           process[p].stage # "running", s.stage # "running"
    PROVE  Running' = Running
<1>1. \A q \in Processes : process'[q].stage = "running" <=> process[q].stage = "running"
  BY DEF TypeOK
<1> QED BY <1>1 DEF Running

\* p was running and no longer is.
LEMMA OneRunLess ==
    ASSUME TypeOK, NEW p \in Processes, process[p].stage = "running",
           process' = [process EXCEPT ![p] = Idle]
    PROVE  Cardinality(Running') = Cardinality(Running) - 1
<1>1. Idle.stage # "running"
  BY DEF Idle
<1>2. Running' = Running \ {p}
  BY <1>1 DEF Running, TypeOK
<1>3. p \in Running
  BY DEF Running
<1> QED BY <1>2, <1>3, RunningFinite, FS_RemoveElement

\* A process that keeps out of the lock leaves the locked ones as they are.
LEMMA LockUntouched ==
    ASSUME IInv, NEW p \in Processes, NEW s,
           process' = [process EXCEPT ![p] = s], s.stage # "locked",
           UNCHANGED <<holder, skipRow, skipped>>
    PROVE  LockedRowIsCurrent' /\ SkipsCounted'
<1>1. \A q \in Processes : process'[q].stage = "locked" => process'[q] = process[q]
  BY DEF IInv, TypeOK
<1> QED BY <1>1 DEF IInv, LockedRowIsCurrent, SkipsCounted

\* Nothing moves but a process that neither runs nor locks.
LEMMA QuietStep ==
    ASSUME IInv, NEW p \in Processes, NEW s,
           process' = [process EXCEPT ![p] = s],
           process[p].stage # "running", s.stage # "running", s.stage # "locked",
           UNCHANGED <<hour, ran, holder, skipRow, skipped>>
    PROVE  RunsAccounted' /\ OverrunBounded' /\ LockedRowIsCurrent' /\ SkipsCounted'
<1>1. Running' = Running
  BY StillRunning DEF IInv
<1>2. LockedRowIsCurrent' /\ SkipsCounted'
  BY LockUntouched
<1> QED BY <1>1, <1>2 DEF IInv, RunsAccounted, OverrunBounded

LEMMA InitEstablishes == Init => IInv
<1> SUFFICES ASSUME Init PROVE IInv
  OBVIOUS
<1>1. Idle.stage = "idle" /\ Idle \in ProcessStates
  BY DEF Idle, ProcessStates
<1>2. 0 \in Hours
  BY DEF Hours
<1>3. TypeOK
  BY <1>1, <1>2 DEF Init, TypeOK
<1>4. Running = {}
  BY <1>1 DEF Init, Running
<1>5. Cardinality(Running) = 0
  BY <1>4, FS_EmptySet
<1>6. RunsAccounted /\ OverrunBounded
  <2>1. \A h \in Hours : ran[h] = 0
    BY DEF Init
  <2>2. hour = 0
    BY DEF Init
  <2> QED BY <1>2, <1>5, <2>1, <2>2, ProcessesFinite DEF RunsAccounted, OverrunBounded, N
<1>7. LockedRowIsCurrent
  BY <1>1 DEF Init, LockedRowIsCurrent
<1>8. SkipsCounted /\ NoticeForKey
  BY DEF Init, SkipsCounted, NoticeForKey
<1> QED BY <1>3, <1>6, <1>7, <1>8 DEF IInv

LEMMA StepPreserves == IInv /\ [Next]_vars => IInv'
<1> SUFFICES ASSUME IInv, [Next]_vars PROVE IInv'
  OBVIOUS
<1>t. /\ TypeOK /\ RunsAccounted /\ OverrunBounded
      /\ LockedRowIsCurrent /\ SkipsCounted /\ NoticeForKey
  BY DEF IInv
<1>i. Idle \in ProcessStates /\ Idle.stage = "idle"
  BY DEF Idle, ProcessStates
<1>1. ASSUME NEW p \in Processes, NEW r \in Rules, Consider(p, r) PROVE IInv'
  <2>0. UNCHANGED <<hour, ran, skipRow, holder, skipped, noticeKey, notices>>
    BY <1>1 DEF Consider
  <2>1. CASE AtLimit(hour)
    <3> DEFINE s == [stage |-> "limited", rule |-> r, window |-> hour]
    <3>1. process' = [process EXCEPT ![p] = s] /\ s.stage = "limited"
      BY <1>1, <2>1 DEF Consider
    <3>2. s \in ProcessStates
      BY <1>t DEF ProcessStates, TypeOK
    <3>3. process[p].stage # "running"
      BY <1>1, <1>i DEF Consider
    <3> HIDE DEF s
    <3>4. TypeOK'
      BY <1>t, <2>0, <3>1, <3>2 DEF TypeOK
    <3>5. RunsAccounted' /\ OverrunBounded' /\ LockedRowIsCurrent' /\ SkipsCounted'
      BY <2>0, <3>1, <3>3, QuietStep
    <3> QED BY <1>t, <2>0, <3>4, <3>5 DEF IInv, NoticeForKey
  <2>2. CASE ~AtLimit(hour)
    <3> DEFINE s == [stage |-> "running", rule |-> r]
    <3>1. process' = [process EXCEPT ![p] = s] /\ s.stage = "running"
      BY <1>1, <2>2 DEF Consider
    <3>2. s \in ProcessStates
      BY DEF ProcessStates
    <3> HIDE DEF s
    <3>3. TypeOK'
      BY <1>t, <2>0, <3>1, <3>2 DEF TypeOK
    <3>4. ran[hour] < RUNS_PER_HOUR /\ ran[hour] \in Nat
      BY <1>t, <2>2 DEF AtLimit, TypeOK
    <3>5. RunsAccounted'
      BY <1>t, <2>0, <3>4, RunningFiniteNext, ProcessesFinite DEF RunsAccounted
    <3>6. LockedRowIsCurrent' /\ SkipsCounted'
      BY <2>0, <3>1, LockUntouched
    <3> QED BY <1>t, <2>0, <3>3, <3>5, <3>6 DEF IInv, NoticeForKey, OverrunBounded
  <2> QED BY <2>1, <2>2
<1>2. ASSUME NEW p \in Processes, WriteRun(p) PROVE IInv'
  <2>0. /\ process[p].stage = "running" /\ process' = [process EXCEPT ![p] = Idle]
        /\ ran' = [ran EXCEPT ![hour] = @ + 1]
        /\ UNCHANGED <<hour, skipRow, holder, skipped, noticeKey, notices>>
    BY <1>2 DEF WriteRun
  <2>1. Cardinality(Running') = Cardinality(Running) - 1
    BY <1>t, <2>0, OneRunLess
  <2>2. /\ ran'[hour] = ran[hour] + 1 /\ ran[hour] \in Nat
        /\ \A h \in Hours : h # hour => ran'[h] = ran[h]
        /\ hour \in Hours
    BY <1>t, <2>0 DEF TypeOK
  <2>3. TypeOK'
    BY <1>t, <1>i, <2>0, <2>2 DEF TypeOK
  <2>4. RunsAccounted'
    BY <1>t, <2>0, <2>1, <2>2, RunningFinite, ProcessesFinite DEF RunsAccounted, Hours
  <2>5. OverrunBounded'
    <3>1. Cardinality(Running') >= 0
      BY RunningFiniteNext
    <3>2. ran'[hour] <= RUNS_PER_HOUR + N - 1
      BY <2>0, <2>2, <2>4, <3>1, RunningFiniteNext, ProcessesFinite DEF RunsAccounted
    <3> QED BY <1>t, <2>2, <3>2 DEF OverrunBounded, N
  <2>6. LockedRowIsCurrent' /\ SkipsCounted'
    BY <1>i, <2>0, LockUntouched
  <2> QED BY <1>t, <2>0, <2>3, <2>4, <2>5, <2>6 DEF IInv, NoticeForKey
<1>3. ASSUME NEW p \in Processes, BreakRun(p) PROVE IInv'
  <2>0. /\ process[p].stage = "running" /\ process' = [process EXCEPT ![p] = Idle]
        /\ UNCHANGED <<hour, ran, skipRow, holder, skipped, noticeKey, notices>>
    BY <1>3 DEF BreakRun
  <2>1. Cardinality(Running') = Cardinality(Running) - 1
    BY <1>t, <2>0, OneRunLess
  <2>2. TypeOK'
    BY <1>t, <1>i, <2>0 DEF TypeOK
  <2>3. ran[hour] \in Nat
    BY <1>t DEF TypeOK
  <2>4. RunsAccounted'
    BY <1>t, <2>0, <2>1, <2>3, RunningFinite, ProcessesFinite DEF RunsAccounted
  <2>5. LockedRowIsCurrent' /\ SkipsCounted'
    BY <1>i, <2>0, LockUntouched
  <2> QED BY <1>t, <2>0, <2>2, <2>4, <2>5 DEF IInv, NoticeForKey, OverrunBounded
<1>4. ASSUME NEW p \in Processes, FirstSkip(p) PROVE IInv'
  <2> DEFINE w == process[p].window
             s == [stage |-> "skipping", rule |-> process[p].rule, window |-> w,
                   first |-> NoSkipYet(w)]
  <2>0. /\ process[p].stage = "limited" /\ process' = [process EXCEPT ![p] = s]
        /\ UNCHANGED <<hour, ran, skipRow, holder, skipped, noticeKey, notices>>
    BY <1>4 DEF FirstSkip
  <2>1. process[p] \in ProcessStates
    BY <1>t DEF TypeOK
  <2>2. process[p].rule \in Rules /\ w \in Hours
    BY <2>0, <2>1 DEF ProcessStates, Idle
  <2>3. s \in ProcessStates /\ s.stage = "skipping"
    <3>1. NoSkipYet(w) \in BOOLEAN
      BY DEF NoSkipYet
    <3> QED BY <2>2, <3>1 DEF ProcessStates
  <2> HIDE DEF s
  <2>4. TypeOK'
    BY <1>t, <2>0, <2>3 DEF TypeOK
  <2>5. RunsAccounted' /\ OverrunBounded' /\ LockedRowIsCurrent' /\ SkipsCounted'
    BY <2>0, <2>3, QuietStep
  <2> QED BY <1>t, <2>0, <2>4, <2>5 DEF IInv, NoticeForKey
<1>5. ASSUME NEW p \in Processes, LockRow(p) PROVE IInv'
  <2> DEFINE w == process[p].window
             r == process[p].rule
             s == [stage |-> "locked", rule |-> r, window |-> w,
                   first |-> process[p].first, read |-> skipRow[w][r]]
  <2>0. /\ process[p].stage = "skipping" /\ process' = [process EXCEPT ![p] = s]
        /\ holder[w][r] = Null
        /\ holder' = [holder EXCEPT ![w][r] = p]
        /\ UNCHANGED <<hour, ran, skipRow, skipped, noticeKey, notices>>
    BY <1>5 DEF LockRow, RowFree, CountRead
  <2>1. process[p] \in ProcessStates
    BY <1>t DEF TypeOK
  <2>2. r \in Rules /\ w \in Hours /\ process[p].first \in BOOLEAN
    BY <2>0, <2>1 DEF ProcessStates, Idle
  <2>3. skipRow[w][r] \in Nat
    BY <1>t, <2>2 DEF TypeOK
  <2>4. s \in ProcessStates
    BY <2>2, <2>3 DEF ProcessStates
  <2>5. /\ s.stage = "locked" /\ s.window = w /\ s.rule = r /\ s.read = skipRow[w][r]
    OBVIOUS
  <2> HIDE DEF s, w, r
  <2>6. TypeOK'
    BY <1>t, <2>0, <2>2, <2>4 DEF TypeOK
  <2>7. Running' = Running
    BY <1>t, <2>0, <2>5, StillRunning
  <2>8. RunsAccounted' /\ OverrunBounded'
    BY <1>t, <2>0, <2>7 DEF RunsAccounted, OverrunBounded
  <2>9. ASSUME NEW q \in Processes, process'[q].stage = "locked"
        PROVE  /\ holder'[process'[q].window][process'[q].rule] = q
               /\ process'[q].read = skipRow'[process'[q].window][process'[q].rule]
    <3>1. CASE q = p
      <4>1. process'[q] = s
        BY <1>t, <2>0, <3>1 DEF TypeOK
      <4>2. holder'[w][r] = p
        BY <1>t, <2>0, <2>2 DEF TypeOK
      <4> QED BY <2>0, <2>5, <3>1, <4>1, <4>2
    <3>2. CASE q # p
      <4>1. process'[q] = process[q]
        BY <1>t, <2>0, <3>2 DEF TypeOK
      <4>2. /\ holder[process[q].window][process[q].rule] = q
            /\ process[q].read = skipRow[process[q].window][process[q].rule]
        BY <1>t, <2>9, <4>1 DEF LockedRowIsCurrent
      <4>3. process[q] \in ProcessStates
        BY <1>t DEF TypeOK
      <4>4. process[q].window \in Hours /\ process[q].rule \in Rules
        BY <2>9, <4>1, <4>3 DEF ProcessStates, Idle
      <4>5. process[q].window # w \/ process[q].rule # r
        BY <2>0, <4>2
      <4>6. holder'[process[q].window][process[q].rule]
              = holder[process[q].window][process[q].rule]
        BY <1>t, <2>0, <2>2, <4>4, <4>5 DEF TypeOK
      <4> QED BY <2>0, <4>1, <4>2, <4>6
    <3> QED BY <3>1, <3>2
  <2>10. LockedRowIsCurrent'
    BY <2>9 DEF LockedRowIsCurrent
  <2> QED BY <1>t, <2>0, <2>6, <2>8, <2>10 DEF IInv, NoticeForKey, SkipsCounted
<1>6. ASSUME NEW p \in Processes, SaveRow(p) PROVE IInv'
  <2> DEFINE w == process[p].window
             r == process[p].rule
             s == IF process[p].first THEN [stage |-> "notifying", window |-> w] ELSE Idle
  <2>0. /\ process[p].stage = "locked" /\ process' = [process EXCEPT ![p] = s]
        /\ skipRow' = [skipRow EXCEPT ![w][r] = process[p].read + 1]
        /\ skipped' = [skipped EXCEPT ![w][r] = @ + 1]
        /\ holder' = [holder EXCEPT ![w][r] = Null]
        /\ UNCHANGED <<hour, ran, noticeKey, notices>>
    BY <1>6 DEF SaveRow
  <2>1. process[p] \in ProcessStates
    BY <1>t DEF TypeOK
  <2>2. r \in Rules /\ w \in Hours
    BY <2>0, <2>1 DEF ProcessStates, Idle
  <2>3. process[p].read = skipRow[w][r] /\ holder[w][r] = p
    BY <1>t, <2>0 DEF LockedRowIsCurrent
  <2>4. s \in ProcessStates /\ s.stage \notin {"running", "locked"}
    BY <1>i, <2>2 DEF ProcessStates
  <2>5. skipRow = skipped
    BY <1>t DEF SkipsCounted
  <2> HIDE DEF s, w, r
  <2>6. skipped' = skipRow'
    BY <2>0, <2>3, <2>5
  <2>7. skipped[w][r] + 1 \in Nat
    BY <1>t, <2>2 DEF TypeOK
  <2>8. skipped' \in [Hours -> [Rules -> Nat]]
    BY <1>t, <2>0, <2>2, <2>7 DEF TypeOK
  <2>9. holder' \in [Hours -> [Rules -> Processes \cup {Null}]]
    BY <1>t, <2>0, <2>2 DEF TypeOK
  <2>10. process' \in [Processes -> ProcessStates]
    BY <1>t, <2>0, <2>4 DEF TypeOK
  <2>11. TypeOK'
    BY <1>t, <2>0, <2>6, <2>8, <2>9, <2>10 DEF TypeOK
  <2>12. Running' = Running
    BY <1>t, <2>0, <2>4, StillRunning
  <2>13. RunsAccounted' /\ OverrunBounded'
    BY <1>t, <2>0, <2>12 DEF RunsAccounted, OverrunBounded
  <2>14. ASSUME NEW q \in Processes, process'[q].stage = "locked"
         PROVE  /\ holder'[process'[q].window][process'[q].rule] = q
                /\ process'[q].read = skipRow'[process'[q].window][process'[q].rule]
    <3>1. q # p
      BY <1>t, <2>0, <2>4, <2>14 DEF TypeOK
    <3>2. process'[q] = process[q]
      BY <1>t, <2>0, <3>1 DEF TypeOK
    <3>3. /\ holder[process[q].window][process[q].rule] = q
          /\ process[q].read = skipRow[process[q].window][process[q].rule]
      BY <1>t, <2>14, <3>2 DEF LockedRowIsCurrent
    <3>4. process[q] \in ProcessStates
      BY <1>t DEF TypeOK
    <3>5. process[q].window \in Hours /\ process[q].rule \in Rules
      BY <2>14, <3>2, <3>4 DEF ProcessStates, Idle
    <3>6. process[q].window # w \/ process[q].rule # r
      BY <2>3, <3>1, <3>3
    <3>7. holder'[process[q].window][process[q].rule]
            = holder[process[q].window][process[q].rule]
      BY <1>t, <2>0, <2>2, <3>5, <3>6 DEF TypeOK
    <3>8. skipRow'[process[q].window][process[q].rule]
            = skipRow[process[q].window][process[q].rule]
      BY <1>t, <2>0, <2>2, <3>5, <3>6 DEF TypeOK
    <3> QED BY <3>2, <3>3, <3>7, <3>8
  <2>15. LockedRowIsCurrent'
    BY <2>14 DEF LockedRowIsCurrent
  <2> QED BY <1>t, <2>0, <2>6, <2>11, <2>13, <2>15 DEF IInv, NoticeForKey, SkipsCounted
<1>7. ASSUME NEW p \in Processes, NotifyLimit(p) PROVE IInv'
  <2> DEFINE w == process[p].window
  <2>0. /\ process[p].stage = "notifying" /\ process' = [process EXCEPT ![p] = Idle]
        /\ noticeKey' = [noticeKey EXCEPT ![w] = TRUE]
        /\ notices' = [notices EXCEPT ![w] = @ + (IF ~noticeKey[w] THEN 1 ELSE 0)]
        /\ UNCHANGED <<hour, ran, skipRow, holder, skipped>>
    BY <1>7 DEF NotifyLimit, NoticeDue
  <2>1. process[p] \in ProcessStates
    BY <1>t DEF TypeOK
  <2>2. w \in Hours
    BY <2>0, <2>1 DEF ProcessStates, Idle
  <2> HIDE DEF w
  <2>3. notices[w] = (IF noticeKey[w] THEN 1 ELSE 0) /\ noticeKey[w] \in BOOLEAN
    BY <1>t, <2>2 DEF NoticeForKey, TypeOK
  <2>4. notices'[w] = 1 /\ noticeKey'[w] = TRUE
    BY <1>t, <2>0, <2>2, <2>3 DEF TypeOK
  <2>5. \A h \in Hours : h # w => notices'[h] = notices[h] /\ noticeKey'[h] = noticeKey[h]
    BY <1>t, <2>0, <2>2 DEF TypeOK
  <2>6. NoticeForKey'
    BY <1>t, <2>4, <2>5 DEF NoticeForKey
  <2>7. notices' \in [Hours -> Nat] /\ noticeKey' \in [Hours -> BOOLEAN]
    <3>1. notices[w] + (IF ~noticeKey[w] THEN 1 ELSE 0) \in Nat
      BY <2>3
    <3> QED BY <1>t, <2>0, <2>2, <3>1 DEF TypeOK
  <2>8. TypeOK'
    BY <1>t, <1>i, <2>0, <2>7 DEF TypeOK
  <2>9. RunsAccounted' /\ OverrunBounded' /\ LockedRowIsCurrent' /\ SkipsCounted'
    BY <1>i, <2>0, QuietStep
  <2> QED BY <2>6, <2>8, <2>9 DEF IInv
<1>8. CASE NextHour
  <2>0. /\ hour < MaxHour /\ hour' = hour + 1
        /\ UNCHANGED <<process, ran, skipRow, holder, skipped, noticeKey, notices>>
    BY <1>8 DEF NextHour
  <2>1. hour' \in Hours /\ hour' > hour
    BY <1>t, <2>0 DEF TypeOK, Hours
  <2>2. TypeOK'
    BY <1>t, <2>0, <2>1 DEF TypeOK
  <2>3. ran'[hour'] = 0
    BY <1>t, <2>0, <2>1 DEF RunsAccounted
  <2>4. \A h \in Hours : h > hour' => ran'[h] = 0
    BY <1>t, <2>0, <2>1 DEF RunsAccounted, TypeOK, Hours
  <2>5. RunsAccounted'
    BY <2>3, <2>4, RunningFiniteNext, ProcessesFinite DEF RunsAccounted
  <2> QED BY <1>t, <2>0, <2>2, <2>5
          DEF IInv, NoticeForKey, OverrunBounded, SkipsCounted, LockedRowIsCurrent
<1>9. CASE UNCHANGED vars
  <2>1. TypeOK'
    BY <1>t, <1>9 DEF vars, TypeOK
  <2>2. Running' = Running
    BY <1>9 DEF vars, Running
  <2>3. RunsAccounted' /\ OverrunBounded'
    BY <1>t, <1>9, <2>2 DEF vars, RunsAccounted, OverrunBounded
  <2> QED BY <1>t, <1>9, <2>1, <2>3
          DEF vars, IInv, NoticeForKey, SkipsCounted, LockedRowIsCurrent
<1> QED BY <1>1, <1>2, <1>3, <1>4, <1>5, <1>6, <1>7, <1>8, <1>9 DEF Next, Finish

THEOREM Invariance == Spec => []IInv
  BY InitEstablishes, StepPreserves, PTL DEF Spec

\* Type correctness of the hour's rows, the processes and the caches.
THEOREM TypeCorrect == Spec => []TypeOK
  BY Invariance, PTL DEF IInv

\* However many requests, tasks and commands run rules at once, an hour holds
\* at most RUNS_PER_HOUR runs and one more per other process.
THEOREM OverrunBoundedAlways == Spec => []OverrunBounded
  BY Invariance, PTL DEF IInv

\* skipped_count is exactly how often the rule was skipped in the hour.
THEOREM SkipsCountedAlways == Spec => []SkipsCounted
  BY Invariance, PTL DEF IInv

\* The org's admins never get a second notice for an hour.
THEOREM OneLimitNoticeAlways == Spec => []OneLimitNotice
<1>1. IInv => OneLimitNotice
  BY DEF IInv, NoticeForKey, OneLimitNotice
<1> QED BY Invariance, <1>1, PTL
=============================================================================
