----------------------------- MODULE Otp_proofs -----------------------------
(***************************************************************************)
(* Proofs about Otp, for any number of calls, targets, purposes, values    *)
(* and attempts, and for every cooldown, window and limit.                 *)
(***************************************************************************)
EXTENDS Otp, FiniteSetTheorems, TLAPS

-----------------------------------------------------------------------------
(* The inductive invariant.                                                *)

\* What a call was asked, and when.
Asked(c) ==
    /\ pc[c] # "new" => op[c].target \in Targets /\ op[c].purpose \in Purposes
    /\ op[c].at <= now
    /\ before[c] \subseteq Done \ {c}
    /\ pc[c] = "new" => before[c] = {}

\* Where a call of which kind can be, and when its row is there.
Placed(c) ==
    /\ pc[c] \in {"cooldown", "daily", "save", "send"} => op[c].kind = "request"
    /\ pc[c] \in {"find", "count", "consume"} => op[c].kind = "verify"
    /\ pc[c] = "done" <=> reply[c] # "none"
    /\ code[c].exists =>
          /\ op[c].kind = "request" /\ pc[c] \in {"send", "done"}
          /\ code[c].target = op[c].target /\ code[c].purpose = op[c].purpose

\* What a Verify that has read a code knows of it.
Reads(c) ==
    /\ pc[c] \in {"count", "consume"} => work[c].code # None
    /\ (op[c].kind = "verify" /\ reply[c] = "ok") =>
          work[c].code # None /\ code[work[c].code].consumed
    /\ work[c].code # None =>
          /\ op[c].kind = "verify" /\ pc[c] \in {"count", "consume", "done"}
          /\ work[c].code \in Issued(c)
          /\ op[c].at <= code[work[c].code].expires
          /\ (pc[c] = "consume" \/ reply[c] = "ok") => code[work[c].code].value = op[c].guess

Control == \A c \in Calls : Asked(c) /\ Placed(c) /\ Reads(c)

\* The code a Verify has read had neither been accepted nor been missed too often by the
\* calls that had returned when it began.
Fresh ==
    \A c \in Calls : work[c].code # None =>
        /\ \A d \in Accepted \cap before[c] : work[d].code # work[c].code
        /\ Cardinality(Misses(work[c].code) \cap before[c]) < MaxAttempts

\* A request that is past the cooldown check has found none of the earlier requests'
\* codes too young.
Cooled ==
    \A e \in Calls : (pc[e] \in {"daily", "save"} /\ Cooldown > 0) =>
        \A d \in before[e] \cap Issued(e) : code[d].created + Cooldown < op[e].at

\* And one that is past the daily check has counted few of them.
OfTheDay(e, t) == {d \in before[e] \cap Issued(e) : code[d].created + Day >= t}
Counted ==
    \A e \in Calls : (pc[e] = "save" /\ DailyLimit > 0) =>
        Cardinality(OfTheDay(e, op[e].at)) < DailyLimit

IInv ==
    /\ TypeOK /\ Control
    /\ MissesCounted /\ Fresh
    /\ Cooled /\ CooldownKept
    /\ Counted /\ DailyLimitKept

-----------------------------------------------------------------------------
(* Types, and what a step may do to one call and to one row.               *)

LEMMA StepCases ==
    ASSUME [Next]_vars
    PROVE  \/ \E c \in Calls, t \in Targets, p \in Purposes :
                 BeginRequest(c, t, p) \/ \E g \in Values : BeginVerify(c, t, p, g)
           \/ \E c \in Calls : CheckCooldown(c) \/ Send(c) \/ Fail(c)
           \/ \E c \in Calls : CheckDaily(c)
           \/ \E c \in Calls : Save(c)
           \/ \E c \in Calls : Find(c)
           \/ \E c \in Calls : Count(c)
           \/ \E c \in Calls : Consume(c)
           \/ Tick
           \/ UNCHANGED vars
  BY DEF Next, Start, Advance, AllDone

\* A call begins.
Begun(c) ==
    \E k \in {"request", "verify"}, t \in Targets, p \in Purposes, g \in Values \cup {None} :
        /\ op' = [op EXCEPT ![c] = [kind |-> k, target |-> t, purpose |-> p,
                                    guess |-> g, at |-> now]]
        /\ pc' = [pc EXCEPT ![c] = IF k = "request" THEN "cooldown" ELSE "find"]
        /\ pc[c] = "new" /\ before' = [before EXCEPT ![c] = Done]
        /\ UNCHANGED <<code, work, now, reply>>

LEMMA BeginIsBegun ==
    ASSUME NEW c \in Calls, NEW t \in Targets, NEW p \in Purposes,
           BeginRequest(c, t, p) \/ \E g \in Values : BeginVerify(c, t, p, g)
    PROVE  Begun(c)
  <1>1. CASE BeginRequest(c, t, p)
    <2>1. Begin(c, "request", t, p, None, "cooldown")
      BY <1>1 DEF BeginRequest
    <2>2. QED
      BY <2>1 DEF Begin, Begun, Goto
  <1>2. ASSUME NEW g \in Values, BeginVerify(c, t, p, g)
        PROVE  Begun(c)
    <2>1. Begin(c, "verify", t, p, g, "find")
      BY <1>2 DEF BeginVerify
    <2>2. QED
      BY <2>1 DEF Begin, Begun, Goto
  <1>3. QED
    BY <1>1, <1>2

LEMMA TypeStep ==
    ASSUME TypeOK, Control, [Next]_vars
    PROVE  TypeOK'
  <1> USE OtpAssumption DEF Goto, Return, Executed
  <1>0. now \in Nat
    BY DEF TypeOK
  <1>1. ASSUME NEW c \in Calls, Begun(c)
        PROVE  TypeOK'
    <2>1. op' \in [Calls -> Op]
      BY <1>0, <1>1 DEF TypeOK, Begun, Op
    <2>2. before' \in [Calls -> SUBSET Calls]
      BY <1>1 DEF TypeOK, Begun, Done
    <2>3. QED
      BY <1>1, <2>1, <2>2 DEF TypeOK, Begun, Running
  <1>2. ASSUME NEW c \in Calls, CheckCooldown(c) \/ Send(c) \/ Fail(c)
        PROVE  TypeOK'
    BY <1>2 DEF TypeOK, CheckCooldown, Send, Fail, Running, Replies
  <1>3. ASSUME NEW c \in Calls, CheckDaily(c)
        PROVE  TypeOK'
    <2>1. work' = work \/ work' = [work EXCEPT ![c].expires = now + TTL]
      BY <1>3 DEF CheckDaily
    <2>2. now + TTL \in Nat
      BY <1>0
    <2>3. work' \in [Calls -> Work]
      BY <2>1, <2>2 DEF TypeOK, Work
    <2>4. QED
      BY <1>3, <2>3 DEF TypeOK, CheckDaily, Running, Replies
  <1>4. ASSUME NEW c \in Calls, Save(c)
        PROVE  TypeOK'
    <2>1. PICK v \in Values :
             code' = [code EXCEPT ![c] =
                        [exists |-> TRUE, target |-> op[c].target, purpose |-> op[c].purpose,
                         value |-> v, created |-> now, expires |-> work[c].expires,
                         consumed |-> FALSE, attempts |-> 0]]
      BY <1>4 DEF Save
    <2>2. /\ op[c].target \in Targets \cup {None} /\ op[c].purpose \in Purposes \cup {None}
          /\ work[c].expires \in Nat
      BY DEF TypeOK, Op, Work
    <2>3. [exists |-> TRUE, target |-> op[c].target, purpose |-> op[c].purpose,
           value |-> v, created |-> now, expires |-> work[c].expires,
           consumed |-> FALSE, attempts |-> 0] \in Code
      BY <1>0, <2>2 DEF Code
    <2>4. code' \in [Calls -> Code]
      BY <2>1, <2>3 DEF TypeOK
    <2>5. QED
      BY <1>4, <2>4 DEF TypeOK, Save, Running, Replies
  <1>5. ASSUME NEW c \in Calls, Find(c)
        PROVE  TypeOK'
    <2>1. work' = work \/ \E d \in Calls : work' = [work EXCEPT ![c].code = d]
      BY <1>5 DEF Find, Unconsumed, Issued
    <2>2. work' \in [Calls -> Work]
      BY <2>1 DEF TypeOK, Work
    <2>3. QED
      BY <1>5, <2>2 DEF TypeOK, Find, Running, Replies
  <1>6. ASSUME NEW c \in Calls, Count(c)
        PROVE  TypeOK'
    <2>1. work[c].code \in Calls
      BY <1>6 DEF Count, Control, Reads, Issued
    <2>2. code[work[c].code] \in Code
      BY <2>1 DEF TypeOK
    <2>3. code[work[c].code].attempts + 1 \in Nat
      BY <2>2 DEF Code
    <2>4. code' \in [Calls -> Code]
      BY <1>6, <2>1, <2>2, <2>3 DEF TypeOK, Count, Code
    <2>5. QED
      BY <1>6, <2>4 DEF TypeOK, Count, Running, Replies
  <1>7. ASSUME NEW c \in Calls, Consume(c)
        PROVE  TypeOK'
    <2>1. work[c].code \in Calls
      BY <1>7 DEF Consume, Control, Reads, Issued
    <2>2. code[work[c].code] \in Code
      BY <2>1 DEF TypeOK
    <2>3. code' \in [Calls -> Code]
      BY <1>7, <2>1, <2>2 DEF TypeOK, Consume, Code
    <2>4. QED
      BY <1>7, <2>3 DEF TypeOK, Consume, Running, Replies
  <1>8. CASE Tick
    BY <1>8 DEF TypeOK, Tick
  <1>9. CASE UNCHANGED vars
    BY <1>9 DEF TypeOK, vars
  <1>10. QED
    BY StepCases, BeginIsBegun, <1>1, <1>2, <1>3, <1>4, <1>5, <1>6, <1>7, <1>8, <1>9

\* A call stays where it is unless it takes a step of its own.
Still(d) ==
    /\ pc'[d] = pc[d] /\ reply'[d] = reply[d] /\ op'[d] = op[d]
    /\ work'[d] = work[d] /\ before'[d] = before[d]
Moves(d) ==
    \/ Begun(d) \/ CheckCooldown(d) \/ CheckDaily(d) \/ Save(d) \/ Send(d)
    \/ Find(d) \/ Count(d) \/ Consume(d) \/ Fail(d)

LEMMA OneMoves ==
    ASSUME TypeOK, [Next]_vars, NEW d \in Calls
    PROVE  Still(d) \/ Moves(d)
  <1> USE DEF Goto, Return, Executed
  <1>1. ASSUME NEW c \in Calls, Begun(c)
        PROVE  Still(d) \/ Moves(d)
    <2>1. CASE c = d
      BY <1>1, <2>1 DEF Moves
    <2>2. CASE c # d
      BY <1>1, <2>2 DEF TypeOK, Begun, Still
    <2>3. QED
      BY <2>1, <2>2
  <1>2. ASSUME NEW c \in Calls, CheckCooldown(c) \/ Send(c) \/ Fail(c)
        PROVE  Still(d) \/ Moves(d)
    <2>1. CASE c = d
      BY <1>2, <2>1 DEF Moves
    <2>2. CASE c # d
      BY <1>2, <2>2 DEF TypeOK, CheckCooldown, Send, Fail, Still
    <2>3. QED
      BY <2>1, <2>2
  <1>3. ASSUME NEW c \in Calls, CheckDaily(c)
        PROVE  Still(d) \/ Moves(d)
    <2>1. CASE c = d
      BY <1>3, <2>1 DEF Moves
    <2>2. CASE c # d
      BY <1>3, <2>2 DEF TypeOK, CheckDaily, Still
    <2>3. QED
      BY <2>1, <2>2
  <1>4. ASSUME NEW c \in Calls, Find(c)
        PROVE  Still(d) \/ Moves(d)
    <2>1. CASE c = d
      BY <1>4, <2>1 DEF Moves
    <2>2. CASE c # d
      BY <1>4, <2>2 DEF TypeOK, Find, Still
    <2>3. QED
      BY <2>1, <2>2
  <1>5. ASSUME NEW c \in Calls, Save(c) \/ Count(c) \/ Consume(c)
        PROVE  Still(d) \/ Moves(d)
    <2>1. CASE c = d
      BY <1>5, <2>1 DEF Moves
    <2>2. CASE c # d
      BY <1>5, <2>2 DEF TypeOK, Save, Count, Consume, Still
    <2>3. QED
      BY <2>1, <2>2
  <1>6. CASE Tick
    BY <1>6 DEF Tick, Still
  <1>7. CASE UNCHANGED vars
    BY <1>7 DEF vars, Still
  <1>8. QED
    BY StepCases, BeginIsBegun, <1>1, <1>2, <1>3, <1>4, <1>5, <1>6, <1>7

\* A call that has returned stays as it is.
LEMMA DoneStays ==
    ASSUME TypeOK, [Next]_vars, NEW d \in Calls, pc[d] = "done"
    PROVE  Still(d)
  BY OneMoves DEF Moves, Begun, CheckCooldown, CheckDaily, Save, Send, Find, Count, Consume,
                  Fail, Running

\* What a call was asked, when, and after which calls, is settled when it begins.
LEMMA BegunKept ==
    ASSUME TypeOK, [Next]_vars, NEW d \in Calls, pc[d] # "new"
    PROVE  pc'[d] # "new" /\ op'[d] = op[d] /\ before'[d] = before[d]
  <1> USE DEF Goto, Return, Executed
  <1>1. CASE Still(d)
    BY <1>1 DEF Still
  <1>2. CASE CheckCooldown(d) \/ Send(d) \/ Fail(d) \/ Save(d) \/ Count(d) \/ Consume(d)
    BY <1>2 DEF TypeOK, CheckCooldown, Send, Fail, Save, Count, Consume, Running
  <1>3. CASE CheckDaily(d)
    BY <1>3 DEF TypeOK, CheckDaily
  <1>4. CASE Find(d)
    BY <1>4 DEF TypeOK, Find
  <1>5. QED
    BY <1>1, <1>2, <1>3, <1>4, OneMoves DEF Moves, Begun

LEMMA TimePasses ==
    ASSUME TypeOK, [Next]_vars
    PROVE  now' >= now /\ now \in Nat /\ now' \in Nat
  <1>1. now \in Nat
    BY OtpAssumption DEF TypeOK
  <1>2. now' = now \/ now' = now + 1
    BY StepCases, BeginIsBegun
       DEF Begun, CheckCooldown, Send, Fail, CheckDaily, Save, Find, Count, Consume, Tick, vars
  <1>3. QED
    BY <1>1, <1>2

\* What may happen to a row that is there: it is consumed or missed, and nothing else.
Grows(r, s) ==
    /\ s.exists = r.exists /\ s.target = r.target /\ s.purpose = r.purpose
    /\ s.value = r.value /\ s.created = r.created /\ s.expires = r.expires
    /\ r.consumed => s.consumed
    /\ s.attempts >= r.attempts

LEMMA RowChange ==
    ASSUME TypeOK, Control, [Next]_vars, NEW t \in Calls
    PROVE  Grows(code[t], code'[t]) \/ Save(t)
  <1>0. code[t] \in Code
    BY DEF TypeOK
  <1>1. CASE code' = code
    BY <1>0, <1>1 DEF Grows, Code
  <1>2. ASSUME NEW c \in Calls, Save(c)
        PROVE  Grows(code[t], code'[t]) \/ Save(t)
    <2>1. CASE c = t
      BY <1>2, <2>1
    <2>2. CASE c # t
      <3>1. code'[t] = code[t]
        BY <1>2, <2>2 DEF Save, TypeOK
      <3>2. QED
        BY <1>0, <3>1 DEF Grows, Code
    <2>3. QED
      BY <2>1, <2>2
  <1>3. ASSUME NEW c \in Calls, Count(c) \/ Consume(c)
        PROVE  Grows(code[t], code'[t])
    <2>1. work[c].code \in Calls
      BY <1>3 DEF Count, Consume, Control, Reads, Issued
    <2>2. \/ code'[t] = code[t]
          \/ code'[t] = [code[t] EXCEPT !.attempts = @ + 1]
          \/ code'[t] = [code[t] EXCEPT !.consumed = TRUE]
      BY <1>3, <2>1 DEF Count, Consume, TypeOK
    <2>3. QED
      BY <1>0, <2>2 DEF Grows, Code
  <1>4. QED
    BY StepCases, BeginIsBegun, <1>1, <1>2, <1>3
       DEF Begun, CheckCooldown, Send, Fail, CheckDaily, Find, Tick, vars

LEMMA RowKept ==
    ASSUME TypeOK, Control, [Next]_vars, NEW t \in Calls, code[t].exists \/ pc[t] # "save"
    PROVE  Grows(code[t], code'[t])
  BY RowChange DEF Save, Control, Placed

\* The codes of calls that had returned are the ones they are for good.
LEMMA EarlierKept ==
    ASSUME TypeOK, Control, [Next]_vars, NEW e \in Calls, pc[e] # "new"
    PROVE  /\ before'[e] \cap Issued(e)' = before[e] \cap Issued(e)
           /\ \A d \in before[e] : code'[d].created = code[d].created
  <1>1. before'[e] = before[e] /\ op'[e] = op[e]
    BY BegunKept
  <1>2. \A d \in before[e] : d \in Calls /\ pc[d] # "save"
    BY DEF Control, Asked, Done
  <1>3. \A d \in before[e] : Grows(code[d], code'[d])
    BY <1>2, RowKept
  <1>4. QED
    BY <1>1, <1>2, <1>3 DEF Grows, Issued

-----------------------------------------------------------------------------
(* Control.                                                                *)

LEMMA AskedStep ==
    ASSUME TypeOK, Control, [Next]_vars, NEW d \in Calls
    PROVE  Asked(d)'
  <1>1. Asked(d) /\ op[d].at \in Nat
    BY DEF Control, TypeOK, Op
  <1>2. \A x \in Done : x \in Done'
    BY DoneStays DEF Done, Still
  <1>3. CASE pc[d] # "new"
    BY <1>1, <1>2, <1>3, BegunKept, TimePasses DEF Asked
  <1>4. CASE Begun(d)
    <2>1. PICK k \in {"request", "verify"}, t \in Targets, p \in Purposes,
               g \in Values \cup {None} :
             /\ op' = [op EXCEPT ![d] = [kind |-> k, target |-> t, purpose |-> p,
                                         guess |-> g, at |-> now]]
             /\ pc' = [pc EXCEPT ![d] = IF k = "request" THEN "cooldown" ELSE "find"]
             /\ pc[d] = "new" /\ before' = [before EXCEPT ![d] = Done]
             /\ UNCHANGED <<code, work, now, reply>>
      BY <1>4 DEF Begun
    <2>2. /\ op'[d].target = t /\ op'[d].purpose = p /\ op'[d].at = now
          /\ pc'[d] # "new" /\ before'[d] = Done /\ now' = now
      BY <2>1 DEF TypeOK
    <2>3. d \notin Done
      BY <2>1 DEF Done
    <2>4. QED
      BY <1>2, <2>1, <2>2, <2>3, TimePasses DEF Asked
  <1>5. CASE pc[d] = "new" /\ Still(d)
    BY <1>1, <1>2, <1>5, TimePasses DEF Asked, Still
  <1>6. QED
    BY <1>3, <1>4, <1>5, OneMoves DEF Moves, CheckCooldown, CheckDaily, Save, Send, Find, Count,
                                      Consume, Fail, Running

LEMMA PlacedStep ==
    ASSUME TypeOK, Control, [Next]_vars, NEW d \in Calls
    PROVE  Placed(d)'
  <1> USE DEF Goto, Return, Executed
  <1>1. Placed(d)
    BY DEF Control
  <1>2. CASE Save(d)
    <2>1. /\ op' = op /\ op[d].kind = "request" /\ reply[d] = "none"
          /\ code'[d].target = op[d].target /\ code'[d].purpose = op[d].purpose
      BY <1>1, <1>2 DEF Save, TypeOK, Placed
    <2>2. (pc'[d] = "send" /\ reply'[d] = "none") \/ (pc'[d] = "done" /\ reply'[d] = "failed")
      BY <1>2, <2>1 DEF Save, TypeOK
    <2>3. QED
      BY <2>1, <2>2 DEF Placed
  <1>3. CASE ~Save(d)
    <2>1. /\ code'[d].exists = code[d].exists /\ code'[d].target = code[d].target
          /\ code'[d].purpose = code[d].purpose
      BY <1>3, RowChange DEF Grows
    <2>2. CASE Still(d)
      BY <1>1, <2>1, <2>2 DEF Still, Placed
    <2>3. CASE Begun(d)
      <3>1. PICK k \in {"request", "verify"} :
               /\ op'[d].kind = k /\ pc'[d] = IF k = "request" THEN "cooldown" ELSE "find"
               /\ pc[d] = "new" /\ reply' = reply
        BY <2>3 DEF Begun, TypeOK
      <3>2. ~code[d].exists /\ reply[d] = "none"
        BY <1>1, <3>1 DEF Placed
      <3>3. QED
        BY <2>1, <3>1, <3>2 DEF Placed
    <2>4. CASE CheckCooldown(d) \/ Send(d) \/ Fail(d)
      BY <1>1, <2>1, <2>4 DEF CheckCooldown, Send, Fail, TypeOK, Placed, Running
    <2>5. CASE CheckDaily(d)
      BY <1>1, <2>1, <2>5 DEF CheckDaily, TypeOK, Placed
    <2>6. CASE Find(d)
      <3>1. op' = op /\ pc[d] = "find" /\ reply[d] = "none" /\ op[d].kind = "verify"
        BY <1>1, <2>6 DEF Find, Placed
      <3>2. \/ pc'[d] \in {"count", "consume"} /\ reply'[d] = "none"
            \/ pc'[d] = "done" /\ reply'[d] = "invalid"
        BY <2>6, <3>1 DEF Find, TypeOK
      <3>3. QED
        BY <1>1, <2>1, <3>1, <3>2 DEF Placed
    <2>7. CASE Count(d) \/ Consume(d)
      BY <1>1, <2>1, <2>7 DEF Count, Consume, TypeOK, Placed
    <2>8. QED
      BY <1>3, <2>2, <2>3, <2>4, <2>5, <2>6, <2>7, OneMoves DEF Moves
  <1>4. QED
    BY <1>2, <1>3

\* Verify reads a code: it is not consumed, has not expired, and is not locked.
Reading(c, d) ==
    /\ pc[c] = "find" /\ reply[c] = "none" /\ op[c].kind = "verify"
    /\ d \in Unconsumed(c) /\ now <= code[d].expires /\ code[d].attempts < MaxAttempts
    /\ work'[c].code = d
    /\ pc'[c] = IF code[d].value = op[c].guess THEN "consume" ELSE "count"
    /\ reply'[c] = "none"
    /\ code' = code /\ op' = op /\ before' = before

LEMMA FindReads ==
    ASSUME TypeOK, Control, NEW c \in Calls, Find(c)
    PROVE  \/ work'[c] = work[c] /\ pc'[c] = "done" /\ reply'[c] = "invalid"
           \/ \E d \in Calls : Reading(c, d)
  <1> USE DEF Goto, Return
  <1>1. pc[c] = "find" /\ reply[c] = "none" /\ op[c].kind = "verify"
          /\ code' = code /\ op' = op /\ before' = before
    BY DEF Find, Control, Placed
  <1>2. CASE work' = work /\ Return(c, "invalid")
    BY <1>2 DEF TypeOK
  <1>3. ASSUME NEW d \in Unconsumed(c), ~(now > code[d].expires \/ code[d].attempts >= MaxAttempts),
               work' = [work EXCEPT ![c].code = d],
               Goto(c, IF code[d].value = op[c].guess THEN "consume" ELSE "count")
        PROVE  \E x \in Calls : Reading(c, x)
    <2>1. d \in Calls /\ code[d] \in Code
      BY DEF Unconsumed, Issued, TypeOK
    <2>2. now <= code[d].expires /\ code[d].attempts < MaxAttempts
      BY <1>3, <2>1, OtpAssumption DEF Code, TypeOK
    <2>3. work'[c].code = d
      BY <1>3 DEF TypeOK, Work
    <2>4. pc'[c] = IF code[d].value = op[c].guess THEN "consume" ELSE "count"
      BY <1>3 DEF TypeOK
    <2>5. QED
      BY <1>1, <1>3, <2>1, <2>2, <2>3, <2>4 DEF Reading
  <1>4. QED
    BY <1>2, <1>3 DEF Find

\* A code that has been read stays what it was, but for being consumed and missed.
LEMMA ReadKept ==
    ASSUME TypeOK, Control, [Next]_vars, NEW c \in Calls, work[c].code # None
    PROVE  /\ work[c].code \in Calls /\ op'[c] = op[c]
           /\ work[c].code \in Issued(c)'
           /\ Grows(code[work[c].code], code'[work[c].code])
  <1>1. work[c].code \in Calls /\ work[c].code \in Issued(c) /\ pc[c] # "new"
    BY DEF Control, Reads, Issued
  <1>2. code[work[c].code].exists
    BY <1>1 DEF Issued
  <1>3. Grows(code[work[c].code], code'[work[c].code]) /\ op'[c] = op[c]
    BY <1>1, <1>2, RowKept, BegunKept
  <1>4. QED
    BY <1>1, <1>3 DEF Issued, Grows

LEMMA ReadsStep ==
    ASSUME TypeOK, Control, [Next]_vars, NEW c \in Calls
    PROVE  Reads(c)'
  <1> USE DEF Goto, Return, Executed
  <1>1. Asked(c) /\ Placed(c) /\ Reads(c)
    BY DEF Control
  <1> DEFINE x == work[c].code
  <1>2. x # None => /\ x \in Calls /\ op'[c] = op[c] /\ x \in Issued(c)'
                    /\ Grows(code[x], code'[x])
    BY ReadKept
  \* It is enough that the code is the one it was, and where the call goes.
  <1>3. ASSUME work'[c].code = x,
               pc'[c] \in {"count", "consume"} => pc'[c] = pc[c],
               x # None => pc'[c] \in {"count", "consume", "done"},
               op'[c].kind = "verify" /\ reply'[c] = "ok" =>
                  x # None /\ code'[x].consumed /\ (pc[c] = "consume" \/ reply[c] = "ok")
        PROVE  Reads(c)'
    <2>1. pc'[c] \in {"count", "consume"} => x # None
      BY <1>1, <1>3 DEF Reads
    <2>2. x # None => /\ op'[c].kind = "verify" /\ op'[c].at <= code'[x].expires
                      /\ ((pc'[c] = "consume" \/ reply'[c] = "ok")
                            => code'[x].value = op'[c].guess)
      BY <1>1, <1>2, <1>3 DEF Reads, Grows
    <2>3. QED
      BY <1>2, <1>3, <2>1, <2>2 DEF Reads
  <1>4. CASE Still(c)
    <2>1. op'[c].kind = "verify" /\ reply'[c] = "ok" => x # None /\ code'[x].consumed
      BY <1>1, <1>2, <1>4 DEF Still, Reads, Grows
    <2>2. QED
      BY <1>1, <1>3, <1>4, <2>1 DEF Still, Reads
  <1>5. CASE Begun(c)
    <2>1. pc[c] = "new" /\ reply[c] = "none" /\ x = None
      BY <1>1, <1>5 DEF Begun, Placed, Reads
    <2>2. work' = work /\ reply' = reply /\ pc'[c] \in {"cooldown", "find"}
      BY <1>5 DEF Begun, TypeOK
    <2>3. QED
      BY <1>3, <2>1, <2>2
  <1>6. CASE Find(c)
    <2>1. CASE \E d \in Calls : Reading(c, d)
      <3>1. PICK d \in Calls : Reading(c, d)
        BY <2>1
      <3>2. d \in Issued(c)' /\ d # None
        BY <3>1, OtpAssumption DEF Reading, Unconsumed, Issued
      <3>3. op[c].at <= code[d].expires
        BY <1>1, <3>1, OtpAssumption DEF Reading, Asked, TypeOK, Op, Code
      <3>4. QED
        BY <3>1, <3>2, <3>3 DEF Reading, Reads
    <2>2. CASE work'[c] = work[c] /\ pc'[c] = "done" /\ reply'[c] = "invalid"
      BY <1>3, <2>2
    <2>3. QED
      BY <1>6, <2>1, <2>2, FindReads
  <1>7. CASE CheckCooldown(c) \/ Send(c) \/ Save(c)
    <2>1. op[c].kind = "request" /\ x = None /\ work' = work /\ op' = op
      BY <1>1, <1>7 DEF CheckCooldown, Send, Save, Placed, Reads
    <2>2. pc'[c] \in {"daily", "send", "done"}
      BY <1>7 DEF CheckCooldown, Send, Save, TypeOK
    <2>3. QED
      BY <1>3, <2>1, <2>2
  <1>8. CASE CheckDaily(c)
    <2>1. op[c].kind = "request" /\ x = None /\ op' = op /\ pc'[c] \in {"save", "done"}
      BY <1>1, <1>8 DEF CheckDaily, Placed, Reads, TypeOK
    <2>2. work'[c].code = x
      BY <1>8 DEF CheckDaily, TypeOK, Work
    <2>3. QED
      BY <1>3, <2>1, <2>2
  <1>9. CASE Count(c)
    <2>1. pc'[c] = "done" /\ reply'[c] # "ok" /\ work' = work
      BY <1>9 DEF Count, TypeOK
    <2>2. QED
      BY <1>3, <2>1
  <1>10. CASE Consume(c)
    <2>1. pc'[c] = "done" /\ work' = work /\ pc[c] = "consume"
      BY <1>10 DEF Consume, TypeOK
    <2>2. x # None /\ x \in Calls
      BY <1>1, <1>2, <2>1 DEF Reads
    <2>3. code'[x].consumed
      BY <1>10, <2>2 DEF Consume, TypeOK, Code
    <2>4. QED
      BY <1>3, <2>1, <2>2, <2>3
  <1>11. CASE Fail(c)
    <2>1. pc'[c] = "done" /\ reply'[c] = "failed" /\ work' = work
      BY <1>11 DEF Fail, TypeOK
    <2>2. QED
      BY <1>3, <2>1
  <1>12. QED
    BY <1>4, <1>5, <1>6, <1>7, <1>8, <1>9, <1>10, <1>11, OneMoves DEF Moves

LEMMA ControlStep ==
    ASSUME TypeOK, Control, [Next]_vars
    PROVE  Control'
  <1>1. \A c \in Calls : Asked(c)' /\ Placed(c)' /\ Reads(c)'
    BY AskedStep, PlacedStep, ReadsStep
  <1>2. QED
    BY <1>1 DEF Control

-----------------------------------------------------------------------------
(* Guesses.                                                                *)

LEMMA FiniteCalls ==
    ASSUME NEW S \in SUBSET Calls
    PROVE  IsFiniteSet(S) /\ Cardinality(S) \in Nat
  BY OtpAssumption, FS_Subset, FS_CardinalityType

LEMMA SmallerCount ==
    ASSUME NEW S \in SUBSET Calls, NEW T \in SUBSET S
    PROVE  Cardinality(T) <= Cardinality(S)
  BY FiniteCalls, FS_Subset

\* A miss is counted before it is reported.
LEMMA NewMiss ==
    ASSUME TypeOK, Control, [Next]_vars, NEW d \in Calls, NEW c \in Misses(d)', c \notin Misses(d)
    PROVE  Count(c) /\ work[c].code = d
  <1> USE DEF Goto, Return, Executed
  <1>1. c \in Calls /\ op'[c].kind = "verify" /\ reply'[c] = "invalid" /\ work'[c].code = d
          /\ d # None
    BY OtpAssumption DEF Misses
  <1>2. Placed(c) /\ Reads(c)
    BY <1>1 DEF Control
  <1>3. ASSUME Still(c)
        PROVE  FALSE
    BY <1>1, <1>3 DEF Still, Misses
  <1>4. ASSUME Begun(c)
        PROVE  FALSE
    BY <1>1, <1>2, <1>4 DEF Begun, Placed
  <1>5. ASSUME Find(c)
        PROVE  FALSE
    BY <1>1, <1>2, <1>5, FindReads DEF Reading, Find, Reads
  <1>6. ASSUME CheckCooldown(c) \/ CheckDaily(c) \/ Send(c) \/ Save(c) \/ Fail(c) \/ Consume(c)
        PROVE  FALSE
    BY <1>1, <1>2, <1>6
       DEF CheckCooldown, CheckDaily, Send, Save, Fail, Consume, TypeOK, Placed
  <1>7. Count(c)
    BY <1>1, <1>3, <1>4, <1>5, <1>6, OneMoves DEF Moves
  <1>8. QED
    BY <1>1, <1>7 DEF Count

LEMMA MissesCountedStep ==
    ASSUME TypeOK, Control, MissesCounted, [Next]_vars
    PROVE  MissesCounted'
  <1>1. SUFFICES ASSUME NEW d \in Calls
                 PROVE  code'[d].attempts >= Cardinality(Misses(d)')
    BY DEF MissesCounted
  <1>2. Misses(d) \in SUBSET Calls /\ Misses(d)' \in SUBSET Calls
    BY DEF Misses
  <1>3. /\ Cardinality(Misses(d)) \in Nat /\ Cardinality(Misses(d)') \in Nat
        /\ IsFiniteSet(Misses(d))
    BY <1>2, FiniteCalls
  <1>4. /\ code[d] \in Code /\ code[d].attempts \in Nat
        /\ code'[d] \in Code /\ code'[d].attempts \in Nat
    BY TypeStep DEF TypeOK, Code
  <1>5. code[d].attempts >= Cardinality(Misses(d))
    BY DEF MissesCounted
  <1>6. CASE Misses(d)' \subseteq Misses(d)
    <2>1. Cardinality(Misses(d)') <= Cardinality(Misses(d))
      BY <1>2, <1>6, SmallerCount
    <2>2. CASE Save(d)
      <3>1. ~code[d].exists
        BY <2>2 DEF Save, Control, Placed
      <3>2. Misses(d) = {}
        BY <3>1, OtpAssumption DEF Misses, Control, Reads, Issued
      <3>3. Cardinality(Misses(d)') = 0
        BY <1>3, <2>1, <3>2, FS_EmptySet
      <3>4. QED
        BY <1>4, <3>3
    <2>3. CASE Grows(code[d], code'[d])
      BY <1>3, <1>4, <1>5, <2>1, <2>3 DEF Grows
    <2>4. QED
      BY <2>2, <2>3, RowChange
  <1>7. ASSUME NEW c \in Misses(d)', c \notin Misses(d)
        PROVE  code'[d].attempts >= Cardinality(Misses(d)')
    <2>1. Count(c) /\ work[c].code = d /\ c \in Calls
      BY <1>2, <1>7, NewMiss
    <2>2. code'[d].attempts = code[d].attempts + 1
      BY <2>1 DEF Count, TypeOK, Code
    <2>3. \A e \in Misses(d)' : e \in Misses(d) \/ e = c
      <3>1. SUFFICES ASSUME NEW e \in Misses(d)', e \notin Misses(d), e # c
                     PROVE  FALSE
        OBVIOUS
      <3>2. Count(e) /\ e \in Calls
        BY <1>2, <3>1, NewMiss
      <3>3. QED
        BY <2>1, <3>1, <3>2 DEF Count, Executed, Return, TypeOK
    <2>4. /\ Cardinality(Misses(d) \cup {c}) = Cardinality(Misses(d)) + 1
          /\ Misses(d) \cup {c} \in SUBSET Calls
      BY <1>2, <1>3, <1>7, <2>1, FS_AddElement
    <2>5. Cardinality(Misses(d)') <= Cardinality(Misses(d) \cup {c})
      BY <2>3, <2>4, SmallerCount
    <2>6. QED
      BY <1>3, <1>4, <1>5, <2>2, <2>4, <2>5
  <1>8. QED
    BY <1>6, <1>7

\* Only Verify's first statement chooses the code it works on.
LEMMA ReadingNow ==
    ASSUME TypeOK, Control, [Next]_vars, NEW c \in Calls, work'[c].code # work[c].code
    PROVE  \E d \in Calls : Reading(c, d)
  <1>1. ASSUME CheckDaily(c)
        PROVE  FALSE
    BY <1>1 DEF CheckDaily, TypeOK, Work
  <1>2. Find(c)
    BY <1>1, OneMoves
       DEF Still, Moves, Begun, CheckCooldown, Send, Save, Count, Consume, Fail
  <1>3. QED
    BY <1>2, FindReads

LEMMA FreshStep ==
    ASSUME TypeOK, Control, MissesCounted, Fresh, [Next]_vars
    PROVE  Fresh'
  <1>1. SUFFICES ASSUME NEW c \in Calls, work'[c].code # None
                 PROVE  /\ \A d \in Accepted' \cap before'[c] : work'[d].code # work'[c].code
                        /\ Cardinality((Misses(work[c].code) \cap before[c])') < MaxAttempts
    BY DEF Fresh
  <1> DEFINE x == work'[c].code
  <1>2. pc[c] # "new"
    BY <1>1, OneMoves
       DEF Still, Moves, Begun, CheckCooldown, CheckDaily, Save, Send, Find, Count, Consume,
           Fail, Running, Control, Reads
  <1>3. before'[c] = before[c]
    BY <1>2, BegunKept
  <1>4. \A d \in before[c] : d \in Calls /\ d \in Done /\ Still(d)
    BY DoneStays DEF Control, Asked, Done
  <1>5. /\ Accepted' \cap before'[c] = Accepted \cap before[c]
        /\ \A y : Misses(y)' \cap before'[c] = Misses(y) \cap before[c]
    BY <1>3, <1>4 DEF Accepted, Misses, Still
  <1>6. ASSUME \A d \in Accepted \cap before[c] : work[d].code # x,
               Cardinality(Misses(x) \cap before[c]) < MaxAttempts
        PROVE  /\ \A d \in Accepted' \cap before'[c] : work'[d].code # work'[c].code
               /\ Cardinality((Misses(work[c].code) \cap before[c])') < MaxAttempts
    <2>1. \A d \in Accepted \cap before[c] : work'[d].code = work[d].code
      BY <1>4 DEF Still
    <2>2. (Misses(work[c].code) \cap before[c])' = Misses(x) \cap before[c]
      BY <1>5 DEF Misses
    <2>3. QED
      BY <1>5, <1>6, <2>1, <2>2
  <1>7. CASE work'[c].code = work[c].code
    BY <1>1, <1>6, <1>7 DEF Fresh
  <1>8. CASE work'[c].code # work[c].code
    <2>1. Reading(c, x) /\ x \in Calls
      BY <1>8, ReadingNow DEF Reading
    <2>2. \A d \in Accepted \cap before[c] : work[d].code # x
      BY <2>1 DEF Reading, Unconsumed, Accepted, Control, Reads
    <2>3. Cardinality(Misses(x) \cap before[c]) <= Cardinality(Misses(x))
      BY SmallerCount DEF Misses
    <2>4. /\ Cardinality(Misses(x)) \in Nat
          /\ Cardinality(Misses(x) \cap before[c]) \in Nat
      BY FiniteCalls DEF Misses
    <2>5. code[x].attempts \in Nat /\ code[x].attempts < MaxAttempts
            /\ code[x].attempts >= Cardinality(Misses(x))
      BY <2>1 DEF Reading, MissesCounted, TypeOK, Code
    <2>6. Cardinality(Misses(x) \cap before[c]) < MaxAttempts
      BY <2>3, <2>4, <2>5, OtpAssumption
    <2>7. QED
      BY <1>6, <2>2, <2>6
  <1>9. QED
    BY <1>7, <1>8

-----------------------------------------------------------------------------
(* Limits.                                                                 *)

LEMMA TimesAreNat ==
    ASSUME TypeOK, NEW c \in Calls
    PROVE  code[c].created \in Nat /\ op[c].at \in Nat /\ now \in Nat
             /\ Cooldown \in Nat /\ Day \in Nat /\ DailyLimit \in Nat
  BY OtpAssumption DEF TypeOK, Code, Op

\* The codes of the requests that had returned, as they were when the call began.
LEMMA EarlierCodes ==
    ASSUME TypeOK, Control, [Next]_vars, NEW e \in Calls, pc[e] # "new"
    PROVE  /\ op'[e] = op[e]
           /\ \A d \in Calls : d \in before'[e] /\ d \in Issued(e)' =>
                 d \in before[e] \cap Issued(e) /\ code'[d].created = code[d].created
           /\ \A t : {d \in before'[e] \cap Issued(e)' : code'[d].created + Day >= t}
                        = OfTheDay(e, t)
  <1>1. before'[e] \cap Issued(e)' = before[e] \cap Issued(e)
          /\ (\A d \in before[e] : code'[d].created = code[d].created)
          /\ op'[e] = op[e]
    BY EarlierKept, BegunKept
  <1>2. QED
    BY <1>1 DEF OfTheDay

LEMMA CooledStep ==
    ASSUME TypeOK, Control, Cooled, [Next]_vars
    PROVE  Cooled'
  <1> USE DEF Goto, Return, Executed
  <1>1. SUFFICES ASSUME NEW e \in Calls, pc'[e] \in {"daily", "save"}, Cooldown > 0,
                        NEW d \in Calls, d \in before'[e], d \in Issued(e)'
                 PROVE  code'[d].created + Cooldown < op'[e].at
    BY DEF Cooled, Issued
  <1>2. CASE Still(e) \/ CheckDaily(e)
    <2>1. pc[e] \in {"daily", "save"}
      BY <1>1, <1>2 DEF Still, CheckDaily
    <2>2. QED
      BY <1>1, <2>1, EarlierCodes DEF Cooled
  <1>3. CASE CheckCooldown(e)
    <2>1. ~(CountSince(e, op[e].at - Cooldown) > 0)
      BY <1>1, <1>3 DEF CheckCooldown, TypeOK
    <2>2. {x \in Issued(e) : code[x].created >= op[e].at - Cooldown} = {}
      <3> DEFINE S == {x \in Issued(e) : code[x].created >= op[e].at - Cooldown}
      <3>1. S \in SUBSET Calls
        BY DEF Issued
      <3>2. IsFiniteSet(S) /\ Cardinality(S) \in Nat
        BY <3>1, FiniteCalls
      <3>3. Cardinality(S) = 0
        BY <2>1, <3>2 DEF CountSince
      <3>4. QED
        BY <3>2, <3>3, FS_EmptySet
    <2>3. pc[e] # "new"
      BY <1>3 DEF CheckCooldown
    <2>4. d \in Issued(e) /\ code'[d].created = code[d].created /\ op'[e] = op[e]
      BY <1>1, <2>3, EarlierCodes
    <2>5. ~(code[d].created >= op[e].at - Cooldown)
      BY <2>2, <2>4
    <2>6. /\ code[d].created \in Nat /\ op[e].at \in Nat /\ Cooldown \in Nat
      BY TimesAreNat
    <2>7. QED
      BY <2>4, <2>5, <2>6
  <1>4. ASSUME Begun(e)
        PROVE  FALSE
    BY <1>1, <1>4 DEF Begun, TypeOK
  <1>5. ASSUME Find(e)
        PROVE  FALSE
    BY <1>1, <1>5, FindReads DEF Reading
  <1>6. ASSUME Save(e) \/ Send(e) \/ Count(e) \/ Consume(e) \/ Fail(e)
        PROVE  FALSE
    BY <1>1, <1>6 DEF Save, Send, Count, Consume, Fail, TypeOK
  <1>7. QED
    BY <1>2, <1>3, <1>4, <1>5, <1>6, OneMoves DEF Moves

\* A code that is there was there before, with the same creation time, or is saved now.
LEMMA CodeIsThere ==
    ASSUME TypeOK, Control, [Next]_vars, NEW e \in Calls, code'[e].exists
    PROVE  /\ pc[e] # "new"
           /\ \/ code[e].exists /\ code'[e].created = code[e].created
              \/ pc[e] = "save" /\ code'[e].created = now
  <1>1. CASE Save(e)
    BY <1>1 DEF Save, TypeOK, Code
  <1>2. CASE Grows(code[e], code'[e])
    BY <1>2 DEF Grows, Control, Placed
  <1>3. QED
    BY <1>1, <1>2, RowChange

LEMMA CooldownStep ==
    ASSUME TypeOK, Control, Cooled, CooldownKept, [Next]_vars
    PROVE  CooldownKept'
  <1>1. SUFFICES ASSUME NEW d \in Calls, NEW e \in Calls, d \in before'[e], code'[e].exists,
                        d \in Issued(e)', Cooldown > 0
                 PROVE  code'[e].created > code'[d].created + Cooldown
    BY DEF CooldownKept
  <1>2. d \in before[e] \cap Issued(e) /\ code'[d].created = code[d].created
    BY <1>1, CodeIsThere, EarlierCodes
  <1>3. CASE code[e].exists /\ code'[e].created = code[e].created
    BY <1>1, <1>2, <1>3 DEF CooldownKept
  <1>4. CASE pc[e] = "save" /\ code'[e].created = now
    <2>1. code[d].created + Cooldown < op[e].at
      BY <1>1, <1>2, <1>4 DEF Cooled
    <2>2. op[e].at <= now
      BY DEF Control, Asked
    <2>3. /\ code[d].created \in Nat /\ op[e].at \in Nat /\ Cooldown \in Nat /\ now \in Nat
      BY TimesAreNat
    <2>4. QED
      BY <1>2, <1>4, <2>1, <2>2, <2>3
  <1>5. QED
    BY <1>1, <1>3, <1>4, CodeIsThere

LEMMA CountedStep ==
    ASSUME TypeOK, Control, Counted, [Next]_vars
    PROVE  Counted'
  <1> USE DEF Goto, Return, Executed
  <1>1. SUFFICES ASSUME NEW e \in Calls, pc'[e] = "save", DailyLimit > 0
                 PROVE  Cardinality({d \in before'[e] \cap Issued(e)' :
                                        code'[d].created + Day >= op'[e].at}) < DailyLimit
    BY DEF Counted, OfTheDay
  <1>2. ASSUME pc[e] # "new", Cardinality(OfTheDay(e, op[e].at)) < DailyLimit
        PROVE  Cardinality({d \in before'[e] \cap Issued(e)' :
                                        code'[d].created + Day >= op'[e].at}) < DailyLimit
    BY <1>2, EarlierCodes
  <1>3. CASE Still(e)
    <2>1. pc[e] = "save"
      BY <1>1, <1>3 DEF Still
    <2>2. QED
      BY <1>1, <1>2, <2>1 DEF Counted
  <1>4. CASE CheckDaily(e)
    <2>1. ~(CountSince(e, op[e].at - Day) >= DailyLimit)
      BY <1>1, <1>4 DEF CheckDaily, TypeOK
    <2> DEFINE S == {x \in Issued(e) : code[x].created >= op[e].at - Day}
    <2>2. S \in SUBSET Calls /\ OfTheDay(e, op[e].at) \in SUBSET S
      BY TimesAreNat DEF Issued, OfTheDay
    <2>3. /\ Cardinality(OfTheDay(e, op[e].at)) <= Cardinality(S)
          /\ Cardinality(S) \in Nat /\ Cardinality(OfTheDay(e, op[e].at)) \in Nat
      BY <2>2, SmallerCount, FiniteCalls
    <2>4. Cardinality(S) < DailyLimit
      BY <2>1, <2>3, OtpAssumption DEF CountSince
    <2>5. Cardinality(OfTheDay(e, op[e].at)) < DailyLimit
      BY <2>3, <2>4, OtpAssumption
    <2>6. QED
      BY <1>2, <1>4, <2>5 DEF CheckDaily
  <1>5. ASSUME Begun(e)
        PROVE  FALSE
    BY <1>1, <1>5 DEF Begun, TypeOK
  <1>6. ASSUME Find(e)
        PROVE  FALSE
    BY <1>1, <1>6, FindReads DEF Reading
  <1>7. ASSUME CheckCooldown(e) \/ Save(e) \/ Send(e) \/ Count(e) \/ Consume(e) \/ Fail(e)
        PROVE  FALSE
    BY <1>1, <1>7 DEF CheckCooldown, Save, Send, Count, Consume, Fail, TypeOK
  <1>8. QED
    BY <1>3, <1>4, <1>5, <1>6, <1>7, OneMoves DEF Moves

LEMMA DailyStep ==
    ASSUME TypeOK, Control, Counted, DailyLimitKept, [Next]_vars
    PROVE  DailyLimitKept'
  <1>1. SUFFICES ASSUME NEW e \in Calls, code'[e].exists, DailyLimit > 0
                 PROVE  Cardinality({d \in before'[e] \cap Issued(e)' :
                                        code'[d].created + Day >= code'[e].created}) < DailyLimit
    BY DEF DailyLimitKept
  <1>2. {d \in before'[e] \cap Issued(e)' : code'[d].created + Day >= code'[e].created}
           = OfTheDay(e, code'[e].created)
    BY <1>1, CodeIsThere, EarlierCodes
  <1>3. CASE code[e].exists /\ code'[e].created = code[e].created
    <2>1. Cardinality(OfTheDay(e, code[e].created)) < DailyLimit
      BY <1>1, <1>3 DEF DailyLimitKept, OfTheDay
    <2>2. QED
      BY <1>2, <1>3, <2>1
  <1>4. CASE pc[e] = "save" /\ code'[e].created = now
    <2>1. Cardinality(OfTheDay(e, op[e].at)) < DailyLimit
      BY <1>1, <1>4 DEF Counted
    <2>2. op[e].at <= now
      BY DEF Control, Asked
    <2>3. /\ OfTheDay(e, op[e].at) \in SUBSET Calls
          /\ OfTheDay(e, now) \in SUBSET OfTheDay(e, op[e].at)
      BY <2>2, TimesAreNat DEF OfTheDay, Issued
    <2>4. /\ Cardinality(OfTheDay(e, now)) <= Cardinality(OfTheDay(e, op[e].at))
          /\ Cardinality(OfTheDay(e, now)) \in Nat /\ Cardinality(OfTheDay(e, op[e].at)) \in Nat
      BY <2>3, SmallerCount, FiniteCalls
    <2>5. Cardinality(OfTheDay(e, now)) < DailyLimit
      BY <2>1, <2>4, OtpAssumption
    <2>6. QED
      BY <1>2, <1>4, <2>5
  <1>5. QED
    BY <1>1, <1>3, <1>4, CodeIsThere

-----------------------------------------------------------------------------
(* The invariant holds in every state, and what it implies.                *)

LEMMA InitInv ==
    ASSUME Init
    PROVE  IInv
  <1>1. NoCode \in Code /\ NoOp \in Op /\ NoWork \in Work /\ 0 \in 0..Horizon
    BY OtpAssumption DEF NoCode, Code, NoOp, Op, NoWork, Work
  <1>2. TypeOK
    BY <1>1 DEF Init, TypeOK, Replies
  <1>3. \A c \in Calls : /\ ~code[c].exists /\ code[c].attempts = 0 /\ pc[c] = "new"
                         /\ op[c].at = 0 /\ op[c].kind = "request" /\ work[c].code = None
                         /\ reply[c] = "none" /\ before[c] = {}
    BY DEF Init, NoCode, NoOp, NoWork
  <1>4. now = 0
    BY DEF Init
  <1>5. Control
    BY <1>3, <1>4 DEF Control, Asked, Placed, Reads
  <1>6. \A d : Misses(d) = {}
    BY <1>3 DEF Misses
  <1>7. MissesCounted
    BY <1>3, <1>6, FS_EmptySet DEF MissesCounted
  <1>8. Fresh /\ Cooled /\ CooldownKept /\ Counted /\ DailyLimitKept
    BY <1>3 DEF Fresh, Cooled, CooldownKept, Counted, DailyLimitKept
  <1>9. QED
    BY <1>2, <1>5, <1>7, <1>8 DEF IInv

LEMMA StepInv ==
    ASSUME IInv, [Next]_vars
    PROVE  IInv'
  <1>1. TypeOK' /\ Control'
    BY TypeStep, ControlStep DEF IInv
  <1>2. MissesCounted' /\ Fresh'
    BY MissesCountedStep, FreshStep DEF IInv
  <1>3. Cooled' /\ CooldownKept' /\ Counted' /\ DailyLimitKept'
    BY CooledStep, CooldownStep, CountedStep, DailyStep DEF IInv
  <1>4. QED
    BY <1>1, <1>2, <1>3 DEF IInv

LEMMA InvImplies ==
    ASSUME IInv
    PROVE  AcceptedInGoodFaith /\ LockedOut
  <1>1. ASSUME NEW c \in Accepted
        PROVE  /\ work[c].code \in Issued(c) /\ code[work[c].code].value = op[c].guess
               /\ code[work[c].code].consumed /\ op[c].at <= code[work[c].code].expires
               /\ work[c].code # None
    BY <1>1 DEF Accepted, IInv, Control, Reads
  <1>2. QED
    BY <1>1 DEF AcceptedInGoodFaith, LockedOut, IInv, Fresh, Accepted

\* The invariant holds in every state the calls can reach.
THEOREM Invariance == Spec => []IInv
  <1>1. Init => IInv
    BY InitInv
  <1>2. IInv /\ [Next]_vars => IInv'
    BY StepInv
  <1>3. QED
    BY <1>1, <1>2, PTL DEF Spec

\* Every state is well formed.
THEOREM TypeCorrect == Spec => []TypeOK
  <1>1. IInv => TypeOK
    BY DEF IInv
  <1>2. QED
    BY Invariance, <1>1, PTL

\* A guess is accepted only for a code of that value, sent to that target for that
\* purpose, that had not expired and that no call which had returned by then had used.
THEOREM GoodFaith == Spec => []AcceptedInGoodFaith
  <1>1. IInv => AcceptedInGoodFaith
    BY InvImplies
  <1>2. QED
    BY Invariance, <1>1, PTL

\* A guess made after MaxAttempts others have been told that they were wrong about the
\* code is not accepted, however many guesses run at once.
THEOREM Lockout == Spec => []LockedOut
  <1>1. IInv => LockedOut
    BY InvImplies
  <1>2. QED
    BY Invariance, <1>1, PTL

\* The count of a code's attempts is never behind the guesses that were told they were
\* wrong.
THEOREM NoMissIsLost == Spec => []MissesCounted
  <1>1. IInv => MissesCounted
    BY DEF IInv
  <1>2. QED
    BY Invariance, <1>1, PTL

\* Two codes for one target and purpose, the second requested after the first request had
\* returned, are more than the cooldown apart.
THEOREM CooldownHolds == Spec => []CooldownKept
  <1>1. IInv => CooldownKept
    BY DEF IInv
  <1>2. QED
    BY Invariance, <1>1, PTL

\* No code is saved when DailyLimit codes of requests that had returned are less than a
\* day older.
THEOREM DailyLimitHolds == Spec => []DailyLimitKept
  <1>1. IInv => DailyLimitKept
    BY DEF IInv
  <1>2. QED
    BY Invariance, <1>1, PTL

=============================================================================
