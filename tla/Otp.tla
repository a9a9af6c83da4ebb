-------------------------------- MODULE Otp --------------------------------
(***************************************************************************)
(* One-time codes: internal/otp/service.go on the verification_codes table *)
(* (repository.go, migrations 000002 and 000005).  As in the session       *)
(* package there is no transaction: each statement commits by itself.      *)
(*                                                                         *)
(* A code row is named by the RequestCode call that saves it.  Its value   *)
(* is drawn from Values; two codes may well have the same value.  Time is  *)
(* the clock now, which the service and the database share.                *)
(***************************************************************************)
EXTENDS Integers, FiniteSets

CONSTANTS
    Calls,        \* calls of RequestCode and Verify, each made once
    Targets,      \* phone numbers and email addresses
    Purposes,     \* login, password_reset, account_deletion, contact_bind
    Values,       \* values a code, or a guess, may have
    MaxAttempts,  \* maxVerifyAttempts
    TTL,          \* OTP_CODE_TTL
    Cooldown,     \* OTP_RESEND_COOLDOWN, 0 disables it
    Day,          \* the rolling window of the daily limit
    DailyLimit,   \* OTP_DAILY_LIMIT, 0 disables it
    Horizon,      \* bound: the last instant that is explored
    None          \* no code

ASSUME OtpAssumption ==
    /\ {MaxAttempts, TTL, Cooldown, Day, DailyLimit, Horizon} \subseteq Nat
    /\ MaxAttempts > 0 /\ TTL > 0
    /\ IsFiniteSet(Calls)
    /\ None \notin Calls \cup Values

VARIABLES
    code,     \* rows of verification_codes
    pc,       \* the statement each call executes next
    op,       \* what each call was asked, and when it began
    work,     \* locals: the code Verify has read, the expiry RequestCode has set
    reply,    \* what each call returned
    now,      \* the clock
    before    \* history: the calls that had returned when this one began

vars == <<code, pc, op, work, reply, now, before>>

-----------------------------------------------------------------------------
Code == [exists : BOOLEAN, target : Targets \cup {None}, purpose : Purposes \cup {None},
         value : Values \cup {None}, created : Nat, expires : Nat,
         consumed : BOOLEAN, attempts : Nat]
NoCode == [exists |-> FALSE, target |-> None, purpose |-> None, value |-> None,
           created |-> 0, expires |-> 0, consumed |-> FALSE, attempts |-> 0]

Op == [kind : {"request", "verify"}, target : Targets \cup {None},
       purpose : Purposes \cup {None}, guess : Values \cup {None}, at : Nat]
NoOp == [kind |-> "request", target |-> None, purpose |-> None, guess |-> None, at |-> 0]

Work == [code : Calls \cup {None}, expires : Nat]
NoWork == [code |-> None, expires |-> 0]

Replies == {"none", "ok", "invalid", "limited", "failed"}
Running == {"cooldown", "daily", "save", "send", "find", "count", "consume"}

Done == {d \in Calls : pc[d] = "done"}

\* The codes issued for the same target and purpose as call c asks for.
Issued(c) == {d \in Calls : code[d].exists /\ code[d].target = op[c].target
                                           /\ code[d].purpose = op[c].purpose}

\* Broken: consumed_at is not looked at.
Unconsumed_Any(c) == Issued(c)

\* Those of them that have not been consumed.
Unconsumed(c) == {d \in Issued(c) : ~code[d].consumed}

\* Broken: a code issued at the very instant is not counted.
CountSince_After(c, since) == Cardinality({d \in Issued(c) : code[d].created > since})

\* CountSince: codes issued at or after an instant.
CountSince(c, since) == Cardinality({d \in Issued(c) : code[d].created >= since})

Init ==
    /\ code = [c \in Calls |-> NoCode]
    /\ pc = [c \in Calls |-> "new"]
    /\ op = [c \in Calls |-> NoOp]
    /\ work = [c \in Calls |-> NoWork]
    /\ reply = [c \in Calls |-> "none"]
    /\ now = 0
    /\ before = [c \in Calls |-> {}]

-----------------------------------------------------------------------------
Goto(c, label) == pc' = [pc EXCEPT ![c] = label] /\ UNCHANGED reply

Return(c, r) == pc' = [pc EXCEPT ![c] = "done"] /\ reply' = [reply EXCEPT ![c] = r]

\* A statement has been executed, but its acknowledgement may be lost.
Executed(c, next) == next \/ Return(c, "failed")

Begin(c, kind, t, p, g, label) ==
    /\ pc[c] = "new"
    /\ op' = [op EXCEPT ![c] = [kind |-> kind, target |-> t, purpose |-> p,
                                guess |-> g, at |-> now]]
    /\ before' = [before EXCEPT ![c] = Done]
    /\ Goto(c, label)
    /\ UNCHANGED <<code, work, now>>

\* RequestCode(target, purpose); checkRateLimit takes its time.Now() first.
BeginRequest(c, t, p) == Begin(c, "request", t, p, None, "cooldown")

\* Verify(target, purpose, code).
BeginVerify(c, t, p, g) == Begin(c, "verify", t, p, g, "find")

CheckCooldown(c) ==
    /\ pc[c] = "cooldown"
    /\ IF Cooldown > 0 /\ CountSince(c, op[c].at - Cooldown) > 0
       THEN Return(c, "limited") ELSE Goto(c, "daily")
    /\ UNCHANGED <<code, op, work, now, before>>

\* Broken: the code after the last one is let through.
CheckDaily_OneMore(c) ==
    /\ pc[c] = "daily"
    /\ IF DailyLimit > 0 /\ CountSince(c, op[c].at - Day) > DailyLimit
       THEN Return(c, "limited") /\ UNCHANGED work
       ELSE Goto(c, "save") /\ work' = [work EXCEPT ![c].expires = now + TTL]
    /\ UNCHANGED <<code, op, now, before>>

\* The limits are passed: the code is generated and its expiry set from the clock.
CheckDaily(c) ==
    /\ pc[c] = "daily"
    /\ IF DailyLimit > 0 /\ CountSince(c, op[c].at - Day) >= DailyLimit
       THEN Return(c, "limited") /\ UNCHANGED work
       ELSE Goto(c, "save") /\ work' = [work EXCEPT ![c].expires = now + TTL]
    /\ UNCHANGED <<code, op, now, before>>

\* INSERT; created_at is the database's now().
Save(c) ==
    /\ pc[c] = "save"
    /\ \E v \in Values :
          code' = [code EXCEPT ![c] =
                     [exists |-> TRUE, target |-> op[c].target, purpose |-> op[c].purpose,
                      value |-> v, created |-> now, expires |-> work[c].expires,
                      consumed |-> FALSE, attempts |-> 0]]
    /\ Executed(c, Goto(c, "send"))
    /\ UNCHANGED <<op, work, now, before>>

\* The gateway takes the message or refuses it; a refused code stays in the table.
Send(c) ==
    /\ pc[c] = "send"
    /\ Executed(c, Return(c, "ok"))
    /\ UNCHANGED <<code, op, work, now, before>>

\* Broken: the number of attempts is not looked at.
Find_NoLock(c) ==
    /\ pc[c] = "find"
    /\ IF Unconsumed(c) = {}
       THEN Return(c, "invalid") /\ UNCHANGED work
       ELSE \E d \in Unconsumed(c) :
              /\ \A e \in Unconsumed(c) : code[e].created <= code[d].created
              /\ IF now > code[d].expires
                 THEN Return(c, "invalid") /\ UNCHANGED work
                 ELSE /\ work' = [work EXCEPT ![c].code = d]
                      /\ Goto(c, IF code[d].value = op[c].guess THEN "consume" ELSE "count")
    /\ UNCHANGED <<code, op, now, before>>

\* LatestUnconsumed, and the checks on what it read.
Find(c) ==
    /\ pc[c] = "find"
    /\ IF Unconsumed(c) = {}
       THEN Return(c, "invalid") /\ UNCHANGED work
       ELSE \E d \in Unconsumed(c) :
              /\ \A e \in Unconsumed(c) : code[e].created <= code[d].created
              /\ IF now > code[d].expires \/ code[d].attempts >= MaxAttempts
                 THEN Return(c, "invalid") /\ UNCHANGED work
                 ELSE /\ work' = [work EXCEPT ![c].code = d]
                      /\ Goto(c, IF code[d].value = op[c].guess THEN "consume" ELSE "count")
    /\ UNCHANGED <<code, op, now, before>>

\* Broken: the attempts that are left are counted down, without a floor.
Count_Down(c) ==
    /\ pc[c] = "count"
    /\ code' = [code EXCEPT ![work[c].code].attempts = @ - 1]
    /\ Executed(c, Return(c, "invalid"))
    /\ UNCHANGED <<op, work, now, before>>

\* Broken: the number read before (0) plus one is written back.
Count_WriteBack(c) ==
    /\ pc[c] = "count"
    /\ code' = [code EXCEPT ![work[c].code].attempts = 1]
    /\ Executed(c, Return(c, "invalid"))
    /\ UNCHANGED <<op, work, now, before>>

\* IncrementAttempts: the addition is made by the UPDATE.
Count(c) ==
    /\ pc[c] = "count"
    /\ code' = [code EXCEPT ![work[c].code].attempts = @ + 1]
    /\ Executed(c, Return(c, "invalid"))
    /\ UNCHANGED <<op, work, now, before>>

\* MarkConsumed: UPDATE by id, whether or not the row is consumed already.
Consume(c) ==
    /\ pc[c] = "consume"
    /\ code' = [code EXCEPT ![work[c].code].consumed = TRUE]
    /\ Executed(c, Return(c, "ok"))
    /\ UNCHANGED <<op, work, now, before>>

\* A statement is not executed: a database error, a cancelled request, a crash.
Fail(c) ==
    /\ pc[c] \in Running
    /\ Return(c, "failed")
    /\ UNCHANGED <<code, op, work, now, before>>

Tick ==
    /\ now < Horizon
    /\ now' = now + 1
    /\ UNCHANGED <<code, pc, op, work, reply, before>>

Start(c) ==
    \E t \in Targets, p \in Purposes :
        BeginRequest(c, t, p) \/ \E g \in Values : BeginVerify(c, t, p, g)

Advance(c) ==
    \/ CheckCooldown(c) \/ CheckDaily(c) \/ Save(c) \/ Send(c)
    \/ Find(c) \/ Count(c) \/ Consume(c)
    \/ Fail(c)

AllDone == Done = Calls /\ UNCHANGED vars

Next == (\E c \in Calls : Start(c) \/ Advance(c)) \/ Tick \/ AllDone

Spec == Init /\ [][Next]_vars

-----------------------------------------------------------------------------
(* Properties.                                                             *)

TypeOK ==
    /\ code \in [Calls -> Code]
    /\ pc \in [Calls -> Running \cup {"new", "done"}]
    /\ op \in [Calls -> Op]
    /\ work \in [Calls -> Work]
    /\ reply \in [Calls -> Replies]
    /\ now \in 0..Horizon
    /\ before \in [Calls -> SUBSET Calls]

\* Verify call c has accepted a code; it has found code d and refused the guess.
Accepted == {c \in Calls : op[c].kind = "verify" /\ reply[c] = "ok"}
Misses(d) == {c \in Calls : op[c].kind = "verify" /\ reply[c] = "invalid" /\ work[c].code = d}

\* What an accepted guess proves: a code with that value was issued to that target for
\* that purpose, had not expired when the guess was made, and had not been accepted
\* by any call that had returned by then (service.go:131, Verify 133-163).
AcceptedInGoodFaith ==
    \A c \in Accepted :
        /\ work[c].code \in Issued(c)
        /\ code[work[c].code].value = op[c].guess
        /\ code[work[c].code].consumed
        /\ op[c].at <= code[work[c].code].expires
        /\ \A d \in Accepted \cap before[c] : work[d].code # work[c].code

\* A code that MaxAttempts guesses have been told to be wrong lets no later guess in,
\* right or wrong, whatever those guesses and the lost updates between them.
LockedOut ==
    \A c \in Accepted : Cardinality(Misses(work[c].code) \cap before[c]) < MaxAttempts

\* No wrong guess goes uncounted: concurrent increments are not lost.
MissesCounted ==
    \A d \in Calls : code[d].attempts >= Cardinality(Misses(d))

\* Requests made one after the other keep the cooldown between the codes of one target
\* and purpose, wherever they are slow and whichever of them fail.
CooldownKept ==
    \A d, e \in Calls :
        (d \in before[e] /\ code[e].exists /\ d \in Issued(e) /\ Cooldown > 0)
            => code[e].created > code[d].created + Cooldown

\* And the daily limit: of the codes whose requests had returned when e's began, fewer
\* than DailyLimit are less than a day older than code e.
DailyLimitKept ==
    \A e \in Calls : code[e].exists /\ DailyLimit > 0 =>
        Cardinality({d \in before[e] \cap Issued(e) : code[d].created + Day >= code[e].created})
            < DailyLimit

-----------------------------------------------------------------------------
(* What the code and its documents say without that proviso.               *)

\* README.md:95: "Codes (verification_codes) are single-use and time-boxed".
SingleUse == \A c, d \in Accepted : work[c].code = work[d].code => c = d
=============================================================================
