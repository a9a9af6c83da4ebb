------------------------------ MODULE Session ------------------------------
(***************************************************************************)
(* Refresh tokens: internal/session/service.go on the refresh_tokens table *)
(* (repository.go, migration 000003).  The service opens no transaction:   *)
(* every SQL statement commits by itself and any other call may run        *)
(* between two statements of one call.                                     *)
(*                                                                         *)
(* A token is named by the call that mints it (its secret and its id are   *)
(* random), so a call of Issue or Rotate mints at most the token c.  The   *)
(* same service runs a second time, on admin_refresh_tokens, for the back  *)
(* office (admin/sessionrepo.go has the same four statements).             *)
(***************************************************************************)
EXTENDS Integers

CONSTANTS
    Calls,    \* calls of Issue, Rotate, Revoke and RevokeAll, each made once
    Users,    \* owners of tokens
    None      \* no token / no user

ASSUME SessionAssumption == None \notin Calls \cup Users

VARIABLES
    token,    \* rows of refresh_tokens, by token
    expired,  \* tokens whose expires_at has passed
    gone,     \* users whose row has been deleted (external to this package)
    pc,       \* the statement each call executes next
    op,       \* what each call was asked: kind, presented token, user
    reply,    \* what each call returned
    before    \* history: the calls that had returned when this one began

vars == <<token, expired, gone, pc, op, reply, before>>

-----------------------------------------------------------------------------
TokenStates == {"absent", "live", "revoked"}

Token == [state : TokenStates, user : Users \cup {None}]
NoToken == [state |-> "absent", user |-> None]

Kinds == {"issue", "rotate", "revoke", "revokeAll"}
Op == [kind : Kinds, token : Calls \cup {None}, user : Users \cup {None}]
NoOp == [kind |-> "issue", token |-> None, user |-> None]

Replies == {"none", "ok", "invalid", "failed"}
Running == {"find", "revokeOne", "revokeAll", "save"}

Live == {t \in Calls : token[t].state = "live"}
LiveOf(u) == {t \in Live : token[t].user = u}

\* A raw token a client holds: the one returned to it, or something else (None).
Held == {t \in Calls : reply[t] = "ok" /\ op[t].kind \in {"issue", "rotate"}} \cup {None}

Done == {d \in Calls : pc[d] = "done"}

Init ==
    /\ token = [c \in Calls |-> NoToken]
    /\ expired = {}
    /\ gone = {}
    /\ pc = [c \in Calls |-> "new"]
    /\ op = [c \in Calls |-> NoOp]
    /\ reply = [c \in Calls |-> "none"]
    /\ before = [c \in Calls |-> {}]

-----------------------------------------------------------------------------
Goto(c, label) == pc' = [pc EXCEPT ![c] = label] /\ UNCHANGED reply

Return(c, r) == pc' = [pc EXCEPT ![c] = "done"] /\ reply' = [reply EXCEPT ![c] = r]

\* A statement has been executed, but its acknowledgement may be lost: the call goes
\* on, or it reports an error for something that is done.
Executed(c, next) == next \/ Return(c, "failed")

Begin(c, kind, t, u, label) ==
    /\ pc[c] = "new"
    /\ op' = [op EXCEPT ![c] = [kind |-> kind, token |-> t, user |-> u]]
    /\ before' = [before EXCEPT ![c] = Done]
    /\ Goto(c, label)
    /\ UNCHANGED <<token, expired, gone>>

\* Broken: a login leaves the user's other tokens alone.
BeginIssue_KeepsOthers(c, u) == Begin(c, "issue", None, u, "save")

\* Issue(userID): a login.
BeginIssue(c, u) == Begin(c, "issue", None, u, "revokeAll")

\* Rotate(raw): a refresh.
BeginRotate(c, t) == Begin(c, "rotate", t, None, "find")

\* Revoke(raw): a logout.
BeginRevoke(c, t) == Begin(c, "revoke", t, None, "find")

\* RevokeAll(userID): logout everywhere, password reset, account deletion.
BeginRevokeAll(c, u) == Begin(c, "revokeAll", None, u, "revokeAll")

\* Broken: revoked_at is not looked at.
Find_AnyToken(c) ==
    LET t == op[c].token
        known == t # None /\ token[t].state # "absent" IN
    /\ pc[c] = "find"
    /\ IF known
       THEN op' = [op EXCEPT ![c].user = token[t].user] /\ Goto(c, "revokeOne")
       ELSE Return(c, "invalid") /\ UNCHANGED op
    /\ UNCHANGED <<token, expired, gone, before>>

\* FindByHash.  Rotate accepts only a live token that has not expired and learns its
\* owner; Revoke takes any row, and is satisfied when there is none.
Find(c) ==
    LET t == op[c].token
        known == t # None /\ token[t].state # "absent" IN
    /\ pc[c] = "find"
    /\ \/ /\ op[c].kind = "rotate"
          /\ IF known /\ token[t].state = "live" /\ t \notin expired
             THEN /\ op' = [op EXCEPT ![c].user = token[t].user]
                  /\ Goto(c, "revokeOne")
             ELSE Return(c, "invalid") /\ UNCHANGED op
       \/ /\ op[c].kind = "revoke"
          /\ IF known THEN Goto(c, "revokeOne") ELSE Return(c, "ok")
          /\ UNCHANGED op
    /\ UNCHANGED <<token, expired, gone, before>>

\* Broken: the UPDATE matches no row (it is given the wrong id).
RevokeOne_NoRow(c) ==
    /\ pc[c] = "revokeOne"
    /\ Executed(c, IF op[c].kind = "rotate" THEN Goto(c, "save") ELSE Return(c, "ok"))
    /\ UNCHANGED <<token, expired, gone, op, before>>

\* UPDATE ... WHERE id = $1 AND revoked_at IS NULL: that the row was still live is
\* neither required nor reported.
RevokeOne(c) ==
    LET t == op[c].token IN
    /\ pc[c] = "revokeOne"
    /\ token' = IF token[t].state = "live"
                THEN [token EXCEPT ![t].state = "revoked"] ELSE token
    /\ Executed(c, IF op[c].kind = "rotate" THEN Goto(c, "save") ELSE Return(c, "ok"))
    /\ UNCHANGED <<expired, gone, op, before>>

\* Broken: one row is revoked, as if the user had only one.
RevokeAllForUser_OneRow(c) ==
    /\ pc[c] = "revokeAll"
    /\ \/ \E t \in LiveOf(op[c].user) : token' = [token EXCEPT ![t].state = "revoked"]
       \/ LiveOf(op[c].user) = {} /\ UNCHANGED token
    /\ Executed(c, IF op[c].kind = "issue" THEN Goto(c, "save") ELSE Return(c, "ok"))
    /\ UNCHANGED <<expired, gone, op, before>>

\* RevokeAllForUser: one UPDATE over the rows that are there when it runs.
RevokeAllForUser(c) ==
    LET u == op[c].user IN
    /\ pc[c] = "revokeAll"
    /\ token' = [t \in Calls |-> IF t \in LiveOf(u)
                                 THEN [state |-> "revoked", user |-> u] ELSE token[t]]
    /\ Executed(c, IF op[c].kind = "issue" THEN Goto(c, "save") ELSE Return(c, "ok"))
    /\ UNCHANGED <<expired, gone, op, before>>

\* Broken: no foreign key to users.
Save_NoForeignKey(c) ==
    /\ pc[c] = "save"
    /\ token' = [token EXCEPT ![c] = [state |-> "live", user |-> op[c].user]]
    /\ Executed(c, Return(c, "ok"))
    /\ UNCHANGED <<expired, gone, op, before>>

\* issue: INSERT the new token and hand its secret to the client.
Save(c) ==
    /\ pc[c] = "save"
    /\ op[c].user \notin gone
    /\ token' = [token EXCEPT ![c] = [state |-> "live", user |-> op[c].user]]
    /\ Executed(c, Return(c, "ok"))
    /\ UNCHANGED <<expired, gone, op, before>>

\* A statement is not executed: a database error, a cancelled request, a crash, or
\* (for the INSERT) the foreign key to a user who is gone.
Fail(c) ==
    /\ pc[c] \in Running
    /\ Return(c, "failed")
    /\ UNCHANGED <<token, expired, gone, op, before>>

\* time.Now() passes a token's expires_at.
Expire(t) ==
    /\ token[t].state # "absent" /\ t \notin expired
    /\ expired' = expired \cup {t}
    /\ UNCHANGED <<token, gone, pc, op, reply, before>>

\* DELETE FROM users cascades to refresh_tokens.
DeleteUser(u) ==
    /\ u \notin gone
    /\ gone' = gone \cup {u}
    /\ token' = [t \in Calls |-> IF token[t].user = u THEN NoToken ELSE token[t]]
    /\ UNCHANGED <<expired, pc, op, reply, before>>

Start(c) ==
    \/ \E u \in Users : BeginIssue(c, u) \/ BeginRevokeAll(c, u)
    \/ \E t \in Held : BeginRotate(c, t) \/ BeginRevoke(c, t)

Advance(c) == Find(c) \/ RevokeOne(c) \/ RevokeAllForUser(c) \/ Save(c) \/ Fail(c)

AllDone == Done = Calls /\ UNCHANGED vars

Next ==
    \/ \E c \in Calls : Start(c) \/ Advance(c) \/ Expire(c)
    \/ \E u \in Users : DeleteUser(u)
    \/ AllDone

Spec == Init /\ [][Next]_vars

-----------------------------------------------------------------------------
(* Properties.                                                             *)

TypeOK ==
    /\ token \in [Calls -> Token]
    /\ \A t \in Live : token[t].user \in Users \ gone
    /\ expired \subseteq Calls
    /\ gone \subseteq Users
    /\ pc \in [Calls -> Running \cup {"new", "done"}]
    /\ op \in [Calls -> Op]
    /\ reply \in [Calls -> Replies]
    /\ before \in [Calls -> SUBSET Calls]

\* Neither call had returned when the other began.
Overlap(c, d) ==
    /\ c # d /\ pc[c] # "new" /\ pc[d] # "new"
    /\ c \notin before[d] /\ d \notin before[c]

\* The tokens c descends from: each was presented to the rotation that minted the
\* next.  It is the least set that holds c and the parent of each member.
Parent(c) == IF op[c].kind = "rotate" THEN {op[c].token} \ {None} ELSE {}
Line(c) == {d \in Calls : \A S \in SUBSET Calls :
              (c \in S /\ \A x \in S : Parent(x) \subseteq S) => d \in S}

\* Call d was asked to end token t, and t had been handed out before d began.
Ends(d, t) ==
    \/ op[d].kind \in {"rotate", "revoke"} /\ op[d].token = t
    \/ /\ op[d].kind \in {"issue", "revokeAll"}
       /\ t \in before[d] /\ op[t].kind \in {"issue", "rotate"} /\ op[t].user = op[d].user

\* A logout, a refresh, a login or a logout everywhere that reported success has ended
\* every token it was to end, for good, whatever ran in between
\* (session/service.go: Rotate 84-104, Revoke 108-120, RevokeAll 124-129, Issue 73-78).
SignedOut ==
    \A d, t \in Calls : reply[d] = "ok" /\ Ends(d, t) => t \notin Live

\* A refresh never succeeds with a token that an earlier successful call has ended:
\* neither a spent token nor one of a device that was logged out buys a new session.
DeadTokensAreRefused ==
    \A c, d \in Calls :
        (op[c].kind = "rotate" /\ reply[c] = "ok" /\ d \in before[c] /\ reply[d] = "ok")
            => ~Ends(d, op[c].token)

\* When a token is live, those it descends from are not, and all were its owner's: a
\* rotation that fails half way or loses its answer never leaves both usable.
LineIsSpent ==
    \A c \in Live : \A d \in Line(c) \ {c} :
        d \notin Live /\ token[d].user = token[c].user

\* A user has two live tokens only if two calls overlapped somewhere in their lines:
\* logins and refreshes made one after the other keep the login single-device,
\* whichever of them failed and wherever.
TwoDevicesNeedOverlap ==
    \A a, b \in Live :
        (a # b /\ token[a].user = token[b].user)
            => \E x \in Line(a), y \in Line(b) : Overlap(x, y)

-----------------------------------------------------------------------------
(* What the code and its documents say without that proviso.               *)

\* service.go:9: "Login is strict single-device: issuing a token first revokes the
\* user's other refresh tokens".  When nothing runs, a user has one live token at most.
SingleDevice ==
    (\A c \in Calls : pc[c] \notin Running)
        => \A a, b \in Live : token[a].user = token[b].user => a = b
=============================================================================
