------------------------------ MODULE Browser ------------------------------
(***************************************************************************)
(* A browser and the refresh-token cookie: the auth handlers of            *)
(* internal/user/handler.go (internal/admin/handler.go is the same on      *)
(* another cookie) between a cookie jar and the session service.           *)
(*                                                                         *)
(* One browser, with as many tabs as it likes, shares one jar; its         *)
(* requests carry the cookie that is in the jar when they are sent, and    *)
(* their answers change the jar when they arrive, in any order, or never   *)
(* do.  All other clients of the user are "elsewhere": they make the calls *)
(* of Session with any token that was ever handed out.                     *)
(***************************************************************************)
EXTENDS Session

VARIABLES
    jar,      \* the token in the browser's cookie
    mine,     \* calls the browser has made
    heard,    \* calls of the browser it waits for no more
    lost,     \* those of them whose answer brought no cookie (never came, or was a 500)
    raced     \* history: calls the browser had out together with another one

cookieVars == <<jar, mine, heard, lost, raced>>
allVars == <<vars, cookieVars>>

Out == mine \ heard

BrowserInit ==
    /\ Init
    /\ jar = None
    /\ mine = {} /\ heard = {} /\ lost = {} /\ raced = {}

-----------------------------------------------------------------------------
Sent(c) ==
    /\ mine' = mine \cup {c}
    /\ raced' = IF Out = {} THEN raced ELSE raced \cup Out \cup {c}
    /\ UNCHANGED <<jar, heard, lost>>

\* Register, Login, LoginCode: they look at no cookie.
LogIn(c, u) == BeginIssue(c, u) /\ Sent(c)

\* Refresh.  Without a cookie it is a 401 that changes nothing.
Refresh(c) == jar # None /\ BeginRotate(c, jar) /\ Sent(c)

\* Logout.
LogOut(c) == jar # None /\ BeginRevoke(c, jar) /\ Sent(c)

\* Logout without a cookie calls no service.  Its answer clears the cookie all the same.
LogOutUnknown(c) ==
    /\ jar = None /\ pc[c] = "new"
    /\ op' = [op EXCEPT ![c] = [kind |-> "revoke", token |-> None, user |-> None]]
    /\ before' = [before EXCEPT ![c] = Done]
    /\ Return(c, "ok")
    /\ UNCHANGED <<token, expired, gone>>
    /\ Sent(c)

\* LogoutAll, by the access token, which came with a login or a refresh.
LogOutAll(c, u) ==
    /\ \E t \in heard \ lost : op[t].user = u /\ reply[t] = "ok"
    /\ BeginRevokeAll(c, u)
    /\ Sent(c)

Elsewhere(c) == Start(c) /\ UNCHANGED cookieVars

\* Broken: a refresh answers with the new access token only.
Cookies_NotRotated(c) ==
    CASE reply[c] = "ok" /\ op[c].kind = "issue" -> {c}
      [] reply[c] = "ok" /\ op[c].kind = "rotate" -> {jar}
      [] reply[c] = "ok" /\ op[c].kind = "revoke" -> {None}
      [] reply[c] = "invalid" -> {None}
      [] OTHER -> {jar}

\* Broken: a logout leaves the cookie.
Cookies_NotCleared(c) ==
    CASE reply[c] = "ok" /\ op[c].kind = "issue" -> {c}
      [] reply[c] = "ok" /\ op[c].kind = "rotate" -> {c, None}
      [] reply[c] = "invalid" -> {None}
      [] OTHER -> {jar}

\* Broken: a refresh that fails clears the cookie whatever went wrong.
Cookies_ClearedOnFailure(c) ==
    CASE reply[c] = "ok" /\ op[c].kind = "issue" -> {c}
      [] reply[c] = "ok" /\ op[c].kind = "rotate" -> {c, None}
      [] reply[c] = "ok" /\ op[c].kind = "revoke" -> {None}
      [] reply[c] \in {"invalid", "failed"} -> {None}
      [] OTHER -> {jar}

\* What the jar may hold once the answer to call c has arrived: a new cookie after a
\* login or a refresh; no cookie after a logout, a refresh with an invalid token, and
\* a refresh of an account that turns out to be disabled after its token was rotated;
\* what it held before after logout everywhere and after any other error.
Cookies(c) ==
    CASE reply[c] = "ok" /\ op[c].kind = "issue" -> {c}
      [] reply[c] = "ok" /\ op[c].kind = "rotate" -> {c, None}
      [] reply[c] = "ok" /\ op[c].kind = "revoke" -> {None}
      [] reply[c] = "invalid" -> {None}
      [] OTHER -> {jar}

\* The answer to a call arrives.
Arrive(c) ==
    /\ c \in Out /\ pc[c] = "done"
    /\ jar' \in Cookies(c)
    /\ heard' = heard \cup {c}
    /\ UNCHANGED <<vars, mine, lost, raced>>

\* The answer to a call gets lost, or the browser gives up on it (whether the server
\* has begun, is at work or has finished), or the account cannot be read after
\* the session service has done its part, which is a 500.
Lose(c) ==
    /\ c \in Out
    /\ heard' = heard \cup {c}
    /\ lost' = lost \cup {c}
    /\ UNCHANGED <<vars, jar, mine, raced>>

\* Max-Age: the cookie expires with its token.
CookieExpires ==
    /\ jar \in expired
    /\ jar' = None
    /\ UNCHANGED <<vars, mine, heard, lost, raced>>

BrowserStart(c) ==
    \/ \E u \in Users : LogIn(c, u) \/ LogOutAll(c, u)
    \/ Refresh(c)
    \/ LogOut(c)
    \/ LogOutUnknown(c)

Server ==
    /\ \/ \E c \in Calls : Advance(c) \/ Expire(c)
       \/ \E u \in Users : DeleteUser(u)
    /\ UNCHANGED cookieVars

\* Nothing is under way: nobody has to make another call.
Quiet ==
    /\ \A c \in Calls : pc[c] \notin Running
    /\ Out = {}
    /\ UNCHANGED allVars

BrowserNext ==
    \/ \E c \in Calls : BrowserStart(c) \/ Elsewhere(c) \/ Arrive(c) \/ Lose(c)
    \/ CookieExpires
    \/ Server
    \/ Quiet

BrowserSpec == BrowserInit /\ [][BrowserNext]_allVars

-----------------------------------------------------------------------------
(* Properties.                                                             *)

\* The session service's types, and a jar that holds nothing but a token that was handed
\* out to the browser.
BrowserTypeOK ==
    /\ TypeOK
    /\ heard \subseteq mine /\ mine \subseteq Calls
    /\ lost \subseteq heard
    /\ raced \subseteq mine
    /\ jar \in {t \in heard \ lost : reply[t] = "ok"} \cup {None}

\* A cookie that works is taken from the jar only by the answer to a call that the browser
\* had out together with another, or by a login of another user: one request after the
\* other never costs a user the session ("a stale cookie is cleared",
\* user/handler.go:359, with that proviso).
OtherUser(c) == op[c].kind = "issue" /\ op[c].user # op[jar].user
WorkingCookieKept ==
    [][\A c \in Calls : (Arrive(c) /\ jar \in Live \ expired /\ jar' # jar)
                            => c \in raced \/ OtherUser(c)]_allVars

\* A cookie that does not work has a cause, other than its token's expiry and the end of
\* the account: somebody else called, or one of the browser's own calls failed, was
\* lost, is still out, was made next to another one, or was a logout everywhere.  The
\* rotation of tokens and of cookies is otherwise in step.
Excuse(d) ==
    \/ d \notin mine
    \/ d \in Out \cup lost \cup raced
    \/ reply[d] = "failed" \/ op[d].kind = "revokeAll"
DeadCookieHasACause ==
    (jar # None /\ jar \notin Live \cup expired /\ op[jar].user \notin gone)
        => \E d \in Calls \ {jar} : pc[d] # "new" /\ Excuse(d)

\* After a logout that was answered, and was not made next to another call, the browser
\* has no cookie until somebody logs in on it again: no answer that was on its way
\* brings the session back.
LoggedOutMeansOut ==
    \A c \in heard \ (lost \cup raced) :
        (op[c].kind = "revoke" /\ reply[c] = "ok" /\ jar # None)
            => \E l \in Line(jar) : op[l].kind = "issue" /\ l \in mine \ before[c]
=============================================================================
