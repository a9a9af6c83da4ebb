--------------------------- MODULE Browser_proofs ---------------------------
(***************************************************************************)
(* Proofs about Browser, for any number of calls, users and tabs.  What    *)
(* Session_proofs shows of the session service holds of it here as well:   *)
(* its lemmas are about Step, and the server's part of a step of Browser   *)
(* is a Step.                                                              *)
(***************************************************************************)
EXTENDS Browser, Session_proofs

-----------------------------------------------------------------------------
(* More about the session service.                                         *)

\* Of two calls only one had returned when the other began.
Ordered == \A x, y \in Calls : x \in before[y] => y \notin before[x]

\* A call that may have revoked rows.
Revoker(d) == pc[d] = "save" \/ (pc[d] = "done" /\ reply[d] \in {"ok", "failed"})

\* A revoked token was revoked by another call, which had not returned when the token's
\* own call began.
RevokedByACall ==
    \A t \in Calls : token[t].state = "revoked" =>
        \E d \in Calls \ {t} : Revoker(d) /\ d \notin before[t]

\* Only a refresh is rejected, and a token that was rejected does not work later.
RejectedForGood ==
    \A c \in Calls : reply[c] = "invalid" =>
        op[c].kind = "rotate" /\ (op[c].token # None => op[c].token \notin Live \ expired)

SInv == Ordered /\ RevokedByACall /\ RejectedForGood

LEMMA ExpiredStays ==
    ASSUME Step
    PROVE  expired \subseteq expired'
  <1>1. ASSUME NEW c \in Calls, NEW u \in Users, BeginIssue(c, u) \/ BeginRevokeAll(c, u)
        PROVE  expired' = expired
    BY <1>1 DEF BeginIssue, BeginRevokeAll, Begin
  <1>2. ASSUME NEW c \in Calls, NEW h \in Held, BeginRotate(c, h) \/ BeginRevoke(c, h)
        PROVE  expired' = expired
    BY <1>2 DEF BeginRotate, BeginRevoke, Begin
  <1>3. ASSUME NEW c \in Calls,
               \/ Unasked(c) \/ Find(c) \/ RevokeOne(c) \/ RevokeAllForUser(c)
               \/ Save(c) \/ Fail(c)
        PROVE  expired' = expired
    BY <1>3 DEF Unasked, Find, RevokeOne, RevokeAllForUser, Save, Fail
  <1>4. CASE UNCHANGED vars \/ \E u \in Users : DeleteUser(u)
    BY <1>4 DEF vars, DeleteUser
  <1>5. ASSUME NEW c \in Calls, Expire(c)
        PROVE  expired \subseteq expired'
    BY <1>5 DEF Expire
  <1>6. QED
    BY StepCases, <1>1, <1>2, <1>3, <1>4, <1>5

LEMMA OrderedStep ==
    ASSUME IInv, Ordered, Step
    PROVE  Ordered'
  <1>1. TypeOK /\ Control
    BY DEF IInv
  <1>2. \A z \in Calls : before'[z] = before[z] \/ (pc[z] = "new" /\ before'[z] = Done)
    BY <1>1, OpChange DEF Idles, Begins, Learns
  <1>3. \A z \in Calls : before[z] \subseteq Done
    BY <1>1 DEF Control, Asked
  <1>4. QED
    BY <1>2, <1>3 DEF Ordered, Done

LEMMA RevokedNow ==
    ASSUME TypeOK, Control, Step, NEW t \in Calls,
           token[t].state # "revoked", token'[t].state = "revoked"
    PROVE  \E d \in Calls \ {t} : Revoker(d)' /\ d \notin before[t]
  <1> USE DEF Goto, Return, Executed
  <1>1. ASSUME NEW d \in Calls, pc[d] \in Running, Revoker(d)', token[t].state = "live"
        PROVE  d # t /\ d \notin before[t]
    BY <1>1 DEF Control, Asked, Minted, Done, Running
  <1>2. ASSUME NEW c \in Calls, RevokeOne(c)
        PROVE  token[t].state = "live" /\ pc[c] \in Running /\ Revoker(c)'
    <2>1. token[t].state = "live"
      BY <1>2 DEF RevokeOne, TypeOK
    <2>2. pc[c] \in Running /\ Revoker(c)'
      BY <1>2 DEF RevokeOne, TypeOK, Running, Revoker
    <2>3. QED
      BY <2>1, <2>2
  <1>3. ASSUME NEW c \in Calls, RevokeAllForUser(c)
        PROVE  token[t].state = "live" /\ pc[c] \in Running /\ Revoker(c)'
    <2>1. t \in LiveOf(op[c].user)
      BY <1>3 DEF RevokeAllForUser
    <2>2. pc[c] \in Running /\ Revoker(c)'
      BY <1>3 DEF RevokeAllForUser, TypeOK, Running, Revoker
    <2>3. QED
      BY <2>1, <2>2 DEF LiveOf, Live
  <1>4. ASSUME NEW c \in Calls, Save(c)
        PROVE  FALSE
    BY <1>4 DEF Save, TypeOK
  <1>5. ASSUME NEW u \in Users, DeleteUser(u)
        PROVE  FALSE
    BY <1>5 DEF DeleteUser, NoToken
  <1>6. ASSUME NEW c \in Calls, NEW u \in Users, BeginIssue(c, u) \/ BeginRevokeAll(c, u)
        PROVE  FALSE
    BY <1>6 DEF BeginIssue, BeginRevokeAll, Begin
  <1>7. ASSUME NEW c \in Calls, NEW h \in Held, BeginRotate(c, h) \/ BeginRevoke(c, h)
        PROVE  FALSE
    BY <1>7 DEF BeginRotate, BeginRevoke, Begin
  <1>8. ASSUME NEW c \in Calls, Unasked(c) \/ Find(c) \/ Fail(c) \/ Expire(c)
        PROVE  FALSE
    BY <1>8 DEF Unasked, Find, Fail, Expire
  <1>9. ASSUME UNCHANGED vars
        PROVE  FALSE
    BY <1>9 DEF vars
  <1>10. QED
    BY StepCases, <1>1, <1>2, <1>3, <1>4, <1>5, <1>6, <1>7, <1>8, <1>9

LEMMA RevokerStays ==
    ASSUME TypeOK, Step, NEW d \in Calls, Revoker(d)
    PROVE  Revoker(d)'
  <1>1. CASE pc[d] = "done"
    BY <1>1, DoneStays DEF Revoker
  <1>2. CASE pc[d] = "save"
    <2>1. CASE Still(d)
      BY <1>2, <2>1 DEF Still, Revoker
    <2>2. CASE Save(d) \/ Fail(d)
      BY <2>2 DEF Save, Fail, Return, Executed, Revoker, TypeOK
    <2>3. QED
      BY <1>2, <2>1, <2>2, OneMoves
         DEF Moves, Unasked, BeginIssue, BeginRevokeAll, BeginRotate, BeginRevoke, Begin,
             Find, RevokeOne, RevokeAllForUser
  <1>3. QED
    BY <1>1, <1>2 DEF Revoker

LEMMA RevokedStep ==
    ASSUME IInv, RevokedByACall, Step
    PROVE  RevokedByACall'
  <1>1. TypeOK /\ Control /\ TypeOK'
    BY TypeStep DEF IInv
  <1>2. SUFFICES ASSUME NEW t \in Calls, token'[t].state = "revoked"
                 PROVE  \E d \in Calls \ {t} : Revoker(d)' /\ d \notin before'[t]
    BY DEF RevokedByACall
  <1>3. token[t].state # "absent"
    <2>1. ~Save(t)
      BY <1>1, <1>2 DEF Save, TypeOK
    <2>2. QED
      BY <1>1, <1>2, <2>1, RowKept
  <1>4. before'[t] = before[t]
    BY <1>1, <1>3, DoneStays DEF Control, Minted
  <1>5. CASE token[t].state = "revoked"
    BY <1>1, <1>4, <1>5, RevokerStays DEF RevokedByACall
  <1>6. CASE token[t].state # "revoked"
    BY <1>1, <1>2, <1>4, <1>6, RevokedNow
  <1>7. QED
    BY <1>5, <1>6

LEMMA RejectedStep ==
    ASSUME IInv, RejectedForGood, Step
    PROVE  RejectedForGood'
  <1> USE DEF Goto, Return, Executed
  <1>1. TypeOK /\ Control
    BY DEF IInv
  <1>2. SUFFICES ASSUME NEW c \in Calls, reply'[c] = "invalid"
                 PROVE  /\ op'[c].kind = "rotate"
                        /\ op'[c].token # None => op'[c].token \notin Live' \ expired'
    BY DEF RejectedForGood
  <1>3. CASE reply[c] = "invalid"
    <2>1. op'[c] = op[c]
      BY <1>1, <1>3, DoneStays DEF Control, Placed
    <2>2. /\ op[c].kind = "rotate"
          /\ op[c].token # None =>
                op[c].token \notin Live \ expired /\ op[c].token \in Calls
                /\ pc[op[c].token] = "done"
      BY <1>1, <1>2, <1>3, <2>1 DEF RejectedForGood, Control, Asked, Done, TypeOK, Op
    <2>3. (op[c].token # None /\ op[c].token \in Live') => op[c].token \in Live
      BY <1>1, <2>2, LiveChange DEF Save
    <2>4. QED
      BY <2>1, <2>2, <2>3, ExpiredStays
  <1>4. CASE reply[c] # "invalid"
    <2>1. Find(c)
      <3>1. ~Still(c)
        BY <1>2, <1>4 DEF Still
      <3>2. reply[c] = "none"
        BY <1>1, <1>2, <1>4, DoneStays DEF Control, Placed
      <3>3. ASSUME NEW u \in Users, BeginIssue(c, u) \/ BeginRevokeAll(c, u)
            PROVE  FALSE
        BY <1>2, <1>4, <3>3 DEF BeginIssue, BeginRevokeAll, Begin
      <3>4. ASSUME NEW h \in Held, BeginRotate(c, h) \/ BeginRevoke(c, h)
            PROVE  FALSE
        BY <1>2, <1>4, <3>4 DEF BeginRotate, BeginRevoke, Begin
      <3>5. ~(Unasked(c) \/ RevokeOne(c) \/ RevokeAllForUser(c) \/ Save(c) \/ Fail(c))
        BY <1>1, <1>2, <1>4
           DEF Unasked, RevokeOne, RevokeAllForUser, Save, Fail, TypeOK
      <3>6. QED
        BY <1>1, <3>1, <3>3, <3>4, <3>5, OneMoves DEF Moves
    <2>2. op' = op /\ token' = token /\ expired' = expired /\ op[c].kind = "rotate"
            /\ ~(op[c].token # None /\ token[op[c].token].state = "live"
                  /\ op[c].token \notin expired)
      BY <1>1, <1>2, <1>4, <2>1 DEF Find, TypeOK
    <2>3. QED
      BY <1>2, <2>2 DEF Live
  <1>5. QED
    BY <1>3, <1>4

LEMMA SInvStep ==
    ASSUME IInv, SInv, Step
    PROVE  SInv'
  BY OrderedStep, RevokedStep, RejectedStep DEF SInv

-----------------------------------------------------------------------------
(* The browser's calls, one after the other.                               *)

\* The calls whose answers reached the browser.
Answered == heard \ lost

\* Calls of the browser that it had out together with no other.
Calm == mine \ raced

Known ==
    /\ \A c \in mine : pc[c] # "new"
    /\ \A c \in Answered : pc[c] = "done"
    /\ jar # None => Mints(jar)

\* Two calls that are out together are marked as such.
Marked == \A c, d \in Out : c # d => c \in raced

\* A calm call came after the answers the browser had when it was sent, and before every
\* call it sent later.
InTurn ==
    /\ \A c \in Answered \ raced, d \in Out : c \in before[d]
    /\ \A c \in Out \ raced : Answered \subseteq before[c]
    /\ \A c \in Out \ raced, d \in mine : c \notin before[d]

\* The jar while a calm refresh or logout is out.
JarSent ==
    \A c \in Out \ raced :
        op[c].kind \in {"rotate", "revoke"} => jar \in {op[c].token, None}

\* The jar after a calm call has been answered: nothing, its own token, or a later one.
JarAfter ==
    \A c \in Answered \ raced :
        (reply[c] = "ok" /\ op[c].kind # "revokeAll")
            => \/ jar = None
               \/ jar = c /\ op[c].kind # "revoke"
               \/ c \in before[jar]

\* A refresh sent after a calm logout has been answered descends from a later login.
LoginBetween(c, d) == \E l \in Line(d) : op[l].kind = "issue" /\ l \in mine \ before[c]
LoggedInAgain ==
    \A c \in Answered \ raced, d \in mine :
        (/\ op[c].kind = "revoke" /\ reply[c] = "ok"
         /\ c \in before[d] /\ op[d].kind = "rotate" /\ op[d].token # None)
            => LoginBetween(c, d)

BInv ==
    /\ IInv /\ SInv
    /\ BrowserTypeOK /\ Known /\ Marked /\ InTurn /\ JarSent /\ JarAfter /\ LoggedInAgain

\* The browser sends a call, with the cookie it has.
Sends(c) ==
    /\ Sent(c) /\ Step /\ pc[c] = "new"
    /\ pc'[c] # "new" /\ before'[c] = Done
    /\ op'[c].kind \in {"rotate", "revoke"} => op'[c].token = jar

Serves == Step /\ UNCHANGED cookieVars

LEMMA BrowserSteps ==
    ASSUME BInv, [BrowserNext]_allVars
    PROVE  \/ \E c \in Calls : Sends(c) \/ Arrive(c) \/ Lose(c)
           \/ Serves \/ CookieExpires
  <1>1. ASSUME NEW c \in Calls, BrowserStart(c)
        PROVE  Sends(c)
    <2>1. TypeOK /\ (jar # None => jar \in Held)
      BY DEF BInv, IInv, BrowserTypeOK, Known, Held, Mints
    <2>2. ASSUME NEW u \in Users, BeginIssue(c, u) \/ BeginRevokeAll(c, u), Sent(c)
          PROVE  Sends(c)
      <3>1. Step
        BY <2>2 DEF Step, Next, Start
      <3>2. PICK k \in {"issue", "revokeAll"} : Begin(c, k, None, u, "revokeAll")
        BY <2>2 DEF BeginIssue, BeginRevokeAll
      <3>3. pc[c] = "new" /\ pc'[c] # "new" /\ before'[c] = Done /\ op'[c].kind = k
        BY <2>1, <3>2 DEF Begin, Goto, TypeOK
      <3>4. QED
        BY <2>2, <3>1, <3>3 DEF Sends
    <2>3. ASSUME jar # None, BeginRotate(c, jar) \/ BeginRevoke(c, jar), Sent(c)
          PROVE  Sends(c)
      <3>1. Step
        BY <2>1, <2>3 DEF Step, Next, Start
      <3>2. PICK k \in {"rotate", "revoke"} : Begin(c, k, jar, None, "find")
        BY <2>3 DEF BeginRotate, BeginRevoke
      <3>3. pc[c] = "new" /\ pc'[c] # "new" /\ before'[c] = Done /\ op'[c].token = jar
        BY <2>1, <3>2 DEF Begin, Goto, TypeOK
      <3>4. QED
        BY <2>3, <3>1, <3>3 DEF Sends
    <2>4. ASSUME LogOutUnknown(c)
          PROVE  Sends(c)
      <3>1. Unasked(c) /\ jar = None /\ Sent(c)
        BY <2>4 DEF LogOutUnknown, Unasked
      <3>2. pc[c] = "new" /\ pc'[c] # "new" /\ before'[c] = Done /\ op'[c].token = jar
        BY <2>1, <3>1 DEF Unasked, Return, TypeOK
      <3>3. QED
        BY <3>1, <3>2 DEF Sends, Step
    <2>5. QED
      BY <1>1, <2>2, <2>3, <2>4 DEF BrowserStart, LogIn, LogOutAll, Refresh, LogOut
  <1>2. ASSUME NEW c \in Calls, Elsewhere(c)
        PROVE  Serves
    BY <1>2 DEF Elsewhere, Serves, Step, Next
  <1>3. ASSUME Server
        PROVE  Serves
    BY <1>3 DEF Server, Serves, Step, Next
  <1>4. ASSUME UNCHANGED allVars
        PROVE  Serves
    BY <1>4 DEF allVars, Serves, Step
  <1>5. QED
    BY <1>1, <1>2, <1>3, <1>4 DEF BrowserNext, Quiet

\* The session service goes on; the browser waits.
LEMMA ServesKeeps ==
    ASSUME BInv, Serves
    PROVE  BInv'
  <1>1. TypeOK /\ Control /\ Step
    BY DEF BInv, IInv, Serves
  <1>2. IInv' /\ SInv'
    BY <1>1, StepInv, SInvStep DEF BInv
  <1>3. jar' = jar /\ mine' = mine /\ heard' = heard /\ lost' = lost /\ raced' = raced
    BY DEF Serves, cookieVars
  <1>4. Out' = Out /\ Answered' = Answered
    BY <1>3 DEF Out, Answered
  <1>5. \A c \in mine : /\ c \in Calls /\ pc[c] # "new" /\ pc'[c] # "new"
                        /\ before'[c] = before[c] /\ op'[c].kind = op[c].kind
                        /\ op'[c].token = op[c].token
    BY <1>1, BegunKept DEF BInv, Known, BrowserTypeOK
  <1>6. \A c \in Answered : /\ c \in mine /\ pc[c] = "done" /\ pc'[c] = "done"
                            /\ reply'[c] = reply[c] /\ op'[c] = op[c]
    BY <1>1, DoneStays DEF BInv, Known, BrowserTypeOK, Answered
  <1>7. jar # None => jar \in Answered
    BY DEF BInv, BrowserTypeOK, Answered
  <1>8. BrowserTypeOK'
    BY <1>2, <1>3, <1>6, <1>7 DEF IInv, BInv, BrowserTypeOK, Answered
  <1>9. Known'
    BY <1>3, <1>4, <1>5, <1>6, <1>7 DEF BInv, Known, Mints
  <1>10. Marked'
    BY <1>3, <1>4 DEF BInv, Marked
  <1>11. InTurn'
    BY <1>3, <1>4, <1>5, <1>6 DEF BInv, InTurn, Out
  <1>12. JarSent'
    BY <1>3, <1>4, <1>5 DEF BInv, JarSent, Out
  <1>13. JarAfter'
    BY <1>3, <1>4, <1>5, <1>6, <1>7 DEF BInv, JarAfter
  <1>14. LoggedInAgain'
    <2>1. ASSUME NEW c \in Answered, NEW d \in mine, LoginBetween(c, d)
          PROVE  LoginBetween(c, d)'
      <3>1. PICK l \in Line(d) : op[l].kind = "issue" /\ l \in mine \ before[c]
        BY <2>1 DEF LoginBetween
      <3>2. l \in Line(d)'
        BY <1>1, <1>5, LineKept
      <3>3. QED
        BY <1>3, <1>5, <1>6, <3>1, <3>2 DEF LoginBetween
    <2>2. QED
      BY <1>3, <1>4, <1>5, <1>6, <2>1 DEF BInv, LoggedInAgain
  <1>15. QED
    BY <1>2, <1>8, <1>9, <1>10, <1>11, <1>12, <1>13, <1>14 DEF BInv

\* While the cookie is there, and a calm logout has been answered, somebody has logged in.
LEMMA LoggedOut ==
    ASSUME BInv, NEW c \in Answered \ raced, op[c].kind = "revoke", reply[c] = "ok", jar # None
    PROVE  LoginBetween(c, jar) /\ jar \in mine /\ c \in before[jar]
  <1>1. jar \in Answered /\ jar \in mine /\ reply[jar] = "ok" /\ Mints(jar)
    BY DEF BInv, BrowserTypeOK, Known, Answered
  <1>2. jar \in Calls /\ c \in Calls
    BY <1>1 DEF BInv, BrowserTypeOK, Answered
  <1>3. c \in before[jar] /\ jar \notin before[c]
    BY <1>2 DEF BInv, SInv, Ordered, JarAfter
  <1>4. CASE op[jar].kind = "rotate"
    <2>1. op[jar].token # None
      BY <1>1, <1>2, <1>4 DEF BInv, IInv, Control, Asked, Placed
    <2>2. QED
      BY <1>1, <1>3, <1>4, <2>1 DEF BInv, LoggedInAgain
  <1>5. CASE op[jar].kind = "issue"
    BY <1>1, <1>2, <1>3, <1>5, LineSelf DEF LoginBetween
  <1>6. QED
    BY <1>1, <1>3, <1>4, <1>5 DEF Mints

\* The browser sends a call.
LEMMA SendsKeeps ==
    ASSUME BInv, NEW c \in Calls, Sends(c)
    PROVE  BInv'
  <1>1. TypeOK /\ Control /\ Step
    BY DEF BInv, IInv, Sends
  <1>2. IInv' /\ SInv'
    BY <1>1, StepInv, SInvStep DEF BInv
  <1>3. jar' = jar /\ mine' = mine \cup {c} /\ heard' = heard /\ lost' = lost
    BY DEF Sends, Sent
  <1>4. pc[c] = "new" /\ pc'[c] # "new" /\ before'[c] = Done /\ c \notin mine /\ c \notin heard
    BY DEF Sends, BInv, Known, BrowserTypeOK
  <1>5. Out' = Out \cup {c} /\ Answered' = Answered /\ c \notin Answered
    BY <1>3, <1>4 DEF Out, Answered
  <1>6. (Out = {} /\ raced' = raced) \/ (Out' \subseteq raced' /\ raced' = raced \cup Out')
    BY <1>5 DEF Sends, Sent
  <1>7. \A d \in mine : /\ d \in Calls /\ pc[d] # "new" /\ pc'[d] # "new" /\ d # c
                        /\ before'[d] = before[d] /\ op'[d].kind = op[d].kind
                        /\ op'[d].token = op[d].token
    BY <1>1, <1>4, BegunKept DEF BInv, Known, BrowserTypeOK
  <1>8. \A d \in Answered : /\ d \in mine /\ d \in Done /\ pc[d] = "done" /\ pc'[d] = "done"
                            /\ reply'[d] = reply[d] /\ op'[d] = op[d]
    BY <1>1, DoneStays DEF BInv, Known, BrowserTypeOK, Answered, Done
  <1>9. jar # None => jar \in Answered
    BY DEF BInv, BrowserTypeOK, Answered
  <1>10. BrowserTypeOK'
    BY <1>2, <1>3, <1>5, <1>6, <1>8, <1>9
       DEF IInv, BInv, BrowserTypeOK, Answered, Out
  <1>11. Known'
    BY <1>3, <1>4, <1>5, <1>7, <1>8, <1>9 DEF BInv, Known, Mints
  <1>12. Marked'
    BY <1>5, <1>6 DEF Marked
  <1>13. InTurn'
    <2>1. \A x \in Answered \ raced', d \in Out' : x \in before'[d]
      BY <1>4, <1>5, <1>6, <1>7, <1>8 DEF BInv, InTurn, Out
    <2>2. \A x \in Out' \ raced' : x = c
      BY <1>5, <1>6
    <2>3. Answered \subseteq before'[c]
      BY <1>4, <1>8
    <2>4. \A d \in mine' : c \notin before'[d]
      BY <1>1, <1>3, <1>4, <1>7 DEF Control, Asked, Done
    <2>5. QED
      BY <1>5, <2>1, <2>2, <2>3, <2>4 DEF InTurn
  <1>14. JarSent'
    <2>1. \A x \in Out' \ raced' : x = c
      BY <1>5, <1>6
    <2>2. QED
      BY <1>3, <2>1 DEF JarSent, Sends
  <1>15. JarAfter'
    BY <1>3, <1>5, <1>6, <1>7, <1>8, <1>9 DEF BInv, JarAfter
  <1>16. LoggedInAgain'
    <2>1. SUFFICES ASSUME NEW x \in Answered \ raced, NEW d \in mine',
                          op[x].kind = "revoke", reply[x] = "ok",
                          x \in before'[d], op'[d].kind = "rotate", op'[d].token # None
                   PROVE  LoginBetween(x, d)'
      BY <1>5, <1>6, <1>8 DEF LoggedInAgain
    <2>2. before'[x] = before[x] /\ x \in mine
      BY <1>7, <1>8
    <2>3. ASSUME NEW e \in mine, LoginBetween(x, e), Line(e) \subseteq Line(d)'
          PROVE  LoginBetween(x, d)'
      BY <1>3, <1>7, <2>2, <2>3 DEF LoginBetween
    <2>4. CASE d \in mine
      <3>1. LoginBetween(x, d)
        BY <1>7, <2>1, <2>4 DEF BInv, LoggedInAgain
      <3>2. QED
        BY <1>1, <1>7, <2>3, <2>4, <3>1, LineKept
    <2>5. CASE d = c
      <3>1. op'[c].token = jar /\ jar # None
        BY <2>1, <2>5 DEF Sends
      <3>2. jar \in mine /\ LoginBetween(x, jar)
        BY <2>1, <3>1, LoggedOut
      <3>3. jar \in Parent(c)' /\ jar \in Calls
        BY <1>7, <2>1, <2>5, <3>1, <3>2 DEF Parent
      <3>4. Line(jar) \subseteq Line(c)'
        BY <1>1, <3>3, LineReaches
      <3>5. QED
        BY <2>3, <2>5, <3>2, <3>4
    <2>6. QED
      BY <1>3, <2>4, <2>5
  <1>17. QED
    BY <1>2, <1>10, <1>11, <1>12, <1>13, <1>14, <1>15, <1>16 DEF BInv

\* What the browser does by itself changes nothing at the server.
LEMMA ServerKept ==
    ASSUME BInv, UNCHANGED vars
    PROVE  /\ IInv' /\ SInv'
           /\ \A c \in Calls : \A d \in Calls :
                 mine' = mine => (LoginBetween(c, d) => LoginBetween(c, d)')
  <1>1. Step /\ TypeOK /\ Control
    BY DEF Step, BInv, IInv
  <1>2. IInv' /\ SInv'
    BY <1>1, StepInv, SInvStep DEF BInv
  <1>3. ASSUME NEW c \in Calls, NEW d \in Calls, mine' = mine, LoginBetween(c, d)
        PROVE  LoginBetween(c, d)'
    <2>1. Line(d) \subseteq Line(d)' /\ op' = op /\ before' = before
      BY <1>1, LineKept DEF vars
    <2>2. QED
      BY <1>3, <2>1 DEF LoginBetween
  <1>4. QED
    BY <1>2, <1>3

\* What an answer does to the jar.
LEMMA ArrivalJar ==
    ASSUME NEW c \in Calls, Arrive(c)
    PROVE  /\ jar' \in {jar, None, c}
           /\ (jar' = c /\ jar # c /\ c # None) => reply[c] = "ok" /\ Mints(c)
           /\ (reply[c] = "ok" /\ op[c].kind = "issue") => jar' = c
           /\ (reply[c] = "ok" /\ op[c].kind = "rotate") => jar' \in {c, None}
           /\ (reply[c] = "ok" /\ op[c].kind = "revoke") => jar' = None
           /\ reply[c] = "invalid" => jar' = None
           /\ reply[c] \notin {"ok", "invalid"} => jar' = jar
           /\ (reply[c] = "ok" /\ op[c].kind = "revokeAll") => jar' = jar
  <1>1. jar' \in Cookies(c)
    BY DEF Arrive
  <1>2. CASE reply[c] = "ok" /\ op[c].kind = "issue"
    BY <1>1, <1>2 DEF Cookies, Mints
  <1>3. CASE reply[c] = "ok" /\ op[c].kind = "rotate"
    BY <1>1, <1>3 DEF Cookies, Mints
  <1>4. CASE reply[c] = "ok" /\ op[c].kind = "revoke"
    BY <1>1, <1>4 DEF Cookies, Mints
  <1>5. CASE reply[c] = "invalid"
    BY <1>1, <1>5 DEF Cookies, Mints
  <1>6. CASE ~(reply[c] = "ok" /\ op[c].kind \in {"issue", "rotate", "revoke"})
              /\ reply[c] # "invalid"
    BY <1>1, <1>6 DEF Cookies, Mints
  <1>7. QED
    BY <1>2, <1>3, <1>4, <1>5, <1>6

\* The answer to a call arrives.
LEMMA ArriveKeeps ==
    ASSUME BInv, NEW c \in Calls, Arrive(c)
    PROVE  BInv'
  <1>1. UNCHANGED vars /\ mine' = mine /\ lost' = lost /\ raced' = raced
          /\ heard' = heard \cup {c} /\ c \in Out /\ pc[c] = "done"
    BY DEF Arrive
  <1>2. pc' = pc /\ op' = op /\ reply' = reply /\ before' = before
    BY <1>1 DEF vars
  <1>3. IInv' /\ SInv'
    BY <1>1, ServerKept
  <1>4. c \in mine /\ c \notin heard /\ c \notin lost /\ c # None
    BY <1>1, SessionAssumption DEF Out, BInv, BrowserTypeOK
  <1>5. Out' = Out \ {c} /\ Answered' = Answered \cup {c}
    BY <1>1, <1>4 DEF Out, Answered
  <1>6. jar # c
    BY <1>4 DEF BInv, BrowserTypeOK
  <1>7. jar' \in {jar, None, c} /\ (jar' = c => reply[c] = "ok" /\ Mints(c))
    BY <1>4, <1>6, ArrivalJar
  <1>8. BrowserTypeOK'
    BY <1>1, <1>2, <1>3, <1>4, <1>7 DEF IInv, BInv, BrowserTypeOK
  <1>9. Known'
    BY <1>1, <1>2, <1>5, <1>7 DEF BInv, Known, Mints
  <1>10. Marked'
    BY <1>1, <1>5 DEF BInv, Marked
  <1>11. \A d \in Out' : c # d /\ d \in Out /\ (c \in raced) /\ d \in raced
    BY <1>1, <1>5 DEF BInv, Marked
  <1>12. InTurn'
    BY <1>1, <1>2, <1>5, <1>11 DEF BInv, InTurn
  <1>13. JarSent'
    BY <1>1, <1>11 DEF JarSent
  <1>14. JarAfter'
    <2>1. ASSUME NEW x \in Answered \ raced, reply[x] = "ok", op[x].kind # "revokeAll"
          PROVE  \/ jar' = None
                 \/ jar' = x /\ op[x].kind # "revoke"
                 \/ x \in before[jar']
      <3>1. CASE jar' = jar
        BY <2>1, <3>1 DEF BInv, JarAfter
      <3>2. CASE jar' = c
        BY <1>1, <2>1, <3>2 DEF BInv, InTurn
      <3>3. QED
        BY <1>7, <3>1, <3>2
    <2>2. ASSUME reply[c] = "ok", op[c].kind # "revokeAll"
          PROVE  jar' = None \/ (jar' = c /\ op[c].kind # "revoke")
      <3>1. op[c].kind \in {"issue", "rotate", "revoke"}
        BY <2>2 DEF BInv, IInv, TypeOK, Op, Kinds
      <3>2. QED
        BY <1>4, <2>2, <3>1, ArrivalJar
    <2>3. QED
      BY <1>1, <1>2, <1>5, <2>1, <2>2 DEF JarAfter
  <1>15. LoggedInAgain'
    <2>1. ASSUME NEW x \in Answered' \ raced, NEW d \in mine,
                 op[x].kind = "revoke", reply[x] = "ok",
                 x \in before[d], op[d].kind = "rotate", op[d].token # None
          PROVE  LoginBetween(x, d)'
      <3>1. x # c
        BY <1>1, <2>1 DEF BInv, InTurn
      <3>2. LoginBetween(x, d)
        BY <1>5, <2>1, <3>1 DEF BInv, LoggedInAgain
      <3>3. x \in Calls /\ d \in Calls
        BY <1>5, <2>1, <3>1 DEF BInv, BrowserTypeOK, Answered
      <3>4. QED
        BY <1>1, <3>2, <3>3, ServerKept
    <2>2. QED
      BY <1>1, <1>2, <2>1 DEF LoggedInAgain
  <1>16. QED
    BY <1>3, <1>8, <1>9, <1>10, <1>12, <1>13, <1>14, <1>15 DEF BInv

\* The browser waits for a call no longer.
LEMMA LoseKeeps ==
    ASSUME BInv, NEW c \in Calls, Lose(c)
    PROVE  BInv'
  <1>1. UNCHANGED vars /\ jar' = jar /\ mine' = mine /\ raced' = raced
          /\ heard' = heard \cup {c} /\ lost' = lost \cup {c} /\ c \in Out
    BY DEF Lose
  <1>2. pc' = pc /\ op' = op /\ reply' = reply /\ before' = before
    BY <1>1 DEF vars
  <1>3. IInv' /\ SInv'
    BY <1>1, ServerKept
  <1>4. c \in mine /\ c \notin heard
    BY <1>1 DEF Out
  <1>5. Out' = Out \ {c} /\ Answered' = Answered
    BY <1>1, <1>4 DEF Out, Answered
  <1>6. BrowserTypeOK'
    BY <1>1, <1>2, <1>3, <1>4 DEF IInv, BInv, BrowserTypeOK
  <1>7. Known' /\ Marked' /\ JarSent' /\ JarAfter'
    BY <1>1, <1>2, <1>5 DEF BInv, Known, Marked, JarSent, JarAfter, Mints
  <1>8. InTurn'
    BY <1>1, <1>2, <1>5 DEF BInv, InTurn
  <1>9. LoggedInAgain'
    <2>1. \A x \in Answered, d \in mine : LoginBetween(x, d) => LoginBetween(x, d)'
      BY <1>1, ServerKept DEF BInv, BrowserTypeOK, Answered
    <2>2. QED
      BY <1>1, <1>2, <1>5, <2>1 DEF BInv, LoggedInAgain
  <1>10. QED
    BY <1>3, <1>6, <1>7, <1>8, <1>9 DEF BInv

LEMMA CookieExpiresKeeps ==
    ASSUME BInv, CookieExpires
    PROVE  BInv'
  <1>1. UNCHANGED vars /\ jar' = None
          /\ mine' = mine /\ raced' = raced /\ heard' = heard /\ lost' = lost
    BY DEF CookieExpires
  <1>2. pc' = pc /\ op' = op /\ reply' = reply /\ before' = before
    BY <1>1 DEF vars
  <1>3. IInv' /\ SInv'
    BY <1>1, ServerKept
  <1>4. Out' = Out /\ Answered' = Answered
    BY <1>1 DEF Out, Answered
  <1>5. BrowserTypeOK'
    BY <1>1, <1>2, <1>3 DEF IInv, BInv, BrowserTypeOK
  <1>6. Known' /\ Marked' /\ JarSent' /\ JarAfter'
    BY <1>1, <1>2, <1>4 DEF BInv, Known, Marked, JarSent, JarAfter
  <1>7. InTurn'
    BY <1>1, <1>2, <1>4 DEF BInv, InTurn
  <1>8. LoggedInAgain'
    <2>1. \A x \in Answered, d \in mine : LoginBetween(x, d) => LoginBetween(x, d)'
      BY <1>1, ServerKept DEF BInv, BrowserTypeOK, Answered
    <2>2. QED
      BY <1>1, <1>2, <1>4, <2>1 DEF BInv, LoggedInAgain
  <1>9. QED
    BY <1>3, <1>5, <1>6, <1>7, <1>8 DEF BInv

LEMMA BInvInit ==
    ASSUME BrowserInit
    PROVE  BInv
  <1>1. IInv
    BY InitInv DEF BrowserInit
  <1>2. \A c \in Calls : token[c] = NoToken /\ reply[c] = "none" /\ before[c] = {}
    BY DEF BrowserInit, Init
  <1>3. SInv
    BY <1>2 DEF SInv, Ordered, RevokedByACall, RejectedForGood, NoToken
  <1>4. /\ jar = None /\ mine = {} /\ heard = {} /\ lost = {} /\ raced = {}
        /\ Out = {} /\ Answered = {}
    BY DEF BrowserInit, Out, Answered
  <1>5. BrowserTypeOK
    BY <1>1, <1>4 DEF BrowserTypeOK, IInv
  <1>6. Known /\ Marked /\ InTurn /\ JarSent /\ JarAfter /\ LoggedInAgain
    BY <1>4 DEF Known, Marked, InTurn, JarSent, JarAfter, LoggedInAgain
  <1>7. QED
    BY <1>1, <1>3, <1>5, <1>6 DEF BInv

LEMMA BInvStep ==
    ASSUME BInv, [BrowserNext]_allVars
    PROVE  BInv'
  BY BrowserSteps, ServesKeeps, SendsKeeps, ArriveKeeps, LoseKeeps, CookieExpiresKeeps

-----------------------------------------------------------------------------
(* What the invariant implies.                                             *)

LEMMA DeadCookies ==
    ASSUME BInv
    PROVE  DeadCookieHasACause
  <1>1. SUFFICES ASSUME jar # None, jar \notin Live \cup expired, op[jar].user \notin gone
                 PROVE  \E d \in Calls \ {jar} : pc[d] # "new" /\ Excuse(d)
    BY DEF DeadCookieHasACause
  <1>2. jar \in Calls /\ reply[jar] = "ok" /\ Mints(jar)
    BY <1>1 DEF BInv, BrowserTypeOK, Known
  <1>3. token[jar].state = "revoked"
    <2>1. token[jar].state # "absent" /\ token[jar] \in Token
      BY <1>1, <1>2 DEF BInv, IInv, Control, Minted, TypeOK
    <2>2. QED
      BY <1>1, <1>2, <2>1 DEF Token, TokenStates, Live
  <1>4. PICK d \in Calls \ {jar} : Revoker(d) /\ d \notin before[jar]
    BY <1>2, <1>3 DEF BInv, SInv, RevokedByACall
  <1>5. pc[d] # "new"
    BY <1>4 DEF Revoker
  <1>6. ASSUME ~Excuse(d)
        PROVE  FALSE
    <2>1. d \in Answered \ raced /\ reply[d] # "failed" /\ op[d].kind # "revokeAll"
      BY <1>6 DEF Excuse, Out, Answered
    <2>2. reply[d] = "ok"
      BY <1>4, <2>1 DEF Revoker, BInv, Known
    <2>3. QED
      BY <1>1, <1>4, <2>1, <2>2 DEF BInv, JarAfter
  <1>7. QED
    BY <1>4, <1>5, <1>6

LEMMA LogoutsLast ==
    ASSUME BInv
    PROVE  LoggedOutMeansOut
  BY LoggedOut DEF LoggedOutMeansOut, LoginBetween, Answered

LEMMA CookieKept ==
    ASSUME BInv, NEW c \in Calls, Arrive(c), jar \in Live \ expired, jar' # jar, c \notin raced
    PROVE  OtherUser(c)
  <1>1. c \in Out /\ pc[c] = "done"
    BY DEF Arrive
  <1>2. jar # None /\ jar \in Calls /\ c # None
    BY SessionAssumption DEF Live
  <1>3. jar \in Answered /\ Mints(jar)
    BY <1>2 DEF BInv, BrowserTypeOK, Known, Answered
  <1>4. op[c].kind \in Kinds
    BY DEF BInv, IInv, TypeOK, Op
  <1>5. ASSUME op[c].kind \in {"rotate", "revoke"}, reply[c] \in {"ok", "invalid"}
        PROVE  FALSE
    <2>1. op[c].token = jar
      BY <1>1, <1>2, <1>5 DEF BInv, JarSent
    <2>2. Ends(c, jar)
      BY <1>5, <2>1 DEF Ends
    <2>3. CASE reply[c] = "ok"
      BY <1>2, <2>2, <2>3 DEF BInv, IInv, Ended, Past
    <2>4. CASE reply[c] = "invalid"
      BY <1>2, <2>1, <2>4 DEF BInv, SInv, RejectedForGood
    <2>5. QED
      BY <1>5, <2>3, <2>4
  <1>6. ASSUME op[c].kind = "issue", reply[c] = "ok", op[jar].user = op[c].user
        PROVE  FALSE
    <2>1. jar \in before[c]
      BY <1>1, <1>3 DEF BInv, InTurn
    <2>2. Ends(c, jar)
      BY <1>3, <1>6, <2>1 DEF Ends, Mints
    <2>3. QED
      BY <1>2, <1>6, <2>2 DEF BInv, IInv, Ended, Past
  <1>7. reply[c] \in {"ok", "invalid"} /\ op[c].kind # "revokeAll"
    BY ArrivalJar DEF BInv, SInv, RejectedForGood
  <1>8. op[c].kind = "issue" /\ reply[c] = "ok"
    BY <1>4, <1>5, <1>7 DEF Kinds, BInv, SInv, RejectedForGood
  <1>9. QED
    BY <1>6, <1>8 DEF OtherUser

-----------------------------------------------------------------------------
\* The session service keeps its invariant under the browser's calls and everybody
\* else's, and the browser's calls keep their order.
THEOREM BrowserInvariance == BrowserSpec => []BInv
  <1>1. BrowserInit => BInv
    BY BInvInit
  <1>2. BInv /\ [BrowserNext]_allVars => BInv'
    BY BInvStep
  <1>3. QED
    BY <1>1, <1>2, PTL DEF BrowserSpec

\* With a browser, too, every state of the session service is well formed, and the jar
\* holds nothing but a token the browser was handed.
THEOREM BrowserTypes == BrowserSpec => []BrowserTypeOK
  <1>1. BInv => BrowserTypeOK
    BY DEF BInv
  <1>2. QED
    BY BrowserInvariance, <1>1, PTL

\* What the session service promises it promises to a browser: ended tokens stay ended
\* and buy nothing, a line has one live token, and two devices take an overlap.
THEOREM BrowserSessions ==
    BrowserSpec => [](SignedOut /\ DeadTokensAreRefused /\ LineIsSpent /\ TwoDevicesNeedOverlap)
  <1>1. BInv => SignedOut /\ DeadTokensAreRefused /\ LineIsSpent /\ TwoDevicesNeedOverlap
    BY InvImplies DEF BInv
  <1>2. QED
    BY BrowserInvariance, <1>1, PTL

\* A cookie that stops working, other than by expiry or with its account, has a cause:
\* another client, or a call of the browser's own that failed, got lost, raced or was a
\* logout everywhere.
THEOREM DeadCookiesExplained == BrowserSpec => []DeadCookieHasACause
  <1>1. BInv => DeadCookieHasACause
    BY DeadCookies
  <1>2. QED
    BY BrowserInvariance, <1>1, PTL

\* After a logout that was answered and raced with nothing, only a login on this browser,
\* made after it, brings a cookie back.
THEOREM LogoutLasts == BrowserSpec => []LoggedOutMeansOut
  <1>1. BInv => LoggedOutMeansOut
    BY LogoutsLast
  <1>2. QED
    BY BrowserInvariance, <1>1, PTL

\* No answer takes a working cookie away, unless its call raced with another of the
\* browser's or logged in another user.
THEOREM CookiesKept == BrowserSpec => WorkingCookieKept
  <1>1. BInv /\ [BrowserNext]_allVars =>
          [\A c \in Calls : (Arrive(c) /\ jar \in Live \ expired /\ jar' # jar)
                                => c \in raced \/ OtherUser(c)]_allVars
    BY CookieKept
  <1>2. QED
    BY BrowserInvariance, <1>1, PTL DEF BrowserSpec, WorkingCookieKept

=============================================================================
