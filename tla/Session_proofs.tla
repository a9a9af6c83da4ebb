--------------------------- MODULE Session_proofs ---------------------------
(***************************************************************************)
(* Proofs about Session, for any number of calls and of users.             *)
(*                                                                         *)
(* The lemmas are about Step, which is a step of Session or the answer to  *)
(* a call that executes no statement, so that Browser, whose logout may be *)
(* such a call, can use them.                                              *)
(***************************************************************************)
EXTENDS Session, TLAPS

\* A logout that presents no token at all.
Unasked(c) ==
    /\ pc[c] = "new"
    /\ op' = [op EXCEPT ![c] = [kind |-> "revoke", token |-> None, user |-> None]]
    /\ before' = [before EXCEPT ![c] = Done]
    /\ Return(c, "ok")
    /\ UNCHANGED <<token, expired, gone>>

Step == [Next]_vars \/ \E c \in Calls : Unasked(c)

LEMMA StepCases ==
    ASSUME Step
    PROVE  \/ \E c \in Calls, u \in Users : BeginIssue(c, u) \/ BeginRevokeAll(c, u)
           \/ \E c \in Calls, t \in Held : BeginRotate(c, t) \/ BeginRevoke(c, t)
           \/ \E c \in Calls : Unasked(c)
           \/ \E c \in Calls : Find(c)
           \/ \E c \in Calls : RevokeOne(c)
           \/ \E c \in Calls : RevokeAllForUser(c)
           \/ \E c \in Calls : Save(c)
           \/ \E c \in Calls : Fail(c) \/ Expire(c)
           \/ \E u \in Users : DeleteUser(u)
           \/ UNCHANGED vars
  BY DEF Step, Next, Start, Advance, AllDone

-----------------------------------------------------------------------------
(* The inductive invariant.                                                *)

Mints(c) == op[c].kind \in {"issue", "rotate"}

\* What a call was asked, and what it has learnt of the owner: a token that is presented
\* was handed out before, and its owner is its own line's.
Asked(c) ==
    /\ pc[c] = "new" => op[c] = NoOp /\ before[c] = {}
    /\ (pc[c] # "new" /\ op[c].kind \in {"issue", "revokeAll"}) => op[c].user \in Users
    /\ op[c].kind \in {"issue", "revokeAll"} => op[c].token = None
    /\ op[c].token # None =>
          op[c].token \in before[c] /\ Mints(op[c].token) /\ reply[op[c].token] = "ok"
    /\ (op[c].kind = "rotate" /\ op[c].user # None) =>
          op[c].token # None /\ op[c].user = op[op[c].token].user
    /\ op[c].kind = "revoke" => op[c].user = None
    /\ before[c] \subseteq Done \ {c}

\* Where a call of which kind can be, and what it knows there.
Placed(c) ==
    /\ pc[c] = "find" => op[c].kind \in {"rotate", "revoke"} /\ op[c].user = None
    /\ pc[c] = "revokeOne" =>
          /\ op[c].kind \in {"rotate", "revoke"} /\ op[c].token # None
          /\ op[c].kind = "rotate" => op[c].user # None
    /\ pc[c] = "revokeAll" => op[c].kind \in {"issue", "revokeAll"}
    /\ pc[c] = "save" => Mints(c) /\ op[c].user # None
    /\ pc[c] # "done" => reply[c] = "none"
    /\ pc[c] = "done" => reply[c] # "none"
    /\ (reply[c] = "ok" /\ Mints(c)) => op[c].user # None

\* A row is its call's, and is there when the call has said so, unless its owner is gone.
Minted(t) ==
    /\ token[t].state # "absent" =>
          /\ pc[t] = "done" /\ Mints(t)
          /\ op[t].user # None /\ token[t].user = op[t].user
    /\ (Mints(t) /\ reply[t] = "ok" /\ op[t].user \notin gone) => token[t].state # "absent"

Control == \A c \in Calls : Asked(c) /\ Placed(c) /\ Minted(c)

\* Call d has revoked what it was to revoke: it has said so, goes on to save, or has saved
\* (and could not say so).
Past(d) == reply[d] = "ok" \/ pc[d] = "save" \/ token[d].state # "absent"

Ended == \A d, t \in Calls : (Past(d) /\ Ends(d, t)) => t \notin Live

\* A rotation that has found its token live began before anybody had ended it.
Refused ==
    \A c, d \in Calls :
        (op[c].kind = "rotate" /\ op[c].user # None /\ d \in before[c] /\ Past(d))
            => ~Ends(d, op[c].token)

\* Two calls overlapped somewhere in the lines of a and b.
Meet(a, b) == \E x \in Line(a), y \in Line(b) : Overlap(x, y)

TokensMeet ==
    \A a, b \in Live : (a # b /\ token[a].user = token[b].user) => Meet(a, b)

\* A rotation under way has met every live token of its user but the one it revokes.
RotationsMeet ==
    \A a \in Live, b \in Calls :
        (/\ op[b].kind = "rotate" /\ pc[b] \in {"revokeOne", "save"}
         /\ a # op[b].token /\ token[a].user = op[b].user) => Meet(a, b)

IInv == TypeOK /\ Control /\ Ended /\ Refused /\ TokensMeet /\ RotationsMeet

-----------------------------------------------------------------------------
(* Types and control.                                                      *)

\* A call begins.
LEMMA TypeBegin ==
    ASSUME TypeOK, NEW c \in Calls, NEW k \in Kinds, NEW t \in Calls \cup {None},
           NEW u \in Users \cup {None}, NEW l \in Running \cup {"done"}, NEW r \in Replies,
           op' = [op EXCEPT ![c] = [kind |-> k, token |-> t, user |-> u]],
           before' = [before EXCEPT ![c] = Done],
           pc' = [pc EXCEPT ![c] = l], reply' = [reply EXCEPT ![c] = r] \/ UNCHANGED reply,
           UNCHANGED <<token, expired, gone>>
    PROVE  TypeOK'
  <1>1. [kind |-> k, token |-> t, user |-> u] \in Op
    BY DEF Op
  <1>2. op' \in [Calls -> Op]
    BY <1>1 DEF TypeOK
  <1>3. before' \in [Calls -> SUBSET Calls]
    BY DEF TypeOK, Done
  <1>4. Live' = Live
    BY DEF Live
  <1>5. QED
    BY <1>2, <1>3, <1>4 DEF TypeOK

LEMMA TypeStep ==
    ASSUME TypeOK, Control, Step
    PROVE  TypeOK'
  <1> USE SessionAssumption DEF Goto, Return, Executed
  <1>1. ASSUME NEW c \in Calls, NEW u \in Users, BeginIssue(c, u) \/ BeginRevokeAll(c, u)
        PROVE  TypeOK'
    <2>1. PICK k \in {"issue", "revokeAll"} : Begin(c, k, None, u, "revokeAll")
      BY <1>1 DEF BeginIssue, BeginRevokeAll
    <2>2. k \in Kinds /\ "revokeAll" \in Running
      BY DEF Kinds, Running
    <2>3. "none" \in Replies
      BY DEF Replies
    <2>4. QED
      BY <2>1, <2>2, <2>3, TypeBegin DEF Begin
  <1>2. ASSUME NEW c \in Calls, NEW t \in Held, BeginRotate(c, t) \/ BeginRevoke(c, t)
        PROVE  TypeOK'
    <2>1. PICK k \in {"rotate", "revoke"} : Begin(c, k, t, None, "find")
      BY <1>2 DEF BeginRotate, BeginRevoke
    <2>2. k \in Kinds /\ "find" \in Running /\ t \in Calls \cup {None}
      BY DEF Kinds, Running, Held
    <2>3. "none" \in Replies
      BY DEF Replies
    <2>4. QED
      BY <2>1, <2>2, <2>3, TypeBegin DEF Begin
  <1>3. ASSUME NEW c \in Calls, Unasked(c)
        PROVE  TypeOK'
    <2>1. "revoke" \in Kinds /\ "ok" \in Replies
      BY DEF Kinds, Replies
    <2>2. QED
      BY <1>3, <2>1, TypeBegin DEF Unasked
  <1>4. ASSUME NEW c \in Calls, Find(c)
        PROVE  TypeOK'
    <2>1. op' \in [Calls -> Op]
      <3>1. CASE op' = op
        BY <3>1 DEF TypeOK
      <3>2. CASE op' # op
        <4>1. op[c].token \in Calls /\ op' = [op EXCEPT ![c].user = token[op[c].token].user]
          BY <1>4, <3>2 DEF TypeOK, Find, Op
        <4>2. token[op[c].token].user \in Users \cup {None}
          BY <4>1 DEF TypeOK, Token
        <4>3. QED
          BY <4>1, <4>2 DEF TypeOK, Op
      <3>3. QED
        BY <3>1, <3>2
    <2>2. Live' = Live
      BY <1>4 DEF Find, Live
    <2>3. QED
      BY <1>4, <2>1, <2>2 DEF TypeOK, Find, Running, Replies
  <1>5. ASSUME NEW c \in Calls, RevokeOne(c)
        PROVE  TypeOK'
    <2>1. op[c].token \in Calls
      BY <1>5 DEF RevokeOne, Control, Placed, TypeOK, Op
    <2>2. token' \in [Calls -> Token]
      <3>1. token' = token \/ token' = [token EXCEPT ![op[c].token].state = "revoked"]
        BY <1>5 DEF RevokeOne
      <3>2. token[op[c].token] \in Token
        BY <2>1 DEF TypeOK
      <3>3. QED
        BY <2>1, <3>1, <3>2 DEF TypeOK, Token, TokenStates
    <2>3. \A t \in Live' : t \in Live /\ token'[t] = token[t]
      BY <1>5, <2>1 DEF TypeOK, RevokeOne, Token, Live
    <2>4. QED
      BY <1>5, <2>2, <2>3 DEF TypeOK, RevokeOne, Running, Replies
  <1>6. ASSUME NEW c \in Calls, RevokeAllForUser(c)
        PROVE  TypeOK'
    <2>1. op[c].user \in Users
      BY <1>6 DEF RevokeAllForUser, Control, Placed, Asked
    <2>2. token' \in [Calls -> Token]
      BY <1>6, <2>1 DEF TypeOK, RevokeAllForUser, Token, TokenStates
    <2>3. \A t \in Live' : t \in Live /\ token'[t] = token[t]
      BY <1>6, <2>1 DEF TypeOK, RevokeAllForUser, Live
    <2>4. QED
      BY <1>6, <2>2, <2>3 DEF TypeOK, RevokeAllForUser, Running, Replies
  <1>7. ASSUME NEW c \in Calls, Save(c)
        PROVE  TypeOK'
    <2>1. op[c].user \in Users \ gone
      BY <1>7 DEF Save, Control, Placed, TypeOK, Op
    <2>2. token' \in [Calls -> Token]
      BY <1>7, <2>1 DEF TypeOK, Save, Token, TokenStates
    <2>3. \A t \in Live' : (t \in Live /\ token'[t] = token[t]) \/ token'[t].user = op[c].user
      BY <1>7, <2>1 DEF TypeOK, Save, Live
    <2>4. QED
      BY <1>7, <2>1, <2>2, <2>3 DEF TypeOK, Save, Running, Replies
  <1>8. ASSUME NEW c \in Calls, Fail(c) \/ Expire(c)
        PROVE  TypeOK'
    <2>1. Live' = Live
      BY <1>8 DEF Fail, Expire, Live
    <2>2. QED
      BY <1>8, <2>1 DEF TypeOK, Fail, Expire, Replies
  <1>9. ASSUME NEW u \in Users, DeleteUser(u)
        PROVE  TypeOK'
    <2>1. token' \in [Calls -> Token]
      BY <1>9 DEF TypeOK, DeleteUser, Token, TokenStates, NoToken
    <2>2. \A t \in Live' : t \in Live /\ token'[t] = token[t] /\ token[t].user # u
      BY <1>9 DEF TypeOK, DeleteUser, NoToken, Live
    <2>3. \A t \in Live' : token'[t].user \in Users \ gone'
      BY <1>9, <2>2 DEF TypeOK, DeleteUser
    <2>4. QED
      BY <1>9, <2>1, <2>3 DEF TypeOK, DeleteUser
  <1>10. CASE UNCHANGED vars
    <2>1. Live' = Live
      BY <1>10 DEF vars, Live
    <2>2. QED
      BY <1>10, <2>1 DEF TypeOK, vars
  <1>11. QED
    BY StepCases, <1>1, <1>2, <1>3, <1>4, <1>5, <1>6, <1>7, <1>8, <1>9, <1>10

-----------------------------------------------------------------------------
(* What a step may do to one call and to one token.                        *)

\* What call d was asked changes when it begins, and when a rotation learns its owner.
BeginsForUser(d) ==
    \E k \in {"issue", "revokeAll"}, u \in Users :
        op'[d] = [kind |-> k, token |-> None, user |-> u] /\ pc'[d] = "revokeAll"
BeginsWithToken(d) ==
    \E k \in {"rotate", "revoke"}, t \in Held :
        /\ op'[d] = [kind |-> k, token |-> t, user |-> None]
        /\ pc'[d] = "find" \/ (pc'[d] = "done" /\ k = "revoke")
Begins(d) ==
    /\ pc[d] = "new" /\ before'[d] = Done
    /\ BeginsForUser(d) \/ BeginsWithToken(d)
Learns(d) ==
    /\ pc[d] = "find" /\ op[d].kind = "rotate" /\ op[d].token \in Live
    /\ op'[d] = [op[d] EXCEPT !.user = token[op[d].token].user]
    /\ before'[d] = before[d] /\ pc'[d] = "revokeOne" /\ token' = token
Idles(d) ==
    /\ op'[d] = op[d] /\ before'[d] = before[d]
    /\ pc[d] = "new" <=> pc'[d] = "new"

LEMMA OpChange ==
    ASSUME TypeOK, Step, NEW d \in Calls
    PROVE  Idles(d) \/ Begins(d) \/ Learns(d)
  <1> USE DEF Goto, Return, Executed
  <1>1. ASSUME NEW c \in Calls, NEW u \in Users, BeginIssue(c, u) \/ BeginRevokeAll(c, u)
        PROVE  Idles(d) \/ Begins(d)
    <2>1. PICK k \in {"issue", "revokeAll"} : Begin(c, k, None, u, "revokeAll")
      BY <1>1 DEF BeginIssue, BeginRevokeAll
    <2>2. CASE c = d
      BY <2>1, <2>2 DEF Begin, TypeOK, Begins, BeginsForUser
    <2>3. CASE c # d
      BY <2>1, <2>3 DEF Begin, TypeOK, Idles
    <2>4. QED
      BY <2>2, <2>3
  <1>2. ASSUME NEW c \in Calls, NEW t \in Held, BeginRotate(c, t) \/ BeginRevoke(c, t)
        PROVE  Idles(d) \/ Begins(d)
    <2>1. PICK k \in {"rotate", "revoke"} : Begin(c, k, t, None, "find")
      BY <1>2 DEF BeginRotate, BeginRevoke
    <2>2. CASE c = d
      BY <2>1, <2>2 DEF Begin, TypeOK, Begins, BeginsWithToken
    <2>3. CASE c # d
      BY <2>1, <2>3 DEF Begin, TypeOK, Idles
    <2>4. QED
      BY <2>2, <2>3
  <1>3. ASSUME NEW c \in Calls, Unasked(c)
        PROVE  Idles(d) \/ Begins(d)
    <2>1. None \in Held
      BY DEF Held
    <2>2. CASE c = d
      BY <1>3, <2>1, <2>2 DEF Unasked, TypeOK, Begins, BeginsWithToken
    <2>3. CASE c # d
      BY <1>3, <2>3 DEF Unasked, TypeOK, Idles
    <2>4. QED
      BY <2>2, <2>3
  <1>4. ASSUME NEW c \in Calls, Find(c)
        PROVE  Idles(d) \/ Learns(d)
    <2>1. CASE op' = op
      BY <1>4, <2>1 DEF Find, TypeOK, Idles
    <2>2. CASE op' # op
      <3>1. /\ op[c].kind = "rotate" /\ op[c].token \in Live
            /\ op' = [op EXCEPT ![c].user = token[op[c].token].user]
        BY <1>4, <2>2 DEF Find, TypeOK, Op, Live
      <3>2. CASE c = d
        <4>1. op'[d] = [op[d] EXCEPT !.user = token[op[d].token].user]
          BY <3>1, <3>2 DEF TypeOK
        <4>2. pc[d] = "find" /\ token' = token /\ before' = before
          BY <1>4, <3>2 DEF Find
        <4>3. pc'[d] = "revokeOne"
          BY <1>4, <2>2, <3>2 DEF Find, TypeOK
        <4>4. QED
          BY <3>1, <3>2, <4>1, <4>2, <4>3 DEF Learns
      <3>3. CASE c # d
        BY <1>4, <3>1, <3>3 DEF Find, TypeOK, Idles
      <3>4. QED
        BY <3>2, <3>3
    <2>3. QED
      BY <2>1, <2>2
  <1>5. ASSUME NEW c \in Calls, RevokeOne(c)
        PROVE  Idles(d)
    BY <1>5 DEF RevokeOne, TypeOK, Idles
  <1>6. ASSUME NEW c \in Calls, RevokeAllForUser(c)
        PROVE  Idles(d)
    BY <1>6 DEF RevokeAllForUser, TypeOK, Idles
  <1>7. ASSUME NEW c \in Calls, Save(c)
        PROVE  Idles(d)
    BY <1>7 DEF Save, TypeOK, Idles
  <1>8. ASSUME NEW c \in Calls, Fail(c) \/ Expire(c)
        PROVE  Idles(d)
    BY <1>8 DEF Fail, Expire, TypeOK, Idles, Running
  <1>9. ASSUME NEW u \in Users, DeleteUser(u)
        PROVE  Idles(d)
    BY <1>9 DEF DeleteUser, Idles
  <1>10. CASE UNCHANGED vars
    BY <1>10 DEF vars, Idles
  <1>11. QED
    BY StepCases, <1>1, <1>2, <1>3, <1>4, <1>5, <1>6, <1>7, <1>8, <1>9, <1>10

\* A call that has returned stays as it is.
LEMMA DoneStays ==
    ASSUME TypeOK, Step, NEW d \in Calls, pc[d] = "done"
    PROVE  pc'[d] = "done" /\ reply'[d] = reply[d] /\ op'[d] = op[d] /\ before'[d] = before[d]
  <1>1. pc'[d] = "done" /\ reply'[d] = reply[d]
    <2> USE DEF Goto, Return, Executed
    <2>1. ASSUME NEW c \in Calls, NEW u \in Users, BeginIssue(c, u) \/ BeginRevokeAll(c, u)
          PROVE  pc'[d] = "done" /\ reply'[d] = reply[d]
      BY <2>1 DEF TypeOK, BeginIssue, BeginRevokeAll, Begin
    <2>2. ASSUME NEW c \in Calls, NEW t \in Held, BeginRotate(c, t) \/ BeginRevoke(c, t)
          PROVE  pc'[d] = "done" /\ reply'[d] = reply[d]
      BY <2>2 DEF TypeOK, BeginRotate, BeginRevoke, Begin
    <2>3. ASSUME NEW c \in Calls, Unasked(c) \/ Find(c) \/ RevokeOne(c) \/ RevokeAllForUser(c)
          PROVE  pc'[d] = "done" /\ reply'[d] = reply[d]
      BY <2>3 DEF TypeOK, Unasked, Find, RevokeOne, RevokeAllForUser
    <2>4. ASSUME NEW c \in Calls, Save(c) \/ Fail(c) \/ Expire(c)
          PROVE  pc'[d] = "done" /\ reply'[d] = reply[d]
      BY <2>4 DEF TypeOK, Save, Fail, Expire, Running
    <2>5. CASE UNCHANGED vars \/ \E u \in Users : DeleteUser(u)
      BY <2>5 DEF vars, DeleteUser
    <2>6. QED
      BY StepCases, <2>1, <2>2, <2>3, <2>4, <2>5
  <1>2. op'[d] = op[d] /\ before'[d] = before[d]
    BY OpChange DEF Idles, Begins, Learns
  <1>3. QED
    BY <1>1, <1>2

\* A token that is live was live before, unless its own call saves it.
LEMMA LiveChange ==
    ASSUME TypeOK, Control, Step, NEW t \in Calls, t \in Live'
    PROVE  (t \in Live /\ token'[t] = token[t]) \/ Save(t)
  <1>1. ASSUME NEW c \in Calls, RevokeOne(c)
        PROVE  t \in Live /\ token'[t] = token[t]
    <2>1. op[c].token \in Calls
      BY <1>1 DEF RevokeOne, Control, Placed, TypeOK, Op
    <2>2. QED
      BY <1>1, <2>1 DEF RevokeOne, TypeOK, Token, Live
  <1>2. ASSUME NEW c \in Calls, RevokeAllForUser(c)
        PROVE  t \in Live /\ token'[t] = token[t]
    BY <1>2 DEF RevokeAllForUser, Live, TypeOK
  <1>3. ASSUME NEW c \in Calls, Save(c)
        PROVE  (t \in Live /\ token'[t] = token[t]) \/ Save(t)
    <2>1. CASE c = t
      BY <1>3, <2>1
    <2>2. CASE c # t
      BY <1>3, <2>2 DEF Save, Live, TypeOK
    <2>3. QED
      BY <2>1, <2>2
  <1>4. ASSUME NEW u \in Users, DeleteUser(u)
        PROVE  t \in Live /\ token'[t] = token[t]
    BY <1>4 DEF DeleteUser, Live, NoToken, TypeOK
  <1>5. CASE token' = token
    BY <1>5 DEF Live
  <1>6. QED
    <2>1. ASSUME NEW c \in Calls, NEW u \in Users, BeginIssue(c, u) \/ BeginRevokeAll(c, u)
          PROVE  token' = token
      BY <2>1 DEF BeginIssue, BeginRevokeAll, Begin
    <2>2. ASSUME NEW c \in Calls, NEW h \in Held, BeginRotate(c, h) \/ BeginRevoke(c, h)
          PROVE  token' = token
      BY <2>2 DEF BeginRotate, BeginRevoke, Begin
    <2>3. ASSUME NEW c \in Calls, Unasked(c) \/ Find(c) \/ Fail(c) \/ Expire(c)
          PROVE  token' = token
      BY <2>3 DEF Unasked, Find, Fail, Expire
    <2>4. CASE UNCHANGED vars
      BY <1>5, <2>4 DEF vars
    <2>5. QED
      BY StepCases, <1>1, <1>2, <1>3, <1>4, <1>5, <2>1, <2>2, <2>3, <2>4

\* A call stays where it is unless it takes a step of its own.
Still(d) ==
    pc'[d] = pc[d] /\ reply'[d] = reply[d] /\ op'[d] = op[d] /\ before'[d] = before[d]
Moves(d) ==
    \/ \E u \in Users : BeginIssue(d, u) \/ BeginRevokeAll(d, u)
    \/ \E t \in Held : BeginRotate(d, t) \/ BeginRevoke(d, t)
    \/ Unasked(d) \/ Find(d) \/ RevokeOne(d) \/ RevokeAllForUser(d) \/ Save(d) \/ Fail(d)

LEMMA OneMoves ==
    ASSUME TypeOK, Step, NEW d \in Calls
    PROVE  Still(d) \/ Moves(d)
  <1> USE DEF Goto, Return, Executed
  <1>1. ASSUME NEW c \in Calls, NEW u \in Users, BeginIssue(c, u) \/ BeginRevokeAll(c, u)
        PROVE  Still(d) \/ Moves(d)
    <2>1. CASE c = d
      BY <1>1, <2>1 DEF Moves
    <2>2. CASE c # d
      BY <1>1, <2>2 DEF BeginIssue, BeginRevokeAll, Begin, TypeOK, Still
    <2>3. QED
      BY <2>1, <2>2
  <1>2. ASSUME NEW c \in Calls, NEW t \in Held, BeginRotate(c, t) \/ BeginRevoke(c, t)
        PROVE  Still(d) \/ Moves(d)
    <2>1. CASE c = d
      BY <1>2, <2>1 DEF Moves
    <2>2. CASE c # d
      BY <1>2, <2>2 DEF BeginRotate, BeginRevoke, Begin, TypeOK, Still
    <2>3. QED
      BY <2>1, <2>2
  <1>3. ASSUME NEW c \in Calls, Unasked(c) \/ Find(c)
        PROVE  Still(d) \/ Moves(d)
    <2>1. CASE c = d
      BY <1>3, <2>1 DEF Moves
    <2>2. CASE c # d
      BY <1>3, <2>2 DEF Unasked, Find, TypeOK, Still
    <2>3. QED
      BY <2>1, <2>2
  <1>4. ASSUME NEW c \in Calls, RevokeOne(c) \/ RevokeAllForUser(c)
        PROVE  Still(d) \/ Moves(d)
    <2>1. CASE c = d
      BY <1>4, <2>1 DEF Moves
    <2>2. CASE c # d
      BY <1>4, <2>2 DEF RevokeOne, RevokeAllForUser, TypeOK, Still
    <2>3. QED
      BY <2>1, <2>2
  <1>5. ASSUME NEW c \in Calls, Save(c) \/ Fail(c)
        PROVE  Still(d) \/ Moves(d)
    <2>1. CASE c = d
      BY <1>5, <2>1 DEF Moves
    <2>2. CASE c # d
      BY <1>5, <2>2 DEF Save, Fail, TypeOK, Still
    <2>3. QED
      BY <2>1, <2>2
  <1>6. ASSUME NEW c \in Calls, Expire(c)
        PROVE  Still(d)
    BY <1>6 DEF Expire, Still
  <1>7. ASSUME NEW u \in Users, DeleteUser(u)
        PROVE  Still(d)
    BY <1>7 DEF DeleteUser, Still
  <1>8. CASE UNCHANGED vars
    BY <1>8 DEF vars, Still
  <1>9. QED
    BY StepCases, <1>1, <1>2, <1>3, <1>4, <1>5, <1>6, <1>7, <1>8

\* A row stays, is revoked, goes with its owner, or is inserted by its own call.
LEMMA RowChange ==
    ASSUME TypeOK, Control, Step, NEW t \in Calls
    PROVE  \/ token'[t] = token[t]
           \/ /\ token[t].state = "live"
              /\ token'[t] = [state |-> "revoked", user |-> token[t].user]
           \/ token[t].user \in gone' /\ token'[t] = NoToken
           \/ Save(t)
  <1> DEFINE Goal == \/ token'[t] = token[t]
                     \/ /\ token[t].state = "live"
                        /\ token'[t] = [state |-> "revoked", user |-> token[t].user]
                     \/ token[t].user \in gone' /\ token'[t] = NoToken
                     \/ Save(t)
  <1>1. ASSUME NEW c \in Calls, RevokeOne(c)
        PROVE  Goal
    <2>1. op[c].token \in Calls
      BY <1>1 DEF RevokeOne, Control, Placed, TypeOK, Op
    <2>2. token[t] \in Token
      BY DEF TypeOK
    <2>3. token' = token \/ (token[op[c].token].state = "live"
                              /\ token' = [token EXCEPT ![op[c].token].state = "revoked"])
      BY <1>1 DEF RevokeOne
    <2>4. QED
      BY <2>1, <2>2, <2>3 DEF TypeOK, Token
  <1>2. ASSUME NEW c \in Calls, RevokeAllForUser(c)
        PROVE  Goal
    <2>1. \/ token'[t] = token[t]
          \/ t \in LiveOf(op[c].user)
             /\ token'[t] = [state |-> "revoked", user |-> op[c].user]
      BY <1>2 DEF RevokeAllForUser
    <2>2. QED
      BY <2>1 DEF LiveOf, Live
  <1>3. ASSUME NEW c \in Calls, Save(c)
        PROVE  Goal
    <2>1. CASE c = t
      BY <1>3, <2>1
    <2>2. CASE c # t
      BY <1>3, <2>2 DEF Save, TypeOK
    <2>3. QED
      BY <2>1, <2>2
  <1>4. ASSUME NEW u \in Users, DeleteUser(u)
        PROVE  Goal
    BY <1>4 DEF DeleteUser
  <1>5. CASE token' = token
    BY <1>5
  <1>6. QED
    <2>1. ASSUME NEW c \in Calls, NEW u \in Users, BeginIssue(c, u) \/ BeginRevokeAll(c, u)
          PROVE  token' = token
      BY <2>1 DEF BeginIssue, BeginRevokeAll, Begin
    <2>2. ASSUME NEW c \in Calls, NEW h \in Held, BeginRotate(c, h) \/ BeginRevoke(c, h)
          PROVE  token' = token
      BY <2>2 DEF BeginRotate, BeginRevoke, Begin
    <2>3. ASSUME NEW c \in Calls, Unasked(c) \/ Find(c) \/ Fail(c) \/ Expire(c)
          PROVE  token' = token
      BY <2>3 DEF Unasked, Find, Fail, Expire
    <2>4. CASE UNCHANGED vars
      BY <1>5, <2>4 DEF vars
    <2>5. QED
      BY StepCases, <1>1, <1>2, <1>3, <1>4, <1>5, <2>1, <2>2, <2>3, <2>4

\* Only a call that saves makes a row.
LEMMA RowKept ==
    ASSUME TypeOK, Control, Step, NEW t \in Calls, ~Save(t), token'[t].state # "absent"
    PROVE  token[t].state # "absent" /\ token'[t].user = token[t].user
  <1> DEFINE revoked == [state |-> "revoked", user |-> token[t].user]
  <1>1. \/ token'[t] = token[t]
        \/ token[t].state = "live" /\ token'[t] = revoked
        \/ token[t].user \in gone' /\ token'[t] = NoToken
    BY RowChange
  <1>2. QED
    BY <1>1 DEF NoToken

\* Deleted users stay deleted.
LEMMA GoneStays ==
    ASSUME Step
    PROVE  gone \subseteq gone'
  <1>1. ASSUME NEW c \in Calls, NEW u \in Users, BeginIssue(c, u) \/ BeginRevokeAll(c, u)
        PROVE  gone' = gone
    BY <1>1 DEF BeginIssue, BeginRevokeAll, Begin
  <1>2. ASSUME NEW c \in Calls, NEW h \in Held, BeginRotate(c, h) \/ BeginRevoke(c, h)
        PROVE  gone' = gone
    BY <1>2 DEF BeginRotate, BeginRevoke, Begin
  <1>3. ASSUME NEW c \in Calls,
               \/ Unasked(c) \/ Find(c) \/ RevokeOne(c) \/ RevokeAllForUser(c)
               \/ Save(c) \/ Fail(c) \/ Expire(c)
        PROVE  gone' = gone
    BY <1>3 DEF Unasked, Find, RevokeOne, RevokeAllForUser, Save, Fail, Expire
  <1>4. CASE UNCHANGED vars \/ \E u \in Users : DeleteUser(u)
    BY <1>4 DEF vars, DeleteUser
  <1>5. QED
    BY StepCases, <1>1, <1>2, <1>3, <1>4

LEMMA AskedStep ==
    ASSUME TypeOK, Control, Step, NEW d \in Calls
    PROVE  Asked(d)'
  <1>1. Asked(d) /\ Placed(d) /\ Minted(d)
    BY DEF Control
  <1>2. \A x \in Done : x \in Done' /\ op'[x] = op[x] /\ reply'[x] = reply[x]
    BY DoneStays DEF Done
  <1>3. before[d] \subseteq Done \ {d} /\ before[d] \subseteq Calls
    BY <1>1 DEF Asked, Done
  <1>4. CASE Idles(d)
    BY <1>1, <1>2, <1>3, <1>4 DEF Idles, Asked, Mints
  <1>5. CASE Begins(d)
    <2>1. before'[d] = Done /\ d \notin Done
      BY <1>5 DEF Begins, Done
    <2>2. before'[d] \subseteq Done' \ {d}
      BY <1>2, <2>1
    <2>3. CASE BeginsForUser(d)
      <3>1. pc'[d] # "new" /\ op'[d].token = None /\ op'[d].kind \in {"issue", "revokeAll"}
              /\ op'[d].user \in Users
        BY <2>3 DEF BeginsForUser
      <3>2. QED
        BY <2>2, <3>1 DEF Asked
    <2>4. CASE BeginsWithToken(d)
      <3>1. PICK k \in {"rotate", "revoke"}, t \in Held :
              op'[d] = [kind |-> k, token |-> t, user |-> None] /\ pc'[d] # "new"
        BY <2>4 DEF BeginsWithToken
      <3>2. t # None => t \in Done /\ Mints(t) /\ reply[t] = "ok"
        BY DEF Held, Mints, Control, Placed, Done
      <3>3. t # None => op'[t] = op[t] /\ reply'[t] = reply[t]
        BY <1>2, <3>2
      <3>4. QED
        BY <2>1, <2>2, <3>1, <3>2, <3>3 DEF Asked, Mints
    <2>5. QED
      BY <1>5, <2>3, <2>4 DEF Begins
  <1>6. CASE Learns(d)
    <2>1. op'[d] = [op[d] EXCEPT !.user = token[op[d].token].user] /\ before'[d] = before[d]
            /\ pc[d] = "find" /\ pc'[d] = "revokeOne" /\ op[d].kind = "rotate"
      BY <1>6 DEF Learns
    <2>2. op[d].token \in Calls /\ token[op[d].token].state = "live"
      BY <1>6 DEF Learns, Live
    <2>3. op[d].token # None
      BY <2>2, SessionAssumption
    <2>4. op[d].token \in before[d] /\ Mints(op[d].token) /\ reply[op[d].token] = "ok"
      BY <1>1, <2>3 DEF Asked
    <2>5. token[op[d].token].user = op[op[d].token].user
      BY <2>2 DEF Control, Minted
    <2>6. /\ op'[d].kind = "rotate" /\ op'[d].token = op[d].token
          /\ op'[d].user = op[op[d].token].user
      BY <2>1, <2>5 DEF TypeOK, Op
    <2>7. op'[op[d].token] = op[op[d].token] /\ reply'[op[d].token] = reply[op[d].token]
      BY <1>2, <1>3, <2>4
    <2>8. before'[d] \subseteq Done' \ {d}
      BY <1>2, <1>3, <2>1
    <2>9. QED
      BY <2>1, <2>3, <2>4, <2>6, <2>7, <2>8 DEF Asked, Mints
  <1>7. QED
    BY <1>4, <1>5, <1>6, OpChange

\* A rotation that finds its token good learns its owner.
LEMMA FindLearns ==
    ASSUME TypeOK, NEW d \in Calls, Find(d), op[d].kind = "rotate", pc'[d] = "revokeOne"
    PROVE  Learns(d)
  <1>1. /\ op' = [op EXCEPT ![d].user = token[op[d].token].user]
        /\ op[d].token # None /\ token[op[d].token].state = "live"
        /\ pc[d] = "find" /\ token' = token /\ before' = before
    BY DEF Find, Goto, Return, TypeOK
  <1>2. op'[d] = [op[d] EXCEPT !.user = token[op[d].token].user]
    BY <1>1 DEF TypeOK
  <1>3. op[d].token \in Live
    BY <1>1 DEF Live, TypeOK, Op
  <1>4. QED
    BY <1>1, <1>2, <1>3 DEF Learns

LEMMA PlacedStep ==
    ASSUME TypeOK, Control, Step, NEW d \in Calls
    PROVE  Placed(d)'
  <1> USE DEF Goto, Return, Executed
  <1>1. Asked(d) /\ Placed(d)
    BY DEF Control
  <1>2. op[d] \in Op /\ op[d].token \in Calls \cup {None}
    BY DEF TypeOK, Op
  <1>3. CASE Still(d)
    BY <1>1, <1>3 DEF Still, Placed, Mints
  <1>4. ASSUME NEW u \in Users, BeginIssue(d, u) \/ BeginRevokeAll(d, u)
        PROVE  Placed(d)'
    <2>1. PICK k \in {"issue", "revokeAll"} : Begin(d, k, None, u, "revokeAll")
      BY <1>4 DEF BeginIssue, BeginRevokeAll
    <2>2. op'[d].kind = k /\ pc'[d] = "revokeAll" /\ reply'[d] = "none"
      BY <1>1, <2>1 DEF Begin, TypeOK, Placed
    <2>3. QED
      BY <2>2 DEF Placed
  <1>5. ASSUME NEW t \in Held, BeginRotate(d, t) \/ BeginRevoke(d, t)
        PROVE  Placed(d)'
    <2>1. PICK k \in {"rotate", "revoke"} : Begin(d, k, t, None, "find")
      BY <1>5 DEF BeginRotate, BeginRevoke
    <2>2. op'[d].kind = k /\ op'[d].user = None /\ pc'[d] = "find" /\ reply'[d] = "none"
      BY <1>1, <2>1 DEF Begin, TypeOK, Placed
    <2>3. QED
      BY <2>2 DEF Placed
  <1>6. CASE Unasked(d)
    <2>1. op'[d].kind = "revoke" /\ pc'[d] = "done" /\ reply'[d] = "ok"
      BY <1>6 DEF Unasked, TypeOK
    <2>2. QED
      BY <2>1 DEF Placed, Mints
  <1>7. CASE Find(d)
    <2>1. CASE Learns(d)
      <3>1. /\ op[d].kind = "rotate" /\ pc'[d] = "revokeOne"
            /\ op'[d] = [op[d] EXCEPT !.user = token[op[d].token].user]
            /\ op[d].token \in Live
        BY <2>1 DEF Learns
      <3>2. token[op[d].token].user # None /\ op[d].token # None
        BY <3>1, SessionAssumption DEF TypeOK, Live
      <3>3. op'[d].kind = "rotate" /\ op'[d].token # None /\ op'[d].user # None
        BY <1>2, <3>1, <3>2 DEF Op
      <3>4. reply'[d] = "none"
        BY <1>1, <1>7, <3>1 DEF Find, TypeOK, Placed
      <3>5. QED
        BY <3>1, <3>3, <3>4 DEF Placed
    <2>2. CASE ~Learns(d)
      <3>1. op'[d] = op[d]
        BY <1>7, <2>2, OpChange DEF Idles, Begins, Find
      <3>2. pc[d] = "find" /\ reply[d] = "none"
        BY <1>1, <1>7 DEF Find, Placed
      <3>3. CASE op[d].kind = "rotate"
        <4>1. pc'[d] # "revokeOne"
          BY <1>7, <2>2, <3>3, FindLearns
        <4>2. pc'[d] = "done" /\ reply'[d] = "invalid"
          BY <1>7, <3>3, <4>1 DEF Find, TypeOK
        <4>3. QED
          BY <4>2 DEF Placed
      <3>4. CASE op[d].kind = "revoke"
        <4>1. \/ pc'[d] = "revokeOne" /\ reply'[d] = "none" /\ op[d].token # None
              \/ pc'[d] = "done" /\ reply'[d] = "ok"
          BY <1>7, <3>2, <3>4 DEF Find, TypeOK
        <4>2. QED
          BY <3>1, <3>4, <4>1 DEF Placed, Mints
      <3>5. QED
        BY <1>7, <3>3, <3>4 DEF Find
    <2>3. QED
      BY <2>1, <2>2
  <1>8. CASE RevokeOne(d)
    BY <1>1, <1>8 DEF RevokeOne, TypeOK, Placed, Mints
  <1>9. CASE RevokeAllForUser(d)
    <2>1. op[d].kind \in {"issue", "revokeAll"} /\ op[d].user # None
      BY <1>1, <1>9, SessionAssumption DEF RevokeAllForUser, Placed, Asked
    <2>2. QED
      BY <1>1, <1>9, <2>1 DEF RevokeAllForUser, TypeOK, Placed, Mints
  <1>10. CASE Save(d) \/ Fail(d)
    BY <1>1, <1>10 DEF Save, Fail, TypeOK, Placed, Mints, Running
  <1>11. QED
    BY OneMoves, <1>3, <1>4, <1>5, <1>6, <1>7, <1>8, <1>9, <1>10 DEF Moves

\* A call reports that it has minted a token only when it saves it.
LEMMA SaysSaved ==
    ASSUME TypeOK, Control, Step, NEW d \in Calls, Mints(d)', reply'[d] = "ok"
    PROVE  Save(d) \/ (Mints(d) /\ reply[d] = "ok" /\ pc[d] = "done")
  <1> USE DEF Goto, Return, Executed
  <1>1. Asked(d) /\ Placed(d)
    BY DEF Control
  <1>2. CASE Still(d)
    BY <1>1, <1>2 DEF Still, Placed, Mints
  <1>3. ASSUME NEW u \in Users, BeginIssue(d, u) \/ BeginRevokeAll(d, u)
        PROVE  FALSE
    BY <1>1, <1>3 DEF BeginIssue, BeginRevokeAll, Begin, Placed
  <1>4. ASSUME NEW t \in Held, BeginRotate(d, t) \/ BeginRevoke(d, t)
        PROVE  FALSE
    BY <1>1, <1>4 DEF BeginRotate, BeginRevoke, Begin, Placed
  <1>5. CASE Unasked(d)
    BY <1>5 DEF Unasked, Mints, TypeOK
  <1>6. CASE Find(d)
    <2>1. op'[d].kind = op[d].kind
      BY <1>6 DEF Find, TypeOK, Op
    <2>2. QED
      BY <1>1, <1>6, <2>1 DEF Find, Placed, Mints, TypeOK
  <1>7. CASE RevokeOne(d) \/ RevokeAllForUser(d)
    BY <1>1, <1>7 DEF RevokeOne, RevokeAllForUser, Placed, Mints, TypeOK
  <1>8. CASE Fail(d)
    BY <1>8 DEF Fail, TypeOK
  <1>9. QED
    BY OneMoves, <1>2, <1>3, <1>4, <1>5, <1>6, <1>7, <1>8 DEF Moves

LEMMA MintedStep ==
    ASSUME TypeOK, Control, Step, NEW t \in Calls
    PROVE  Minted(t)'
  <1> USE DEF Return, Executed
  <1>1. Placed(t) /\ Minted(t) /\ token[t] \in Token
    BY DEF Control, TypeOK
  <1>2. CASE Save(t)
    <2>1. /\ pc'[t] = "done" /\ op' = op
          /\ token'[t] = [state |-> "live", user |-> op[t].user]
      BY <1>2 DEF Save, TypeOK
    <2>2. Mints(t) /\ op[t].user # None
      BY <1>1, <1>2 DEF Save, Placed
    <2>3. QED
      BY <2>1, <2>2 DEF Minted, Mints
  <1>3. CASE ~Save(t)
    <2> DEFINE revoked == [state |-> "revoked", user |-> token[t].user]
    <2>0. \/ token'[t] = token[t]
          \/ token[t].state = "live" /\ token'[t] = revoked
          \/ token[t].user \in gone' /\ token'[t] = NoToken
      BY <1>3, RowChange
    <2>1. ASSUME token'[t].state # "absent"
          PROVE  token[t].state # "absent" /\ token'[t].user = token[t].user
      BY <2>0, <2>1 DEF NoToken
    <2>2. ASSUME token[t].state # "absent"
          PROVE  pc'[t] = "done" /\ op'[t] = op[t]
      BY <1>1, <2>2, DoneStays DEF Minted
    <2>3. ASSUME Mints(t)', reply'[t] = "ok", op'[t].user \notin gone'
          PROVE  token'[t].state # "absent"
      <3>1. Mints(t) /\ reply[t] = "ok" /\ pc[t] = "done"
        BY <1>3, <2>3, SaysSaved
      <3>2. op'[t] = op[t]
        BY <3>1, DoneStays
      <3>3. token[t].state # "absent" /\ token[t].user = op[t].user
        BY <1>1, <2>3, <3>1, <3>2, GoneStays DEF Minted
      <3>4. QED
        BY <2>0, <2>3, <3>2, <3>3
    <2>4. QED
      BY <1>1, <2>1, <2>2, <2>3 DEF Minted, Mints
  <1>4. QED
    BY <1>2, <1>3

LEMMA ControlStep ==
    ASSUME TypeOK, Control, Step
    PROVE  Control'
  <1>1. \A d \in Calls : Asked(d)' /\ Placed(d)' /\ Minted(d)'
    BY AskedStep, PlacedStep, MintedStep
  <1>2. QED
    BY <1>1 DEF Control

-----------------------------------------------------------------------------
(* What has been ended stays ended.                                        *)

LEMMA PastBegan ==
    ASSUME TypeOK, Control, NEW d \in Calls, Past(d)
    PROVE  pc[d] # "new"
  BY DEF Control, Placed, Minted, Past

LEMMA EndsDone ==
    ASSUME Control, NEW d \in Calls, NEW t \in Calls, Ends(d, t)
    PROVE  t \in before[d] /\ pc[t] = "done"
  BY SessionAssumption DEF Control, Asked, Ends, Done

\* What a call was asked is settled when it begins.
LEMMA BegunKept ==
    ASSUME TypeOK, Step, NEW d \in Calls, pc[d] # "new"
    PROVE  /\ pc'[d] # "new" /\ before'[d] = before[d]
           /\ op'[d].kind = op[d].kind /\ op'[d].token = op[d].token
           /\ op[d].kind # "rotate" => op'[d].user = op[d].user
  <1>1. CASE Idles(d)
    BY <1>1 DEF Idles
  <1>2. CASE Learns(d)
    <2>1. op[d].kind = "rotate" /\ op'[d] = [op[d] EXCEPT !.user = token[op[d].token].user]
            /\ before'[d] = before[d] /\ pc'[d] = "revokeOne"
      BY <1>2 DEF Learns
    <2>2. QED
      BY <2>1 DEF TypeOK, Op
  <1>3. QED
    BY <1>1, <1>2, OpChange DEF Begins

\* So are the tokens it is to end.
LEMMA EndsSettled ==
    ASSUME TypeOK, Control, Step, NEW d \in Calls, NEW t \in Calls, pc[d] # "new", Ends(d, t)'
    PROVE  Ends(d, t)
  <1>1. before'[d] = before[d] /\ op'[d].kind = op[d].kind /\ op'[d].token = op[d].token
          /\ (op[d].kind # "rotate" => op'[d].user = op[d].user)
    BY BegunKept
  <1>2. t \in before[d] => pc[t] = "done"
    BY DEF Control, Asked, Done
  <1>3. t \in before[d] => op'[t] = op[t]
    BY <1>2, DoneStays
  <1>4. QED
    BY <1>1, <1>3 DEF Ends

\* A call that has returned does not get past its revocation any more.
LEMMA PastSettled ==
    ASSUME TypeOK, Control, Step, NEW d \in Calls, pc[d] = "done", Past(d)'
    PROVE  Past(d)
  <1>1. pc'[d] = "done" /\ reply'[d] = reply[d]
    BY DoneStays
  <1>2. token'[d].state # "absent" => token[d].state # "absent"
    BY RowKept DEF Save
  <1>3. QED
    BY <1>1, <1>2 DEF Past

\* The statement that takes a call past its revocation leaves none of its tokens live.
LEMMA EndsNow ==
    ASSUME TypeOK, Control, Step, NEW d \in Calls, NEW t \in Calls,
           ~Past(d), Past(d)', Ends(d, t)'
    PROVE  t \notin Live'
  <1> USE DEF Goto, Return, Executed
  <1>1. Asked(d) /\ Placed(d) /\ Minted(d) /\ Minted(t)
    BY DEF Control
  <1>2. op[d] \in Op /\ token[t] \in Token /\ t # None
    BY SessionAssumption DEF TypeOK
  <1>3. reply[d] # "ok" /\ pc[d] # "save" /\ token[d].state = "absent"
    BY DEF Past
  <1>4. token'[d].state = "absent"
    BY <1>3, RowKept DEF Save
  <1>5. reply'[d] = "ok" \/ pc'[d] = "save"
    BY <1>4 DEF Past
  <1>6. ASSUME Still(d)
        PROVE  FALSE
    BY <1>3, <1>5, <1>6 DEF Still
  <1>7. ASSUME NEW u \in Users, BeginIssue(d, u) \/ BeginRevokeAll(d, u)
        PROVE  FALSE
    BY <1>3, <1>5, <1>7 DEF BeginIssue, BeginRevokeAll, Begin, TypeOK
  <1>8. ASSUME NEW h \in Held, BeginRotate(d, h) \/ BeginRevoke(d, h)
        PROVE  FALSE
    BY <1>3, <1>5, <1>8 DEF BeginRotate, BeginRevoke, Begin, TypeOK
  <1>9. ASSUME Unasked(d)
        PROVE  FALSE
    <2>1. op'[d].kind = "revoke" /\ op'[d].token = None
      BY <1>9 DEF Unasked, TypeOK
    <2>2. QED
      BY <1>2, <2>1 DEF Ends
  <1>10. CASE Find(d)
    <2>1. op[d].kind = "revoke" /\ ~(op[d].token # None /\ token[op[d].token].state # "absent")
            /\ op' = op /\ token' = token
      BY <1>3, <1>5, <1>10 DEF Find, TypeOK
    <2>2. op[d].token = t
      BY <2>1 DEF Ends
    <2>3. QED
      BY <1>2, <2>1, <2>2 DEF Live
  <1>11. CASE RevokeOne(d)
    <2>1. op[d].kind \in {"rotate", "revoke"} /\ op' = op
      BY <1>1, <1>11 DEF RevokeOne, Placed
    <2>2. op[d].token = t
      BY <2>1 DEF Ends
    <2>3. QED
      BY <1>2, <1>11, <2>2 DEF RevokeOne, Live, TypeOK, Token
  <1>12. CASE RevokeAllForUser(d)
    <2>1. op[d].kind \in {"issue", "revokeAll"} /\ op' = op /\ before' = before
      BY <1>1, <1>12 DEF RevokeAllForUser, Placed
    <2>2. op[t].user = op[d].user
      BY <2>1 DEF Ends
    <2>3. t \in Live => t \in LiveOf(op[d].user)
      BY <1>1, <2>2 DEF Minted, Live, LiveOf
    <2>4. QED
      BY <1>12, <2>3 DEF RevokeAllForUser, Live, LiveOf
  <1>13. ASSUME Save(d) \/ Fail(d)
         PROVE  FALSE
    BY <1>3, <1>5, <1>13 DEF Save, Fail, TypeOK
  <1>14. QED
    BY OneMoves, <1>6, <1>7, <1>8, <1>9, <1>10, <1>11, <1>12, <1>13 DEF Moves

LEMMA EndedStep ==
    ASSUME TypeOK, Control, Ended, Step
    PROVE  Ended'
  <1>1. SUFFICES ASSUME NEW d \in Calls, NEW t \in Calls, Past(d)', Ends(d, t)', t \in Live'
                 PROVE  FALSE
    BY DEF Ended
  <1>2. CASE Past(d)
    <2>1. Ends(d, t)
      BY <1>1, <1>2, PastBegan, EndsSettled
    <2>2. t \notin Live /\ pc[t] = "done"
      BY <1>2, <2>1, EndsDone DEF Ended
    <2>3. Save(t)
      BY <1>1, <2>2, LiveChange
    <2>4. QED
      BY <2>2, <2>3 DEF Save
  <1>3. CASE ~Past(d)
    BY <1>1, <1>3, EndsNow
  <1>4. QED
    BY <1>2, <1>3

LEMMA RefusedStep ==
    ASSUME TypeOK, Control, Ended, Refused, Step
    PROVE  Refused'
  <1>1. ASSUME NEW c \in Calls, NEW d \in Calls, NEW t \in Calls,
               op'[c].kind = "rotate", op'[c].user # None, op'[c].token = t,
               d \in before'[c], Past(d)', Ends(d, t)'
        PROVE  FALSE
    <2>1. CASE Begins(c)
      <3>1. op'[c].kind # "rotate" \/ op'[c].user = None
        <4>1. BeginsForUser(c) => op'[c].kind # "rotate"
          BY DEF BeginsForUser
        <4>2. BeginsWithToken(c) => op'[c].user = None
          BY DEF BeginsWithToken
        <4>3. QED
          BY <2>1, <4>1, <4>2 DEF Begins
      <3>2. QED
        BY <1>1, <3>1
    <2>2. before'[c] = before[c] => pc[d] = "done"
      BY <1>1 DEF Control, Asked, Done
    <2>3. before'[c] = before[c] => Past(d) /\ Ends(d, t)
      BY <1>1, <2>2, PastSettled, EndsSettled
    <2>4. CASE Idles(c)
      <3>1. op'[c] = op[c] /\ before'[c] = before[c]
        BY <2>4 DEF Idles
      <3>2. op[c].kind = "rotate" /\ op[c].user # None /\ op[c].token = t
        BY <1>1, <3>1
      <3>3. d \in before[c] /\ Past(d) /\ Ends(d, t)
        BY <1>1, <2>3, <3>1
      <3>4. QED
        BY <3>2, <3>3 DEF Refused
    <2>5. CASE Learns(c)
      <3>1. /\ op'[c] = [op[c] EXCEPT !.user = token[op[c].token].user]
            /\ op[c].token \in Live /\ before'[c] = before[c]
        BY <2>5 DEF Learns
      <3>2. op[c].token = t
        BY <1>1, <3>1 DEF TypeOK, Op
      <3>3. QED
        BY <2>3, <3>1, <3>2 DEF Ended
    <2>6. QED
      BY <2>1, <2>4, <2>5, OpChange
  <1>2. ASSUME NEW c \in Calls, op'[c].kind = "rotate", op'[c].user # None
        PROVE  op'[c].token \in Calls
    <2>1. Asked(c)' /\ op'[c] \in Op
      BY AskedStep, TypeStep DEF TypeOK
    <2>2. op'[c].token # None
      BY <1>2, <2>1 DEF Asked
    <2>3. QED
      BY <2>1, <2>2 DEF Op
  <1>3. QED
    BY <1>1, <1>2 DEF Refused

-----------------------------------------------------------------------------
(* Lines of tokens.                                                        *)

LEMMA LineSelf ==
    \A c \in Calls : c \in Line(c)
  BY DEF Line

\* The line of a token's parent is part of its own.
LEMMA LineUp ==
    ASSUME NEW b \in Calls, NEW p \in Parent(b)
    PROVE  Line(p) \subseteq Line(b)
  BY DEF Line

LEMMA ParentKept ==
    ASSUME TypeOK, Control, Step, NEW x \in Calls
    PROVE  Parent(x) \subseteq Parent(x)'
  <1>1. CASE Idles(x)
    BY <1>1 DEF Idles, Parent
  <1>2. CASE Begins(x)
    <2>1. op[x].kind = "issue"
      BY <1>2 DEF Begins, Control, Asked, NoOp
    <2>2. QED
      BY <2>1 DEF Parent
  <1>3. CASE Learns(x)
    <2>1. op'[x] = [op[x] EXCEPT !.user = token[op[x].token].user]
      BY <1>3 DEF Learns
    <2>2. op'[x].kind = op[x].kind /\ op'[x].token = op[x].token
      BY <2>1 DEF TypeOK, Op
    <2>3. QED
      BY <2>2 DEF Parent
  <1>4. QED
    BY <1>1, <1>2, <1>3, OpChange

\* Lines only grow.
LEMMA LineKept ==
    ASSUME TypeOK, Control, Step, NEW c \in Calls
    PROVE  Line(c) \subseteq Line(c)'
  <1>1. \A x \in Calls : Parent(x) \subseteq Parent(x)'
    BY ParentKept
  <1>2. SUFFICES ASSUME NEW d \in Line(c), NEW S \in SUBSET Calls,
                        c \in S, \A x \in S : Parent(x)' \subseteq S
                 PROVE  d \in S
    BY DEF Line
  <1>3. \A x \in S : Parent(x) \subseteq S
    BY <1>1, <1>2
  <1>4. QED
    BY <1>2, <1>3 DEF Line

\* A call that begins with a token takes over that token's line.
LEMMA LineReaches ==
    ASSUME TypeOK, Control, Step, NEW c \in Calls, NEW p \in Calls, p \in Parent(c)',
           NEW l \in Line(p)
    PROVE  l \in Line(c)'
  <1>1. \A x \in Calls : Parent(x) \subseteq Parent(x)'
    BY ParentKept
  <1>2. l \in Calls
    BY DEF Line
  <1>3. SUFFICES ASSUME NEW S \in SUBSET Calls, c \in S, \A x \in S : Parent(x)' \subseteq S
                 PROVE  l \in S
    BY <1>2 DEF Line
  <1>4. p \in S /\ \A x \in S : Parent(x) \subseteq S
    BY <1>1, <1>3
  <1>5. QED
    BY <1>4 DEF Line

\* Whether two calls that have begun overlapped is settled.
LEMMA OverlapKept ==
    ASSUME TypeOK, Step, NEW x \in Calls, NEW y \in Calls, Overlap(x, y)
    PROVE  Overlap(x, y)'
  <1>1. \A z \in Calls : pc[z] # "new" => pc'[z] # "new" /\ before'[z] = before[z]
    BY OpChange DEF Idles, Begins, Learns
  <1>2. QED
    BY <1>1 DEF Overlap

LEMMA MeetKept ==
    ASSUME TypeOK, Control, Step, NEW a \in Calls, NEW b \in Calls, Meet(a, b)
    PROVE  Meet(a, b)'
  <1>1. PICK x \in Line(a), y \in Line(b) : Overlap(x, y)
    BY DEF Meet
  <1>2. x \in Calls /\ y \in Calls
    BY DEF Line
  <1>3. x \in Line(a)' /\ y \in Line(b)' /\ Overlap(x, y)'
    BY <1>1, <1>2, LineKept, OverlapKept
  <1>4. QED
    BY <1>3 DEF Meet

LEMMA MeetBothWays ==
    ASSUME NEW a \in Calls, NEW b \in Calls, Meet(a, b)
    PROVE  Meet(b, a)
  BY DEF Meet, Overlap

LEMMA OverlapMeet ==
    ASSUME NEW a \in Calls, NEW b \in Calls, Overlap(a, b)
    PROVE  Meet(a, b)
  BY LineSelf DEF Meet

\* A token that is inserted has met every other live token of its user.
LEMMA SaveMeets ==
    ASSUME IInv, NEW a \in Live, NEW b \in Calls, Save(b), token[a].user = op[b].user
    PROVE  Meet(a, b)
  <1>1. pc[b] = "save" /\ Placed(b) /\ Asked(b) /\ Past(b)
    BY DEF Save, IInv, Control, Past
  <1>2. a \in Calls /\ pc[a] = "done" /\ Asked(a) /\ Minted(a) /\ Mints(a)
          /\ op[a].user = op[b].user
    BY DEF IInv, Control, Minted, Live
  <1>3. CASE op[b].kind = "rotate"
    <2>1. a # op[b].token
      BY <1>1, <1>2, <1>3 DEF IInv, Ended, Ends
    <2>2. QED
      BY <1>1, <1>3, <2>1 DEF IInv, RotationsMeet
  <1>4. CASE op[b].kind = "issue"
    <2>1. a \notin before[b]
      BY <1>1, <1>2, <1>4 DEF IInv, Ended, Ends, Mints
    <2>2. b \notin before[a]
      BY <1>1, <1>2 DEF Asked, Done
    <2>3. Overlap(a, b)
      BY <1>1, <1>2, <2>1, <2>2 DEF Overlap
    <2>4. QED
      BY <1>2, <2>3, OverlapMeet
  <1>5. QED
    BY <1>1, <1>3, <1>4 DEF Placed, Mints

LEMMA TokensMeetStep ==
    ASSUME IInv, Step
    PROVE  TokensMeet'
  <1>1. TypeOK /\ Control
    BY DEF IInv
  <1>2. ASSUME NEW a \in Calls, NEW b \in Calls, Save(b), a \in Live', a # b,
               token'[a].user = token'[b].user
        PROVE  Meet(a, b)'
    <2>1. token'[a] = token[a] /\ token'[b].user = op[b].user
      BY <1>1, <1>2 DEF Save, TypeOK
    <2>2. a \in Live /\ token[a].user = op[b].user
      BY <1>2, <2>1 DEF Live
    <2>3. QED
      BY <1>1, <1>2, <2>2, SaveMeets, MeetKept
  <1>3. SUFFICES ASSUME NEW a \in Live', NEW b \in Live', a # b,
                        token'[a].user = token'[b].user
                 PROVE  Meet(a, b)'
    BY DEF TokensMeet
  <1>4. a \in Calls /\ b \in Calls
    BY DEF Live
  <1>5. CASE Save(b)
    BY <1>2, <1>3, <1>4, <1>5
  <1>6. CASE Save(a)
    <2>1. Meet(b, a)'
      BY <1>2, <1>3, <1>4, <1>6
    <2>2. QED
      BY <1>4, <2>1 DEF Meet, Overlap
  <1>7. CASE ~Save(a) /\ ~Save(b)
    <2>1. a \in Live /\ b \in Live /\ token'[a] = token[a] /\ token'[b] = token[b]
      BY <1>1, <1>4, <1>7, LiveChange
    <2>2. Meet(a, b)
      BY <1>3, <2>1 DEF IInv, TokensMeet
    <2>3. QED
      BY <1>1, <1>4, <2>2, MeetKept
  <1>8. QED
    BY <1>5, <1>6, <1>7

LEMMA RotationsMeetStep ==
    ASSUME IInv, Step
    PROVE  RotationsMeet'
  <1> USE DEF Goto, Return, Executed
  <1>1. TypeOK /\ Control
    BY DEF IInv
  <1>2. SUFFICES ASSUME NEW a \in Live', NEW b \in Calls, op'[b].kind = "rotate",
                        pc'[b] \in {"revokeOne", "save"}, a # op'[b].token,
                        token'[a].user = op'[b].user
                 PROVE  Meet(a, b)
    BY <1>1, MeetKept DEF RotationsMeet, Live
  <1>3. a \in Calls
    BY DEF Live
  <1>4. CASE Save(a)
    <2>1. pc[a] = "save" /\ pc'[a] = "done"
      BY <1>1, <1>3, <1>4 DEF Save, TypeOK
    <2>2. a # b /\ pc[b] = pc'[b]
      BY <1>1, <1>2, <1>3, <1>4, <2>1 DEF Save, TypeOK
    <2>3. a \notin before[b] /\ b \notin before[a]
      BY <1>1, <1>2, <1>3, <2>1, <2>2 DEF Control, Asked, Done
    <2>4. Overlap(a, b)
      BY <1>2, <2>1, <2>2, <2>3 DEF Overlap
    <2>5. QED
      BY <1>3, <2>4, OverlapMeet
  <1>5. CASE ~Save(a)
    <2>1. a \in Live /\ token'[a] = token[a]
      BY <1>1, <1>3, <1>5, LiveChange
    <2>2. CASE Learns(b)
      <3>1. /\ op[b].kind = "rotate" /\ op[b].token \in Live
            /\ op'[b] = [op[b] EXCEPT !.user = token[op[b].token].user]
        BY <2>2 DEF Learns
      <3>2. op'[b].token = op[b].token /\ op'[b].user = token[op[b].token].user
        BY <1>1, <3>1 DEF TypeOK, Op
      <3>3. Meet(a, op[b].token)
        BY <1>2, <2>1, <3>1, <3>2 DEF IInv, TokensMeet
      <3>4. op[b].token \in Parent(b)
        BY <3>1, SessionAssumption DEF Parent, Live
      <3>5. Line(op[b].token) \subseteq Line(b)
        BY <3>4, LineUp
      <3>6. QED
        BY <3>3, <3>5 DEF Meet
    <2>3. CASE ~Learns(b)
      <3>1. Idles(b) /\ op'[b] = op[b]
        <4>1. ~Begins(b)
          BY <1>2 DEF Begins, BeginsForUser, BeginsWithToken
        <4>2. QED
          BY <1>1, <2>3, <4>1, OpChange DEF Idles
      <3>2. pc[b] \in {"revokeOne", "save"}
        <4>1. CASE Still(b)
          BY <1>2, <4>1 DEF Still
        <4>2. ~Find(b)
          BY <1>1, <1>2, <2>3, <3>1, FindLearns DEF Find, TypeOK
        <4>3. CASE RevokeOne(b) \/ Save(b)
          BY <4>3 DEF RevokeOne, Save
        <4>4. ~RevokeAllForUser(b)
          BY <1>1, <1>2, <3>1 DEF RevokeAllForUser, Control, Placed
        <4>5. ~Fail(b)
          BY <1>1, <1>2 DEF Fail, TypeOK
        <4>6. ASSUME pc[b] = "new"
              PROVE  FALSE
          BY <1>2, <3>1, <4>6 DEF Idles
        <4>7. QED
          BY <1>1, <4>1, <4>2, <4>3, <4>4, <4>5, <4>6, OneMoves
             DEF Moves, Unasked, BeginIssue, BeginRevokeAll, BeginRotate, BeginRevoke, Begin
      <3>3. QED
        BY <1>2, <2>1, <3>1, <3>2 DEF IInv, RotationsMeet
    <2>4. QED
      BY <2>2, <2>3
  <1>6. QED
    BY <1>4, <1>5

\* A token of a line that is not live itself.
Spent(d, u) == d \notin Live /\ Mints(d) /\ reply[d] = "ok" /\ op[d].user = u

LEMMA LinesSpent ==
    ASSUME IInv
    PROVE  LineIsSpent
  <1>1. ASSUME NEW c \in Live
        PROVE  \A d \in Line(c) \ {c} : d \notin Live /\ token[d].user = token[c].user
    <2> DEFINE u == op[c].user
               S == {c} \cup {d \in Calls : Spent(d, u)}
    <2>1. /\ c \in Calls /\ token[c].state = "live" /\ token[c].user = u
          /\ u \in Users \ gone
      BY DEF IInv, TypeOK, Control, Minted, Live
    <2>2. \A x \in S : x \in Calls /\ Past(x) /\ op[x].user = u
      BY <2>1 DEF Spent, Past
    <2>3. ASSUME NEW x \in S, NEW p \in Parent(x)
          PROVE  p \in S
      <3>1. op[x].kind = "rotate" /\ op[x].token = p /\ p # None /\ p \in Calls
        BY <2>2, <2>3 DEF Parent, IInv, TypeOK, Op
      <3>2. Mints(p) /\ reply[p] = "ok" /\ op[x].user = op[p].user
        BY <2>1, <2>2, <3>1, SessionAssumption DEF IInv, Control, Asked
      <3>3. p \notin Live
        BY <2>2, <3>1 DEF IInv, Ended, Ends
      <3>4. QED
        BY <2>2, <3>1, <3>2, <3>3 DEF Spent
    <2>4. Line(c) \subseteq S
      BY <2>1, <2>3 DEF Line
    <2>5. ASSUME NEW d \in Line(c) \ {c}
          PROVE  d \notin Live /\ token[d].user = token[c].user
      <3>1. d \in Calls /\ Spent(d, u)
        BY <2>4
      <3>2. token[d].state # "absent"
        BY <2>1, <3>1 DEF Spent, IInv, Control, Minted
      <3>3. QED
        BY <2>1, <3>1, <3>2 DEF Spent, IInv, Control, Minted
    <2>6. QED
      BY <2>5
  <1>2. QED
    BY <1>1 DEF LineIsSpent

-----------------------------------------------------------------------------
(* The invariant holds in every state, and what it implies.                *)

LEMMA InitInv ==
    ASSUME Init
    PROVE  IInv
  <1>1. Live = {} /\ NoToken \in Token /\ NoOp \in Op
    BY DEF Init, Live, NoToken, Token, TokenStates, NoOp, Op, Kinds
  <1>2. \A c \in Calls : /\ token[c] = NoToken /\ pc[c] = "new" /\ op[c] = NoOp
                         /\ reply[c] = "none" /\ before[c] = {}
    BY DEF Init
  <1>3. TypeOK
    BY <1>1 DEF Init, TypeOK, Replies
  <1>4. ASSUME NEW c \in Calls
        PROVE  Asked(c) /\ Placed(c) /\ Minted(c)
    BY <1>2 DEF Asked, Placed, Minted, Mints, NoOp, NoToken
  <1>5. Ended /\ TokensMeet /\ RotationsMeet
    BY <1>1 DEF Ended, TokensMeet, RotationsMeet
  <1>6. Refused
    BY <1>2 DEF Refused
  <1>7. QED
    BY <1>3, <1>4, <1>5, <1>6 DEF IInv, Control

LEMMA StepInv ==
    ASSUME IInv, Step
    PROVE  IInv'
  <1>1. TypeOK' /\ Control'
    BY TypeStep, ControlStep DEF IInv
  <1>2. Ended' /\ Refused'
    BY EndedStep, RefusedStep DEF IInv
  <1>3. TokensMeet' /\ RotationsMeet'
    BY TokensMeetStep, RotationsMeetStep
  <1>4. QED
    BY <1>1, <1>2, <1>3 DEF IInv

LEMMA InvImplies ==
    ASSUME IInv
    PROVE  SignedOut /\ DeadTokensAreRefused /\ LineIsSpent /\ TwoDevicesNeedOverlap
  <1>1. SignedOut
    BY DEF IInv, Ended, Past, SignedOut
  <1>2. ASSUME NEW c \in Calls, op[c].kind = "rotate", reply[c] = "ok"
        PROVE  op[c].user # None
    BY <1>2 DEF IInv, Control, Placed, Mints
  <1>3. DeadTokensAreRefused
    BY <1>2 DEF IInv, Refused, Past, DeadTokensAreRefused
  <1>4. TwoDevicesNeedOverlap
    BY DEF IInv, TokensMeet, Meet, TwoDevicesNeedOverlap
  <1>5. QED
    BY <1>1, <1>3, <1>4, LinesSpent

\* The invariant holds in every state the calls can reach, however their statements
\* interleave and whichever of them fail.
THEOREM Invariance == Spec => []IInv
  <1>1. Init => IInv
    BY InitInv
  <1>2. IInv /\ [Next]_vars => IInv'
    BY StepInv DEF Step
  <1>3. QED
    BY <1>1, <1>2, PTL DEF Spec

\* Every state is well formed: a live token belongs to a user who is still there.
THEOREM TypeCorrect == Spec => []TypeOK
  <1>1. IInv => TypeOK
    BY DEF IInv
  <1>2. QED
    BY Invariance, <1>1, PTL

\* A logout, refresh, login or logout everywhere that reported success has ended every
\* token it was to end, for good, whatever the other calls did meanwhile.
THEOREM EndedForGood == Spec => []SignedOut
  <1>1. IInv => SignedOut
    BY InvImplies
  <1>2. QED
    BY Invariance, <1>1, PTL

\* A refresh never succeeds with a token that a call which had returned success before
\* the refresh began was asked to end.
THEOREM NoReplay == Spec => []DeadTokensAreRefused
  <1>1. IInv => DeadTokensAreRefused
    BY InvImplies
  <1>2. QED
    BY Invariance, <1>1, PTL

\* When a token is live, every token it descends from is not, and all were one user's.
THEOREM OneOfALine == Spec => []LineIsSpent
  <1>1. IInv => LineIsSpent
    BY InvImplies
  <1>2. QED
    BY Invariance, <1>1, PTL

\* Two live tokens of one user descend from two calls that overlapped.
THEOREM DevicesNeedOverlap == Spec => []TwoDevicesNeedOverlap
  <1>1. IInv => TwoDevicesNeedOverlap
    BY InvImplies
  <1>2. QED
    BY Invariance, <1>1, PTL

=============================================================================
