------------------------------ MODULE Accounts ------------------------------
(***************************************************************************)
(* The accounts of the web users: internal/user/service.go and             *)
(* repository.go on users, user_roles and the two profile tables, together *)
(* with the services it calls: the four statements of the session package  *)
(* (modelled by itself in Session) on refresh_tokens, and request, find    *)
(* and consume of the otp package (modelled by itself in Otp).             *)
(*                                                                         *)
(* Only Create and AddRole open a transaction.  Every other statement      *)
(* commits by itself, so a handler acts on rows it has read some time ago. *)
(*                                                                         *)
(* A call names what it makes: the password it sets, the code it sends and *)
(* the refresh token it mints.  A user's name also stands for the refresh  *)
(* token the user held, and None for the password, before the first call.  *)
(***************************************************************************)
EXTENDS Integers, Sequences

CONSTANTS
    Calls,     \* requests, each made once
    Users,     \* ids of accounts
    Phones,    \* contacts without an @
    Emails,    \* contacts with one
    Kinds,     \* bound: the operations that are called in a run
    Sent,      \* codes that have been sent before the first call, oldest first
    None       \* no user, no code, the password of an account that was there before

Contacts == Phones \cup Emails
Roles == {"student", "teacher"}
Purposes == {"login", "password_reset", "account_deletion", "contact_bind"}

Logins == {"register", "password", "code"}
AllKinds == Logins \cup {"reset", "bind", "delete", "send", "refresh", "logout",
                         "logoutAll", "switch", "addRole", "disable", "enable"}

ASSUME AccountsAssumption ==
    /\ Kinds \subseteq AllKinds
    /\ Phones \cap Emails = {}
    /\ Calls \cap Users = {} /\ None \notin Calls \cup Users

VARIABLES
    account,   \* rows of users, with their roles in user_roles
    token,     \* rows of refresh_tokens
    codes,     \* rows of verification_codes, oldest first
    pc,        \* the statement each call executes next
    op,        \* what each call was asked
    work,      \* locals: what each call has read
    reply,     \* what each call returned
    before     \* history: the calls that had returned when this one began

vars == <<account, token, codes, pc, op, work, reply, before>>

-----------------------------------------------------------------------------
Passwords == Calls \cup {None}
Devices == Calls \cup Users
CodeIds == Calls \cup {Sent[i].id : i \in DOMAIN Sent}

Account == [state : {"absent", "live", "gone"}, contacts : SUBSET Contacts,
            password : Passwords, status : {"active", "disabled"},
            roles : SUBSET Roles, active : Roles \cup {""}]
NoAccount == [state |-> "absent", contacts |-> {}, password |-> None,
              status |-> "active", roles |-> {}, active |-> ""]

Token == [state : {"absent", "live", "revoked"}, user : Users \cup {None}]
NoToken == [state |-> "absent", user |-> None]

Code == [id : CodeIds, contact : Contacts, purpose : Purposes, consumed : BOOLEAN]
NoCode == [id |-> None, contact |-> None, purpose |-> "none", consumed |-> FALSE]

ASSUME SentAssumption == Sent \in Seq(Code)

\* contacts: those of a registration, the one an operation is about, or the channel
\* (all phones or all emails) a deletion is confirmed over.
Op == [kind : AllKinds, user : Users \cup {None}, contacts : SUBSET Contacts,
       arg : Roles \cup Purposes \cup Devices \cup CodeIds \cup {None}]
NoOp == [kind |-> "password", user |-> None, contacts |-> {}, arg |-> None]

\* target: where a code goes, or has been sent.  role: last_active_role, then the role
\* of the access token.
Work == [user : Users \cup {None}, target : SUBSET Contacts,
         status : {"active", "disabled"}, role : Roles \cup {""}, code : Code \cup {NoCode}]
NoWork == [user |-> None, target |-> {}, status |-> "active", role |-> "", code |-> NoCode]

\* error: the caller got nothing, because it was refused or because something failed.
Replies == {"none", "ok", "error"}
Running == {"create", "lookUp", "roles", "ensure", "contact", "send", "verify", "consume",
            "setPassword", "setContact", "find", "revokeOne", "revokeAll", "save", "owner",
            "deleteRow", "hasRole", "grant", "setActive", "setStatus"}

Live(u) == account[u].state = "live"
HoldersOf(k) == {u \in Users : Live(u) /\ k \in account[u].contacts}
ChannelOf(k) == IF k \in Phones THEN Phones ELSE Emails
LiveTokens == {t \in Devices : token[t].state = "live"}

Done == {c \in Calls : pc[c] = "done"}
Succeeded(c) == reply[c] = "ok"

\* The calls that have handed out an access token, and a refresh token.
Signed == {c \in Calls : Succeeded(c)
                         /\ op[c].kind \in Logins \cup {"refresh", "switch", "addRole"}}
Held == {c \in Calls : Succeeded(c) /\ op[c].kind \in Logins \cup {"refresh"}}

\* Someone may hold an access token for user u: it outlives the account.
Authenticated(u) ==
    /\ account[u].state # "absent"
    /\ (\E c \in Calls : op[c].kind = "register" /\ op[c].user = u)
         => \E c \in Signed : work[c].user = u

\* Tables: accounts with one contact and one role, some of them with a session.
Init ==
    /\ account \in [Users -> {NoAccount} \cup
            [state : {"live"}, contacts : {{k} : k \in Contacts}, password : {None},
             status : {"active"}, roles : {{"student"}}, active : {"student", ""}]]
    /\ \A u, v \in Users : u # v => account[u].contacts \cap account[v].contacts = {}
    /\ token \in [Devices -> {NoToken} \cup [state : {"live"}, user : Users]]
    /\ \A t \in LiveTokens : t \in Users /\ token[t].user = t /\ Live(t)
    /\ codes = Sent
    /\ pc = [c \in Calls |-> "new"]
    /\ op = [c \in Calls |-> NoOp]
    /\ work = [c \in Calls |-> NoWork]
    /\ reply = [c \in Calls |-> "none"]
    /\ before = [c \in Calls |-> {}]

-----------------------------------------------------------------------------
Continue(c, label, locals) ==
    /\ pc' = [pc EXCEPT ![c] = label]
    /\ work' = [work EXCEPT ![c] = locals]
    /\ UNCHANGED reply

Goto(c, label) == Continue(c, label, work[c])

\* The call returns.  Of its locals, the user and the role are in the token it returns.
ReturnAs(c, r, role) ==
    /\ pc' = [pc EXCEPT ![c] = "done"]
    /\ work' = [work EXCEPT ![c] = IF r = "ok"
                      THEN [NoWork EXCEPT !.user = work[c].user, !.role = role] ELSE NoWork]
    /\ reply' = [reply EXCEPT ![c] = r]

Return(c, r) == ReturnAs(c, r, work[c].role)

\* A statement has been executed, but its acknowledgement may be lost.
Executed(c, next) == next \/ Return(c, "error")

NoRowChanges == UNCHANGED <<account, token, codes>>
Reads == NoRowChanges /\ UNCHANGED <<op, before>>

Begin(c, kind, u, contacts, arg, label) ==
    /\ kind \in Kinds
    /\ pc[c] = "new"
    /\ op' = [op EXCEPT ![c] = [kind |-> kind, user |-> u, contacts |-> contacts, arg |-> arg]]
    /\ before' = [before EXCEPT ![c] = Done]
    /\ Continue(c, label, [NoWork EXCEPT !.user = u, !.target = contacts])
    /\ NoRowChanges

BeginRegister(c, u, contacts, role) == Begin(c, "register", u, contacts, role, "create")
BeginLoginPassword(c, k, password) == Begin(c, "password", None, {k}, password, "lookUp")
BeginLoginCode(c, k, code) == Begin(c, "code", None, {k}, code, "lookUp")
BeginReset(c, k, code) == Begin(c, "reset", None, {k}, code, "verify")
BeginBind(c, u, k, code) == Begin(c, "bind", u, {k}, code, "ensure")
BeginDelete(c, u, channel, code) == Begin(c, "delete", u, channel, code, "contact")
BeginRefresh(c, t) == Begin(c, "refresh", None, {}, t, "find")
BeginLogout(c, t) == Begin(c, "logout", None, {}, t, "find")
BeginLogoutAll(c, u) == Begin(c, "logoutAll", u, {}, None, "revokeAll")
BeginSwitchRole(c, u, role) == Begin(c, "switch", u, {}, role, "hasRole")
BeginAddRole(c, u, role) == Begin(c, "addRole", u, {}, role, "grant")

\* RequestLoginCode and RequestPasswordReset send to whatever they are given; a code to
\* bind goes to a contact that is free, one to delete to a contact of the account.
BeginSend(c, u, contacts, purpose) ==
    Begin(c, "send", u, contacts, purpose,
          CASE purpose = "contact_bind" -> "ensure"
            [] purpose = "account_deletion" -> "contact"
            [] OTHER -> "send")

\* Repository.SetStatus: nothing in the server calls it yet; an operator may.
BeginSetStatus(c, kind, u) == Begin(c, kind, u, {}, None, "setStatus")

\* Broken: the indexes on phone and email do not exist.
Create_NoIndex(c) ==
    LET u == op[c].user IN
    /\ pc[c] = "create"
    /\ account' = [account EXCEPT ![u] =
           [state |-> "live", contacts |-> op[c].contacts, password |-> c,
            status |-> "active", roles |-> {op[c].arg}, active |-> op[c].arg]]
    /\ Continue(c, "revokeAll", [work[c] EXCEPT !.role = op[c].arg])
    /\ UNCHANGED <<token, codes, op, before>>

\* Repository.Create: one transaction, whose unique indexes decide.  The user id is new.
Create(c) ==
    LET u == op[c].user IN
    /\ pc[c] = "create"
    /\ IF \E k \in op[c].contacts : HoldersOf(k) # {}
       THEN Return(c, "error") /\ UNCHANGED account
       ELSE /\ account' = [account EXCEPT ![u] =
                  [state |-> "live", contacts |-> op[c].contacts, password |-> c,
                   status |-> "active", roles |-> {op[c].arg}, active |-> op[c].arg]]
            /\ Executed(c, Continue(c, "revokeAll", [work[c] EXCEPT !.role = op[c].arg]))
    /\ UNCHANGED <<token, codes, op, before>>

\* lookupByIdentifier: the row of the account that holds the contact, with the checks
\* that are made on it alone.
LookUp(c) ==
    LET holders == UNION {HoldersOf(k) : k \in op[c].contacts} IN
    /\ pc[c] = "lookUp"
    /\ IF holders = {}
       THEN Return(c, "error")
       ELSE \E u \in holders :
              IF \/ op[c].kind = "password" /\ account[u].password # op[c].arg
                 \/ op[c].kind # "code" /\ account[u].status = "disabled"
              THEN Return(c, "error")
              ELSE Continue(c, IF op[c].kind = "reset" THEN "setPassword" ELSE "roles",
                            [work[c] EXCEPT !.user = u, !.status = account[u].status,
                                            !.role = account[u].active])
    /\ Reads

\* activeRole, and defaultRole: the roles are loaded in alphabetical order.
ActiveRole(active, roles) ==
    IF active \in roles THEN active
    ELSE IF roles = {} THEN "" ELSE IF "student" \in roles THEN "student" ELSE "teacher"

\* loadRoles is a statement of its own, after the row has been read.
LoadRoles(c) ==
    /\ pc[c] = "roles"
    /\ LET role == ActiveRole(work[c].role, account[work[c].user].roles) IN
         CASE op[c].kind = "code" -> Continue(c, "verify", [work[c] EXCEPT !.role = role])
           [] op[c].kind = "password" -> Continue(c, "revokeAll", [work[c] EXCEPT !.role = role])
           [] op[c].kind = "refresh" -> ReturnAs(c, "ok", role)
    /\ Reads

\* ensureContactAvailable, before a code to bind is sent and before it is verified.
EnsureFree(c) ==
    /\ pc[c] = "ensure"
    /\ IF \E k \in op[c].contacts : HoldersOf(k) \ {op[c].user} # {}
       THEN Return(c, "error")
       ELSE Goto(c, IF op[c].kind = "bind" THEN "verify" ELSE "send")
    /\ Reads

\* GetByID and deletionTarget: the contact the account has on the chosen channel.
FindContact(c) ==
    LET target == account[op[c].user].contacts \cap op[c].contacts IN
    /\ pc[c] = "contact"
    /\ IF target = {}
       THEN Return(c, "error")
       ELSE Continue(c, IF op[c].kind = "delete" THEN "verify" ELSE "send",
                     [work[c] EXCEPT !.target = target])
    /\ Reads

\* RequestCode: refused by its limits, or the code is saved, and sent or not.
Send(c) ==
    /\ pc[c] = "send"
    /\ \/ Return(c, "error") /\ UNCHANGED codes
       \/ /\ \E k \in work[c].target :
                codes' = Append(codes, [id |-> c, contact |-> k, purpose |-> op[c].arg,
                                        consumed |-> FALSE])
          /\ Executed(c, Return(c, "ok"))
    /\ UNCHANGED <<account, token, op, before>>

PurposeOf(kind) == CASE kind = "code" -> "login"
                     [] kind = "reset" -> "password_reset"
                     [] kind = "bind" -> "contact_bind"
                     [] kind = "delete" -> "account_deletion"

\* The codes that have not been consumed.
Unconsumed == {i \in DOMAIN codes : ~codes[i].consumed}

\* Broken: a code is good for any purpose.
Candidates_AnyPurpose(c) == {i \in Unconsumed : codes[i].contact \in work[c].target}

\* The codes call c may be asked for.
Candidates(c) ==
    {i \in Unconsumed : /\ codes[i].contact \in work[c].target
                        /\ codes[i].purpose = PurposeOf(op[c].kind)}

\* Verify finds the latest of them and compares; a code that has expired or is locked is
\* refused all the same.
Verify(c) ==
    /\ pc[c] = "verify"
    /\ \/ Return(c, "error")
       \/ \E i \in Candidates(c) :
             /\ \A j \in Candidates(c) : j <= i
             /\ codes[i].id = op[c].arg
             /\ Continue(c, "consume", [work[c] EXCEPT !.code = codes[i]])
    /\ Reads

\* MarkConsumed, by id.
Consume(c) ==
    /\ pc[c] = "consume"
    /\ codes' = [i \in DOMAIN codes |->
           IF codes[i].id = work[c].code.id THEN [codes[i] EXCEPT !.consumed = TRUE] ELSE codes[i]]
    /\ Executed(c, CASE op[c].kind = "reset" -> Goto(c, "lookUp")
                     [] op[c].kind = "bind" -> Goto(c, "setContact")
                     [] op[c].kind = "delete" -> Goto(c, "revokeAll")
                     [] op[c].kind = "code" ->
                          IF work[c].status = "disabled"
                          THEN Return(c, "error") ELSE Goto(c, "revokeAll"))
    /\ UNCHANGED <<account, token, op, before>>

\* Broken: a reset leaves the sessions alone.
SetPassword_KeepsSessions(c) ==
    /\ pc[c] = "setPassword" /\ Live(work[c].user)
    /\ account' = [account EXCEPT ![work[c].user].password = c]
    /\ Return(c, "ok")
    /\ UNCHANGED <<token, codes, op, before>>

\* SetPassword: by the id that was looked up; no row is ErrNotFound.
SetPassword(c) ==
    LET u == work[c].user IN
    /\ pc[c] = "setPassword"
    /\ IF Live(u)
       THEN account' = [account EXCEPT ![u].password = c] /\ Executed(c, Goto(c, "revokeAll"))
       ELSE Return(c, "error") /\ UNCHANGED account
    /\ UNCHANGED <<token, codes, op, before>>

\* SetContact: replaces the account's contact on that channel, if the index lets it.
SetContact(c) ==
    LET u == op[c].user
        channel == UNION {ChannelOf(k) : k \in op[c].contacts} IN
    /\ pc[c] = "setContact"
    /\ IF Live(u) /\ \A k \in op[c].contacts : HoldersOf(k) \subseteq {u}
       THEN /\ account' = [account EXCEPT ![u].contacts = (@ \ channel) \cup op[c].contacts]
            /\ Executed(c, Return(c, "ok"))
       ELSE Return(c, "error") /\ UNCHANGED account
    /\ UNCHANGED <<token, codes, op, before>>

\* Rotate and Revoke find the presented token; Rotate refuses one that is not live, or
\* that has expired.
FindToken(c) ==
    LET t == op[c].arg IN
    /\ pc[c] = "find"
    /\ CASE op[c].kind = "refresh" ->
              \/ Return(c, "error")
              \/ /\ token[t].state = "live"
                 /\ Continue(c, "revokeOne", [work[c] EXCEPT !.user = token[t].user])
         [] op[c].kind = "logout" ->
              IF token[t].state = "absent" THEN Return(c, "ok") ELSE Goto(c, "revokeOne")
    /\ Reads

RevokeToken(c) ==
    LET t == op[c].arg IN
    /\ pc[c] = "revokeOne"
    /\ token' = IF token[t].state = "live"
                THEN [token EXCEPT ![t].state = "revoked"] ELSE token
    /\ Executed(c, IF op[c].kind = "refresh" THEN Goto(c, "save") ELSE Return(c, "ok"))
    /\ UNCHANGED <<account, codes, op, before>>

\* RevokeAllForUser, on the way into a new session, or on the way out.
RevokeAll(c) ==
    LET u == work[c].user IN
    /\ pc[c] = "revokeAll"
    /\ token' = [t \in Devices |-> IF t \in LiveTokens /\ token[t].user = u
                                   THEN [state |-> "revoked", user |-> u] ELSE token[t]]
    /\ Executed(c, CASE op[c].kind \in Logins -> Goto(c, "save")
                     [] op[c].kind \in {"reset", "logoutAll"} -> Return(c, "ok")
                     [] op[c].kind = "delete" -> Goto(c, "deleteRow"))
    /\ UNCHANGED <<account, codes, op, before>>

\* Save: the foreign key wants the user; a refresh goes on to read the user's row.
Save(c) ==
    /\ pc[c] = "save"
    /\ Live(work[c].user)
    /\ token' = [token EXCEPT ![c] = [state |-> "live", user |-> work[c].user]]
    /\ Executed(c, IF op[c].kind = "refresh" THEN Goto(c, "owner") ELSE Return(c, "ok"))
    /\ UNCHANGED <<account, codes, op, before>>

\* Broken: a refresh looks at the status no more.
ReadOwner_AnyStatus(c) ==
    /\ pc[c] = "owner"
    /\ IF Live(work[c].user)
       THEN Continue(c, "roles", [work[c] EXCEPT !.role = account[work[c].user].active])
       ELSE Return(c, "error")
    /\ Reads

\* Refresh: GetByID and the check of the status, after the token has been rotated.
ReadOwner(c) ==
    LET u == work[c].user IN
    /\ pc[c] = "owner"
    /\ IF Live(u) /\ account[u].status = "active"
       THEN Continue(c, "roles", [work[c] EXCEPT !.role = account[u].active])
       ELSE Return(c, "error")
    /\ Reads

\* Delete: one statement, and all that hangs off the row goes with it.
DeleteRow(c) ==
    LET u == op[c].user IN
    /\ pc[c] = "deleteRow"
    /\ IF Live(u)
       THEN /\ account' = [account EXCEPT ![u] = [NoAccount EXCEPT !.state = "gone"]]
            /\ token' = [t \in Devices |-> IF token[t].user = u THEN NoToken ELSE token[t]]
            /\ Executed(c, Return(c, "ok"))
       ELSE Return(c, "error") /\ UNCHANGED <<account, token>>
    /\ UNCHANGED <<codes, op, before>>

\* Broken: the role is switched without asking the tables.
HasRole_Unasked(c) == pc[c] = "hasRole" /\ Goto(c, "setActive") /\ Reads

HasRole(c) ==
    /\ pc[c] = "hasRole"
    /\ IF op[c].arg \in account[op[c].user].roles
       THEN Goto(c, "setActive") ELSE Return(c, "error")
    /\ Reads

\* AddRole: the role and its profile, in one transaction; the primary key and the foreign
\* key decide.
Grant(c) ==
    LET u == op[c].user IN
    /\ pc[c] = "grant"
    /\ Live(u)
    /\ IF op[c].arg \in account[u].roles
       THEN Return(c, "error") /\ UNCHANGED account
       ELSE /\ account' = [account EXCEPT ![u].roles = @ \cup {op[c].arg}]
            /\ Executed(c, Goto(c, "setActive"))
    /\ UNCHANGED <<token, codes, op, before>>

\* Broken: the role goes into the token and is not remembered.
SetActive_Forgotten(c) == pc[c] = "setActive" /\ ReturnAs(c, "ok", op[c].arg) /\ Reads

\* SetActiveRole, which does not report that there was no row; then the access token.
SetActive(c) ==
    LET u == op[c].user IN
    /\ pc[c] = "setActive"
    /\ account' = IF Live(u) THEN [account EXCEPT ![u].active = op[c].arg] ELSE account
    /\ Executed(c, ReturnAs(c, "ok", op[c].arg))
    /\ UNCHANGED <<token, codes, op, before>>

SetStatus(c) ==
    LET u == op[c].user IN
    /\ pc[c] = "setStatus"
    /\ account' = IF Live(u)
                  THEN [account EXCEPT ![u].status =
                          IF op[c].kind = "disable" THEN "disabled" ELSE "active"]
                  ELSE account
    /\ Executed(c, Return(c, "ok"))
    /\ UNCHANGED <<token, codes, op, before>>

\* A statement is not executed: a database error (the foreign key to a user who is gone
\* is one), a cancelled request, a crash.
Fail(c) ==
    /\ pc[c] \in Running
    /\ Return(c, "error")
    /\ Reads

\* The passwords that have been chosen so far.
PasswordsSet == {None} \cup {d \in Calls : op[d].kind \in {"register", "reset"}}

OneOrBoth == {{k} : k \in Contacts} \cup {{p, e} : p \in Phones, e \in Emails}

Start(c) ==
    \/ \E u \in Users, contacts \in OneOrBoth, role \in Roles :
           /\ account[u].state = "absent"
           /\ \A d \in Calls : op[d].kind = "register" => op[d].user # u
           /\ BeginRegister(c, u, contacts, role)
    \/ \E k \in Contacts :
           \/ \E password \in PasswordsSet : BeginLoginPassword(c, k, password)
           \/ \E i \in Unconsumed :
                 BeginLoginCode(c, k, codes[i].id) \/ BeginReset(c, k, codes[i].id)
           \/ \E purpose \in {"login", "password_reset"} : BeginSend(c, None, {k}, purpose)
    \/ \E t \in Held \cup {u \in Users : token[u].state # "absent"} :
           BeginRefresh(c, t) \/ BeginLogout(c, t)
    \/ \E u \in Users :
           \/ /\ Authenticated(u)
              /\ \/ \E k \in Contacts :
                       \/ BeginSend(c, u, {k}, "contact_bind")
                       \/ \E i \in Unconsumed : BeginBind(c, u, k, codes[i].id)
                 \/ \E channel \in {Phones, Emails} :
                       \/ BeginSend(c, u, channel, "account_deletion")
                       \/ \E i \in Unconsumed : BeginDelete(c, u, channel, codes[i].id)
                 \/ \E role \in Roles : BeginSwitchRole(c, u, role) \/ BeginAddRole(c, u, role)
                 \/ BeginLogoutAll(c, u)
           \/ /\ account[u].state # "absent"
              /\ \E kind \in {"disable", "enable"} : BeginSetStatus(c, kind, u)

Advance(c) ==
    \/ Create(c) \/ LookUp(c) \/ LoadRoles(c) \/ EnsureFree(c) \/ FindContact(c)
    \/ Send(c) \/ Verify(c) \/ Consume(c) \/ SetPassword(c) \/ SetContact(c)
    \/ FindToken(c) \/ RevokeToken(c) \/ RevokeAll(c) \/ Save(c) \/ ReadOwner(c)
    \/ DeleteRow(c) \/ HasRole(c) \/ Grant(c) \/ SetActive(c) \/ SetStatus(c)
    \/ Fail(c)

AllDone == Done = Calls /\ UNCHANGED vars

Next == (\E c \in Calls : Start(c) \/ Advance(c)) \/ AllDone

Spec == Init /\ [][Next]_vars

-----------------------------------------------------------------------------
(* Properties.                                                             *)

\* What the tables have in common: a contact belongs to one account at most, an account
\* has one on some channel and one at most on each, it acts in a role it has, and only
\* an account that exists has sessions.
TablesAgree ==
    /\ \A k \in Contacts : \A u, v \in HoldersOf(k) : u = v
    /\ \A u \in Users :
          IF Live(u)
          THEN /\ account[u].contacts \in OneOrBoth
               /\ account[u].active \in account[u].roles \cup {""} /\ account[u].roles # {}
          ELSE account[u] = [NoAccount EXCEPT !.state = account[u].state]
    /\ \A t \in Devices : token[t].state # "absent" <=> token[t].user # None
    /\ \A t \in LiveTokens : Live(token[t].user)

TypeOK ==
    /\ account \in [Users -> Account]
    /\ token \in [Devices -> Token]
    /\ codes \in Seq(Code)
    /\ pc \in [Calls -> Running \cup {"new", "done"}]
    /\ op \in [Calls -> Op]
    /\ work \in [Calls -> Work]
    /\ reply \in [Calls -> Replies]
    /\ before \in [Calls -> SUBSET Calls]
    /\ TablesAgree

\* Neither call had returned when the other began.
Overlap(c, d) ==
    /\ c # d /\ pc[c] # "new" /\ pc[d] # "new"
    /\ c \notin before[d] /\ d \notin before[c]

\* The tokens t descends from by refreshes, t included.
Parent(t) == IF t \in Calls /\ op[t].kind = "refresh" THEN {op[t].arg} ELSE {}
Line(t) == {d \in Devices : \A S \in SUBSET Devices :
              (t \in S /\ \A x \in S : Parent(x) \subseteq S) => d \in S}

\* A password reset that has succeeded ends the sessions and the passwords of before
\* (service.go:245-286): a session that lives on was logged into after it, or is there
\* because a login or a refresh ran at the same time, and no login that begins after
\* it succeeds with a password chosen before it.
ResetIsFinal ==
    \A r \in Calls : op[r].kind = "reset" /\ Succeeded(r) =>
        /\ \A t \in LiveTokens : token[t].user = work[r].user =>
              \E x \in Line(t) \cap Calls :
                 Overlap(x, r) \/ (op[x].kind \in Logins /\ r \in before[x])
        /\ \A x \in Calls :
              (op[x].kind = "password" /\ Succeeded(x) /\ r \in before[x]
                 /\ work[x].user = work[r].user)
              => op[x].arg \notin before[r] \cup {None}

\* Call c has verified a code that was sent for that purpose to the contacts.
Proven(c, contacts, purpose) ==
    work[c].code.purpose = purpose /\ contacts \subseteq {work[c].code.contact}

\* An account gets a contact, a password or its end only from a call that was given a
\* code which was sent for that very purpose: to the new contact, to the contact the
\* account was found by, or to a contact that was the account's own.
ChangesAreProven ==
    [][ \A u \in Users : Live(u) /\ account'[u] # account[u] =>
          \A c \in Calls : pc'[c] # pc[c] =>
             /\ account'[u].contacts # account[u].contacts /\ account'[u].state = "live" =>
                   /\ op[c].kind = "bind" /\ op[c].user = u
                   /\ Proven(c, account'[u].contacts \ account[u].contacts, "contact_bind")
             /\ account'[u].password # account[u].password /\ account'[u].state = "live" =>
                   op[c].kind = "reset" /\ Proven(c, op[c].contacts, "password_reset")
             /\ account'[u].state = "gone" =>
                   /\ op[c].kind = "delete" /\ op[c].user = u
                   /\ Proven(c, work[c].target, "account_deletion") ]_vars

\* An access token names a role that its user has (while the user exists).
RoleIsHeld ==
    \A c \in Signed : Live(work[c].user) => work[c].role \in account[work[c].user].roles

\* The role switched to (or added) last is the one that later logins and refreshes act
\* in, unless another switch of the user ran beside it or after it (service.go:357-362,
\* 413-414).
LastSwitchWins ==
    \A s, c \in Calls :
        (/\ op[s].kind \in {"switch", "addRole"} /\ Succeeded(s) /\ s \in before[c]
         /\ op[c].kind \in {"password", "code", "refresh"} /\ Succeeded(c)
         /\ work[c].user = op[s].user /\ Live(op[s].user)
         /\ \A x \in Calls \ {s} :
               (op[x].kind \in {"switch", "addRole"} /\ op[x].user = op[s].user
                  /\ pc[x] # "new" /\ c \notin before[x]) => x \in before[s])
        => work[c].role = op[s].arg

\* The account of call c had been disabled before c began, and nobody enabled it since.
DisabledBefore(c) ==
    \E d \in before[c] :
        /\ op[d].kind = "disable" /\ Succeeded(d) /\ op[d].user = work[c].user
        /\ \A e \in Calls : op[e].kind = "enable" /\ op[e].user = op[d].user
                               => e \in before[d] \/ pc[e] = "new"

\* A disabled account gets no session: neither by logging in nor by a refresh token it
\* still has (service.go:197-202, 228-231, 373-378).
DisabledStayOut ==
    \A c \in Held : op[c].kind # "register" => ~DisabledBefore(c)

\* Nothing that begins after an account is deleted signs its user in or changes it.
DeletedStayOut ==
    \A c, d \in Calls :
        (op[d].kind = "delete" /\ Succeeded(d) /\ d \in before[c] /\ Succeeded(c)
            /\ work[c].user = op[d].user)
        => op[c].kind \in {"logout", "logoutAll", "disable", "enable", "send"}

=============================================================================
