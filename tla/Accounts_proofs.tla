-------------------------- MODULE Accounts_proofs --------------------------
(***************************************************************************)
(* Proofs about Accounts, for any number of calls, users and contacts, any *)
(* operations called, and whatever codes were sent before.                 *)
(***************************************************************************)
EXTENDS Accounts, SequenceTheorems, TLAPS

-----------------------------------------------------------------------------
(* The inductive invariant.                                                *)

\* The statements each operation goes through.
OnRoute(c) ==
    \/ op[c].kind = "register" /\ pc[c] \in {"create", "revokeAll", "save"}
    \/ op[c].kind = "password" /\ pc[c] \in {"lookUp", "roles", "revokeAll", "save"}
    \/ /\ op[c].kind = "code"
       /\ pc[c] \in {"lookUp", "roles", "verify", "consume", "revokeAll", "save"}
    \/ /\ op[c].kind = "reset"
       /\ pc[c] \in {"verify", "consume", "lookUp", "setPassword", "revokeAll"}
    \/ op[c].kind = "bind" /\ pc[c] \in {"ensure", "verify", "consume", "setContact"}
    \/ /\ op[c].kind = "delete"
       /\ pc[c] \in {"contact", "verify", "consume", "revokeAll", "deleteRow"}
    \/ op[c].kind = "send" /\ pc[c] \in {"ensure", "contact", "send"}
    \/ op[c].kind = "refresh" /\ pc[c] \in {"find", "revokeOne", "save", "owner", "roles"}
    \/ op[c].kind = "logout" /\ pc[c] \in {"find", "revokeOne"}
    \/ op[c].kind = "logoutAll" /\ pc[c] = "revokeAll"
    \/ op[c].kind = "switch" /\ pc[c] \in {"hasRole", "setActive"}
    \/ op[c].kind = "addRole" /\ pc[c] \in {"grant", "setActive"}
    \/ op[c].kind \in {"disable", "enable"} /\ pc[c] = "setStatus"

OwnKinds == {"register", "bind", "delete", "logoutAll", "switch", "addRole", "disable", "enable"}
Switches == {"switch", "addRole"}
Finders == {"register", "password", "code", "reset", "refresh"}

\* What an operation is about, by its kind.
Asked(c) ==
    /\ op[c].kind \in OwnKinds => op[c].user \in Users
    /\ op[c].kind \notin OwnKinds \cup {"send"} => op[c].user = None
    /\ op[c].kind \in {"register"} \cup Switches => op[c].arg \in Roles
    /\ op[c].kind \in {"refresh", "logout"} => op[c].arg \in Devices
    /\ op[c].kind = "register" => op[c].contacts \in OneOrBoth
    /\ op[c].kind \in {"password", "code", "reset", "bind"} =>
         \E k \in Contacts : op[c].contacts = {k}
    /\ op[c].kind = "delete" => op[c].contacts \in {Phones, Emails}
    /\ op[c].kind = "send" => op[c].arg \in Purposes

\* Whom a call is about: the user it was asked for, or the one it has found.
Found(c) ==
    /\ op[c].user # None /\ reply[c] # "error" => work[c].user = op[c].user
    /\ pc[c] \in {"create", "roles", "setPassword", "setContact", "revokeAll", "save", "owner",
                  "deleteRow", "hasRole", "grant", "setActive", "setStatus"} =>
         work[c].user \in Users
    /\ pc[c] = "contact" => op[c].user \in Users
    /\ op[c].kind = "code" /\ pc[c] \in {"verify", "consume"} => work[c].user \in Users
    /\ op[c].kind = "refresh" /\ pc[c] = "revokeOne" => work[c].user \in Users
    /\ Succeeded(c) /\ op[c].kind \notin {"logout", "send"} => work[c].user \in Users

\* Where the code a call is asked for went, and that it has been verified.
Verified(c) ==
    /\ op[c].kind \in {"password", "code", "reset", "bind"} /\ pc[c] # "done" =>
         work[c].target = op[c].contacts
    /\ op[c].kind = "delete" /\ pc[c] \in {"verify", "consume", "revokeAll", "deleteRow"} =>
         \E k \in Contacts : work[c].target = {k}
    /\ ( \/ pc[c] \in {"consume", "setPassword", "setContact", "deleteRow"}
         \/ op[c].kind = "reset" /\ pc[c] = "lookUp"
         \/ op[c].kind = "delete" /\ pc[c] = "revokeAll" )
       => work[c].code.purpose = PurposeOf(op[c].kind) /\ work[c].code.contact \in work[c].target

\* A call that has not begun is blank; one that runs is on its route and knows its business.
ControlOf(c) ==
    IF pc[c] = "new" THEN op[c] = NoOp /\ work[c] = NoWork /\ before[c] = {} /\ reply[c] = "none"
    ELSE /\ pc[c] = "done" \/ OnRoute(c)
         /\ reply[c] = "none" <=> pc[c] # "done"
         /\ Asked(c) /\ Found(c) /\ Verified(c)
Control == \A c \in Calls : ControlOf(c)

\* The calls before a call had returned when it began.
History == \A c \in Calls : before[c] \subseteq Done /\ c \notin before[c]

\* An account a call is about is there, or has been; one that is being registered is not,
\* and nobody else registers it.
Known ==
    /\ \A c \in Calls :
        /\ op[c].kind \in OwnKinds \ {"register"} => account[op[c].user].state # "absent"
        /\ pc[c] = "create" => account[op[c].user].state = "absent"
        /\ pc[c] # "create" /\ work[c].user \in Users => account[work[c].user].state # "absent"
    /\ \A c, d \in Calls : op[c].kind = "register" /\ op[d].kind = "register"
                             /\ op[c].user = op[d].user => c = d

\* The calls that have settled in which role they act.
Settled(c) ==
    \/ /\ op[c].kind \in {"register", "password", "code"}
       /\ pc[c] \in {"verify", "consume", "revokeAll", "save"}
    \/ c \in Signed

\* The role a call has settled in, or is about to make the active one, is held.
RolesHeld ==
    \A c \in Calls :
        /\ Settled(c) /\ Live(work[c].user) => work[c].role \in account[work[c].user].roles
        /\ /\ pc[c] = "setActive" \/ (op[c].kind \in Switches /\ Succeeded(c))
           /\ Live(op[c].user)
           => op[c].arg \in account[op[c].user].roles

\* Call d has disabled the account, and nobody has enabled it since.
LastDisabled(d) ==
    /\ op[d].kind = "disable" /\ Succeeded(d)
    /\ \A e \in Calls : op[e].kind = "enable" /\ op[e].user = op[d].user
                               => e \in before[d] \/ pc[e] = "new"
\* Then it is disabled, as long as it is there.
StatusKept ==
    \A d \in Calls : LastDisabled(d) /\ Live(op[d].user) => account[op[d].user].status = "disabled"

\* The account of user u had been disabled, or deleted, before call c began.
DisabledFor(c, u) == \E d \in before[c] : LastDisabled(d) /\ op[d].user = u
DeletedFor(c, u) ==
    \E d \in before[c] : op[d].kind = "delete" /\ Succeeded(d) /\ op[d].user = u

\* What a login or a refresh has read of the status is no older than the call.
Admitted ==
    \A c \in Calls :
        /\ op[c].kind = "password" => work[c].status = "active"
        /\ op[c].kind = "code" /\ pc[c] \in {"revokeAll", "save", "done"}
           => work[c].status = "active"
        /\ /\ op[c].kind \in {"password", "code"}
           /\ work[c].user # None /\ work[c].status = "active"
           => ~DisabledFor(c, work[c].user)
        /\ op[c].kind = "refresh" /\ (pc[c] = "roles" \/ Succeeded(c))
           => ~DisabledFor(c, work[c].user)

\* A deletion has deleted its account.
Ended ==
    \A d \in Calls :
        op[d].kind = "delete" /\ Succeeded(d) => account[op[d].user].state = "gone"

\* Whoever is found, bound, deleted or switched was there when the call began.
Alive ==
    \A c \in Calls :
        /\ op[c].kind \in Finders /\ work[c].user # None => ~DeletedFor(c, work[c].user)
        /\ /\ op[c].kind \in {"bind", "delete"} \cup Switches
           /\ pc[c] = "setActive" \/ Succeeded(c)
           => ~DeletedFor(c, work[c].user)

\* The role of a switch stays the active one unless another switch came in its way.
ActiveKept ==
    \A s \in Calls :
        (/\ op[s].kind \in Switches /\ Succeeded(s) /\ Live(op[s].user)
         /\ \A x \in Calls \ {s} :
               op[x].kind \in Switches /\ op[x].user = op[s].user => x \in before[s])
        => account[op[s].user].active = op[s].arg

\* A login or a refresh that has read the active role.
HasRead(c) ==
    \/ op[c].kind \in {"password", "code"} /\ work[c].user # None
    \/ op[c].kind = "refresh" /\ (pc[c] = "roles" \/ Succeeded(c))
\* It reads the role of the last switch before it.
LastSeen ==
    \A s, c \in Calls :
        (/\ op[s].kind \in Switches /\ Succeeded(s) /\ s \in before[c]
         /\ HasRead(c) /\ work[c].user = op[s].user /\ Live(op[s].user)
         /\ \A x \in Calls \ {s} :
               (op[x].kind \in Switches /\ op[x].user = op[s].user
                  /\ pc[x] # "new" /\ c \notin before[x]) => x \in before[s])
        => work[c].role = op[s].arg

\* The password of an account that has been reset is one chosen no earlier.
PasswordFresh ==
    \A r \in Calls :
        op[r].kind = "reset" /\ (pc[r] = "revokeAll" \/ Succeeded(r)) /\ Live(work[r].user)
        => account[work[r].user].password \notin before[r] \cup {None}
\* A login after a reset has not found the account by a password from before it.
OldRefused ==
    \A r, x \in Calls :
       (/\ op[r].kind = "reset" /\ Succeeded(r) /\ r \in before[x]
        /\ op[x].kind = "password" /\ work[x].user = work[r].user /\ work[x].user # None)
       => op[x].arg \notin before[r] \cup {None}

\* A token that reset r does not end: it descends from a login after it or beside it.
Later(x, r) == Overlap(x, r) \/ (op[x].kind \in Logins /\ r \in before[x])
Survives(t, r) == \E x \in Line(t) \cap Calls : Later(x, r)
\* The live tokens of an account that has been reset survive the reset, and so does each
\* token from which a refresh that began after it goes on.
SessionsEnd ==
    \A r \in Calls : op[r].kind = "reset" /\ Succeeded(r) =>
        /\ \A t \in LiveTokens : token[t].user = work[r].user => Survives(t, r)
        /\ \A c \in Calls : (/\ op[c].kind = "refresh" /\ pc[c] \in {"revokeOne", "save"}
                             /\ r \in before[c] /\ work[c].user = work[r].user)
                            => Survives(op[c].arg, r)

IInv ==
    /\ TypeOK /\ Control /\ History /\ Known /\ RolesHeld /\ StatusKept /\ Admitted
    /\ Ended /\ Alive /\ ActiveKept /\ LastSeen /\ PasswordFresh /\ OldRefused /\ SessionsEnd

-----------------------------------------------------------------------------
(* What a step does to the call that takes it.                             *)

\* The variables of the calls are functions on them.
Shaped ==
    /\ pc = [d \in Calls |-> pc[d]] /\ op = [d \in Calls |-> op[d]]
    /\ work = [d \in Calls |-> work[d]] /\ reply = [d \in Calls |-> reply[d]]
    /\ before = [d \in Calls |-> before[d]]

LEMMA TypeShaped == ASSUME TypeOK PROVE Shaped
  BY DEF TypeOK, Shaped

Still(d) ==
    /\ pc'[d] = pc[d] /\ op'[d] = op[d] /\ work'[d] = work[d]
    /\ reply'[d] = reply[d] /\ before'[d] = before[d]

\* Only call c moves.
Alone(c) == Shaped' /\ \A d \in Calls \ {c} : Still(d)

\* The operation a call begins with, and its first statement.
Opens(o, label) ==
    \/ /\ o.kind = "register" /\ label = "create"
       /\ o.user \in Users /\ o.contacts \in OneOrBoth /\ o.arg \in Roles
       /\ account[o.user].state = "absent"
       /\ \A e \in Calls : op[e].kind = "register" => op[e].user # o.user
    \/ /\ o.kind \in {"password", "code"} /\ label = "lookUp"
       /\ o.user = None /\ \E k \in Contacts : o.contacts = {k}
    \/ /\ o.kind = "reset" /\ label = "verify"
       /\ o.user = None /\ \E k \in Contacts : o.contacts = {k}
    \/ /\ o.kind \in {"refresh", "logout"} /\ label = "find"
       /\ o.user = None /\ o.arg \in Devices
    \/ /\ o.kind = "send" /\ label \in {"ensure", "contact", "send"} /\ o.arg \in Purposes
       /\ o.user \in Users \/ (o.user = None /\ label # "contact")
    \/ /\ o.user \in Users /\ account[o.user].state # "absent"
       /\ \/ o.kind = "bind" /\ label = "ensure" /\ \E k \in Contacts : o.contacts = {k}
          \/ o.kind = "delete" /\ label = "contact" /\ o.contacts \in {Phones, Emails}
          \/ o.kind = "switch" /\ label = "hasRole" /\ o.arg \in Roles
          \/ o.kind = "addRole" /\ label = "grant" /\ o.arg \in Roles
          \/ o.kind = "logoutAll" /\ label = "revokeAll"
          \/ o.kind \in {"disable", "enable"} /\ label = "setStatus"

Begun(d) ==
    /\ pc[d] = "new" /\ Opens(op'[d], pc'[d]) /\ op'[d] \in Op
    /\ op'[d].user \in Users /\ op'[d].kind # "register" => account[op'[d].user].state # "absent"
    /\ work'[d] = [NoWork EXCEPT !.user = op'[d].user, !.target = op'[d].contacts]
    /\ reply'[d] = reply[d] /\ before'[d] = Done
    /\ NoRowChanges

Kept(d) == op'[d] = op[d] /\ before'[d] = before[d]
Goes(d, label, locals) ==
    Kept(d) /\ pc'[d] = label /\ work'[d] = locals /\ reply'[d] = reply[d]
Answers(d, role) ==
    /\ Kept(d) /\ pc'[d] = "done" /\ reply'[d] = "ok"
    /\ work'[d] = [NoWork EXCEPT !.user = work[d].user, !.role = role]
Stops(d) ==
    /\ pc[d] \in Running
    /\ Kept(d) /\ pc'[d] = "done" /\ reply'[d] = "error" /\ work'[d] = NoWork

Created(d) ==
    /\ pc[d] = "create"
    /\ account'[op[d].user] =
         [state |-> "live", contacts |-> op[d].contacts, password |-> d,
          status |-> "active", roles |-> {op[d].arg}, active |-> op[d].arg]
    /\ Goes(d, "revokeAll", [work[d] EXCEPT !.role = op[d].arg])
LookedUp(d) ==
    /\ pc[d] = "lookUp"
    /\ \E u \in Users :
         /\ Live(u)
         /\ op[d].kind = "password" => account[u].password = op[d].arg
         /\ op[d].kind # "code" => account[u].status # "disabled"
         /\ Goes(d, IF op[d].kind = "reset" THEN "setPassword" ELSE "roles",
                 [work[d] EXCEPT !.user = u, !.status = account[u].status,
                                 !.role = account[u].active])
RolesLoaded(d) ==
    /\ pc[d] = "roles"
    /\ \E role \in Roles \cup {""} :
         /\ role = ActiveRole(work[d].role, account[work[d].user].roles)
         /\ \/ op[d].kind = "code" /\ Goes(d, "verify", [work[d] EXCEPT !.role = role])
            \/ op[d].kind = "password" /\ Goes(d, "revokeAll", [work[d] EXCEPT !.role = role])
            \/ op[d].kind = "refresh" /\ Answers(d, role)
ContactFree(d) ==
    pc[d] = "ensure" /\ Goes(d, IF op[d].kind = "bind" THEN "verify" ELSE "send", work[d])
ContactFound(d) ==
    /\ pc[d] = "contact"
    /\ \E target \in SUBSET Contacts :
         /\ target # {} /\ target = account[op[d].user].contacts \cap op[d].contacts
         /\ Goes(d, IF op[d].kind = "delete" THEN "verify" ELSE "send",
                 [work[d] EXCEPT !.target = target])
CodeFound(d) ==
    /\ pc[d] = "verify"
    /\ \E x \in Code :
         /\ x.contact \in work[d].target /\ x.purpose = PurposeOf(op[d].kind)
         /\ Goes(d, "consume", [work[d] EXCEPT !.code = x])
Consumed(d) ==
    /\ pc[d] = "consume"
    /\ \/ op[d].kind = "reset" /\ Goes(d, "lookUp", work[d])
       \/ op[d].kind = "bind" /\ Goes(d, "setContact", work[d])
       \/ op[d].kind = "delete" /\ Goes(d, "revokeAll", work[d])
       \/ op[d].kind = "code" /\ work[d].status # "disabled" /\ Goes(d, "revokeAll", work[d])
PasswordSet(d) ==
    /\ pc[d] = "setPassword" /\ Live(work[d].user)
    /\ account'[work[d].user].password = d
    /\ Goes(d, "revokeAll", work[d])
TokenFound(d) ==
    /\ pc[d] = "find"
    /\ \/ /\ op[d].kind = "refresh" /\ token[op[d].arg].state = "live"
          /\ Goes(d, "revokeOne", [work[d] EXCEPT !.user = token[op[d].arg].user])
       \/ op[d].kind = "logout" /\ Goes(d, "revokeOne", work[d])
TokenRevoked(d) == pc[d] = "revokeOne" /\ op[d].kind = "refresh" /\ Goes(d, "save", work[d])
\* No token of the call's user is live now.
NoneLeft(d) ==
    \A t \in Devices : token'[t].user = work[d].user => token'[t].state # "live"
AllRevoked(d) ==
    /\ pc[d] = "revokeAll" /\ NoneLeft(d)
    /\ \/ op[d].kind \in Logins /\ Goes(d, "save", work[d])
       \/ op[d].kind = "delete" /\ Goes(d, "deleteRow", work[d])
Saved(d) ==
    /\ pc[d] = "save" /\ Live(work[d].user)
    /\ op[d].kind = "refresh" /\ Goes(d, "owner", work[d])
OwnerRead(d) ==
    /\ pc[d] = "owner" /\ Live(work[d].user) /\ account[work[d].user].status = "active"
    /\ Goes(d, "roles", [work[d] EXCEPT !.role = account[work[d].user].active])
RoleFound(d) ==
    /\ pc[d] = "hasRole" /\ op[d].arg \in account[op[d].user].roles
    /\ Goes(d, "setActive", work[d])
Granted(d) ==
    /\ pc[d] = "grant" /\ Live(op[d].user) /\ op[d].arg \in account'[op[d].user].roles
    /\ Goes(d, "setActive", work[d])

\* The statements that end an operation well, other than the loading of roles.
Finished(d) ==
    \/ /\ pc[d] = "send" /\ Answers(d, work[d].role)
    \/ /\ pc[d] = "setContact" /\ Live(op[d].user) /\ Answers(d, work[d].role)
    \/ /\ pc[d] \in {"find", "revokeOne"} /\ op[d].kind = "logout" /\ Answers(d, work[d].role)
    \/ /\ pc[d] = "revokeAll" /\ op[d].kind \in {"reset", "logoutAll"} /\ NoneLeft(d)
       /\ Answers(d, work[d].role)
    \/ /\ pc[d] = "save" /\ op[d].kind \in Logins /\ Live(work[d].user)
       /\ Answers(d, work[d].role)
    \/ /\ pc[d] = "deleteRow" /\ Live(op[d].user) /\ account'[op[d].user].state = "gone"
       /\ Answers(d, work[d].role)
    \/ /\ pc[d] = "setActive"
       /\ Live(op[d].user) => account'[op[d].user].active = op[d].arg
       /\ Answers(d, op[d].arg)
    \/ /\ pc[d] = "setStatus"
       /\ Live(op[d].user) => account'[op[d].user].status =
                                IF op[d].kind = "disable" THEN "disabled" ELSE "active"
       /\ Answers(d, work[d].role)

Ran(d) ==
    \/ Created(d) \/ LookedUp(d) \/ RolesLoaded(d) \/ ContactFree(d) \/ ContactFound(d)
    \/ CodeFound(d) \/ Consumed(d) \/ PasswordSet(d) \/ TokenFound(d) \/ TokenRevoked(d)
    \/ AllRevoked(d) \/ Saved(d) \/ OwnerRead(d) \/ RoleFound(d) \/ Granted(d) \/ Finished(d)
    \/ Stops(d)

LEMMA CodesTyped ==
    ASSUME TypeOK, NEW i \in DOMAIN codes
    PROVE  codes[i] \in Code
  <1>1. codes \in Seq(Code)
    BY DEF TypeOK
  <1>2. Len(codes) \in Nat /\ DOMAIN codes = 1 .. Len(codes)
    BY <1>1, LenProperties
  <1>3. QED
    BY <1>1, <1>2, ElementOfSeq

LEMMA BeginIsBegun ==
    ASSUME TypeOK, NEW c \in Calls, NEW kind \in AllKinds, NEW u \in Users \cup {None},
           NEW contacts \in SUBSET Contacts,
           NEW arg \in Roles \cup Purposes \cup Devices \cup CodeIds \cup {None}, NEW label,
           Begin(c, kind, u, contacts, arg, label),
           Opens([kind |-> kind, user |-> u, contacts |-> contacts, arg |-> arg], label),
           u \in Users /\ kind # "register" => account[u].state # "absent"
    PROVE  Begun(c) /\ Alone(c)
  <1> DEFINE o == [kind |-> kind, user |-> u, contacts |-> contacts, arg |-> arg]
  <1>1. o \in Op /\ o.user = u /\ o.kind = kind /\ o.contacts = contacts
    BY DEF Op
  <1>2. /\ op' = [op EXCEPT ![c] = o] /\ pc' = [pc EXCEPT ![c] = label] /\ pc[c] = "new"
        /\ work' = [work EXCEPT ![c] = [NoWork EXCEPT !.user = u, !.target = contacts]]
        /\ before' = [before EXCEPT ![c] = Done] /\ reply' = reply /\ NoRowChanges
    BY DEF Begin, Continue
  <1>3. /\ op'[c] = o /\ pc'[c] = label /\ before'[c] = Done
        /\ work'[c] = [NoWork EXCEPT !.user = u, !.target = contacts]
    BY <1>2 DEF TypeOK
  <1>4. Begun(c)
    <2>1. Opens(op'[c], pc'[c]) /\ op'[c] \in Op
      BY <1>1, <1>3
    <2>2. op'[c].user = u /\ op'[c].kind = kind /\ op'[c].contacts = contacts
      BY <1>1, <1>3
    <2>3. work'[c] = [NoWork EXCEPT !.user = op'[c].user, !.target = op'[c].contacts]
      BY <1>3, <2>2
    <2>4. QED
      BY <1>2, <1>3, <2>1, <2>2, <2>3 DEF Begun
  <1>5. Alone(c)
    <2>1. Shaped'
      BY <1>2 DEF Shaped, TypeOK
    <2>2. \A d \in Calls \ {c} : Still(d)
      BY <1>2 DEF Still, TypeOK
    <2>3. QED
      BY <2>1, <2>2 DEF Alone
  <1>6. QED
    BY <1>4, <1>5

\* Every operation begins as Begun says.
LEMMA StartBegins ==
    ASSUME TypeOK, NEW c \in Calls, Start(c)
    PROVE  Begun(c) /\ Alone(c)
  <1> DEFINE Begins == Begun(c) /\ Alone(c)
  <1> USE DEF Opens
  <1>0. None \notin Users
    BY AccountsAssumption
  <1>1. ASSUME NEW u \in Users, NEW contacts \in OneOrBoth, NEW role \in Roles,
               account[u].state = "absent",
               \A d \in Calls : op[d].kind = "register" => op[d].user # u,
               BeginRegister(c, u, contacts, role)
        PROVE  Begins
    <2>1. contacts \in SUBSET Contacts
      BY DEF OneOrBoth, Contacts
    <2>2. Begin(c, "register", u, contacts, role, "create")
      BY <1>1 DEF BeginRegister
    <2>3. "register" \in AllKinds
      BY DEF AllKinds, Logins
    <2>4. Opens([kind |-> "register", user |-> u, contacts |-> contacts, arg |-> role], "create")
      BY <1>1
    <2>5. QED
      BY <2>1, <2>2, <2>3, <2>4, BeginIsBegun
  <1>2. ASSUME NEW k \in Contacts, NEW password \in PasswordsSet,
               BeginLoginPassword(c, k, password)
        PROVE  Begins
    <2>1. password \in Devices \cup {None}
      BY DEF PasswordsSet, Devices
    <2>2. Begin(c, "password", None, {k}, password, "lookUp")
      BY <1>2 DEF BeginLoginPassword
    <2>3. "password" \in AllKinds
      BY DEF AllKinds, Logins
    <2>4. Opens([kind |-> "password", user |-> None, contacts |-> {k}, arg |-> password], "lookUp")
      OBVIOUS
    <2>5. QED
      BY <1>0, <2>1, <2>2, <2>3, <2>4, BeginIsBegun
  <1>3. ASSUME NEW k \in Contacts, NEW i \in Unconsumed,
               BeginLoginCode(c, k, codes[i].id) \/ BeginReset(c, k, codes[i].id)
        PROVE  Begins
    <2>1. codes[i].id \in CodeIds
      BY CodesTyped DEF Unconsumed, Code
    <2>2. CASE BeginLoginCode(c, k, codes[i].id)
      <3>1. Begin(c, "code", None, {k}, codes[i].id, "lookUp")
        BY <2>2 DEF BeginLoginCode
      <3>2. "code" \in AllKinds
        BY DEF AllKinds, Logins
      <3>3. Opens([kind |-> "code", user |-> None, contacts |-> {k}, arg |-> codes[i].id], "lookUp")
        OBVIOUS
      <3>4. QED
        BY <1>0, <2>1, <3>1, <3>2, <3>3, BeginIsBegun
    <2>3. CASE BeginReset(c, k, codes[i].id)
      <3>1. Begin(c, "reset", None, {k}, codes[i].id, "verify")
        BY <2>3 DEF BeginReset
      <3>2. "reset" \in AllKinds
        BY DEF AllKinds
      <3>3. Opens([kind |-> "reset", user |-> None, contacts |-> {k}, arg |-> codes[i].id],
                  "verify")
        OBVIOUS
      <3>4. QED
        BY <1>0, <2>1, <3>1, <3>2, <3>3, BeginIsBegun
    <2>4. QED
      BY <1>3, <2>2, <2>3
  <1>4. ASSUME NEW u \in Users \cup {None}, NEW contacts \in SUBSET Contacts,
               NEW purpose \in Purposes, BeginSend(c, u, contacts, purpose),
               \/ u = None /\ purpose \in {"login", "password_reset"}
               \/ u \in Users /\ account[u].state # "absent"
        PROVE  Begins
    <2>1. PICK label \in {"ensure", "contact", "send"} :
             /\ Begin(c, "send", u, contacts, purpose, label)
             /\ purpose \in {"login", "password_reset"} => label = "send"
      BY <1>4 DEF BeginSend, Purposes
    <2>2. "send" \in AllKinds
      BY DEF AllKinds
    <2>3. Opens([kind |-> "send", user |-> u, contacts |-> contacts, arg |-> purpose], label)
      BY <1>4, <2>1
    <2>4. QED
      BY <1>0, <1>4, <2>1, <2>2, <2>3, BeginIsBegun
  <1>5. ASSUME NEW t \in Held \cup {u \in Users : token[u].state # "absent"},
               BeginRefresh(c, t) \/ BeginLogout(c, t)
        PROVE  Begins
    <2>1. t \in Devices
      BY DEF Held, Devices
    <2>2. PICK kind \in {"refresh", "logout"} : Begin(c, kind, None, {}, t, "find")
      BY <1>5 DEF BeginRefresh, BeginLogout
    <2>3. kind \in AllKinds
      BY DEF AllKinds
    <2>4. Opens([kind |-> kind, user |-> None, contacts |-> {}, arg |-> t], "find")
      BY <2>1
    <2>5. QED
      BY <1>0, <2>1, <2>2, <2>3, <2>4, BeginIsBegun
  <1>6. ASSUME NEW u \in Users, account[u].state # "absent", NEW k \in Contacts,
               NEW i \in Unconsumed, BeginBind(c, u, k, codes[i].id)
        PROVE  Begins
    <2>1. codes[i].id \in CodeIds
      BY CodesTyped DEF Unconsumed, Code
    <2>2. Begin(c, "bind", u, {k}, codes[i].id, "ensure")
      BY <1>6 DEF BeginBind
    <2>3. "bind" \in AllKinds
      BY DEF AllKinds
    <2>4. Opens([kind |-> "bind", user |-> u, contacts |-> {k}, arg |-> codes[i].id], "ensure")
      BY <1>6
    <2>5. QED
      BY <1>6, <2>1, <2>2, <2>3, <2>4, BeginIsBegun
  <1>7. ASSUME NEW u \in Users, account[u].state # "absent", NEW channel \in {Phones, Emails},
               NEW i \in Unconsumed, BeginDelete(c, u, channel, codes[i].id)
        PROVE  Begins
    <2>1. codes[i].id \in CodeIds /\ channel \in SUBSET Contacts
      BY CodesTyped DEF Unconsumed, Code, Contacts
    <2>2. Begin(c, "delete", u, channel, codes[i].id, "contact")
      BY <1>7 DEF BeginDelete
    <2>3. "delete" \in AllKinds
      BY DEF AllKinds
    <2>4. Opens([kind |-> "delete", user |-> u, contacts |-> channel, arg |-> codes[i].id],
                "contact")
      BY <1>7
    <2>5. QED
      BY <1>7, <2>1, <2>2, <2>3, <2>4, BeginIsBegun
  <1>8. ASSUME NEW u \in Users, account[u].state # "absent", NEW role \in Roles,
               BeginSwitchRole(c, u, role) \/ BeginAddRole(c, u, role)
        PROVE  Begins
    <2>1. PICK kind \in Switches, label \in {"hasRole", "grant"} :
             /\ Begin(c, kind, u, {}, role, label)
             /\ \/ kind = "switch" /\ label = "hasRole"
                \/ kind = "addRole" /\ label = "grant"
      BY <1>8 DEF BeginSwitchRole, BeginAddRole, Switches
    <2>2. kind \in AllKinds
      BY DEF AllKinds, Switches
    <2>3. Opens([kind |-> kind, user |-> u, contacts |-> {}, arg |-> role], label)
      BY <1>8, <2>1
    <2>4. QED
      BY <1>8, <2>1, <2>2, <2>3, BeginIsBegun
  <1>9. ASSUME NEW u \in Users, account[u].state # "absent", BeginLogoutAll(c, u)
        PROVE  Begins
    <2>1. Begin(c, "logoutAll", u, {}, None, "revokeAll")
      BY <1>9 DEF BeginLogoutAll
    <2>2. "logoutAll" \in AllKinds
      BY DEF AllKinds
    <2>3. Opens([kind |-> "logoutAll", user |-> u, contacts |-> {}, arg |-> None], "revokeAll")
      BY <1>9
    <2>4. QED
      BY <1>9, <2>1, <2>2, <2>3, BeginIsBegun
  <1>10. ASSUME NEW u \in Users, account[u].state # "absent", NEW kind \in {"disable", "enable"},
                BeginSetStatus(c, kind, u)
         PROVE  Begins
    <2>1. Begin(c, kind, u, {}, None, "setStatus")
      BY <1>10 DEF BeginSetStatus
    <2>2. kind \in AllKinds
      BY DEF AllKinds
    <2>3. Opens([kind |-> kind, user |-> u, contacts |-> {}, arg |-> None], "setStatus")
      BY <1>10
    <2>4. QED
      BY <1>10, <2>1, <2>2, <2>3, BeginIsBegun
  <1>11. {{k} : k \in Contacts} \subseteq SUBSET Contacts /\ Phones \in SUBSET Contacts
         /\ Emails \in SUBSET Contacts
    BY DEF Contacts
  <1>12. /\ "login" \in Purposes /\ "password_reset" \in Purposes
         /\ "contact_bind" \in Purposes /\ "account_deletion" \in Purposes
    BY DEF Purposes
  <1>13. \A k \in Contacts, purpose \in {"login", "password_reset"} :
            BeginSend(c, None, {k}, purpose) => Begins
    BY <1>4, <1>11, <1>12
  <1>14. ASSUME NEW u \in Users, account[u].state # "absent",
                \/ \E k \in Contacts : BeginSend(c, u, {k}, "contact_bind")
                \/ \E channel \in {Phones, Emails} : BeginSend(c, u, channel, "account_deletion")
         PROVE  Begins
    BY <1>4, <1>11, <1>12, <1>14
  <1>15. CASE \E u \in Users, contacts \in OneOrBoth, role \in Roles :
                /\ account[u].state = "absent"
                /\ \A d \in Calls : op[d].kind = "register" => op[d].user # u
                /\ BeginRegister(c, u, contacts, role)
    BY <1>1, <1>15
  <1>16. CASE \E k \in Contacts :
                \/ \E password \in PasswordsSet : BeginLoginPassword(c, k, password)
                \/ \E i \in Unconsumed :
                      BeginLoginCode(c, k, codes[i].id) \/ BeginReset(c, k, codes[i].id)
                \/ \E purpose \in {"login", "password_reset"} : BeginSend(c, None, {k}, purpose)
    BY <1>2, <1>3, <1>13, <1>16
  <1>17. CASE \E t \in Held \cup {u \in Users : token[u].state # "absent"} :
                BeginRefresh(c, t) \/ BeginLogout(c, t)
    BY <1>5, <1>17
  <1>18. ASSUME NEW u \in Users, Authenticated(u),
                \/ \E k \in Contacts :
                      \/ BeginSend(c, u, {k}, "contact_bind")
                      \/ \E i \in Unconsumed : BeginBind(c, u, k, codes[i].id)
                \/ \E channel \in {Phones, Emails} :
                      \/ BeginSend(c, u, channel, "account_deletion")
                      \/ \E i \in Unconsumed : BeginDelete(c, u, channel, codes[i].id)
                \/ \E role \in Roles : BeginSwitchRole(c, u, role) \/ BeginAddRole(c, u, role)
                \/ BeginLogoutAll(c, u)
         PROVE  Begins
    <2>1. account[u].state # "absent"
      BY <1>18 DEF Authenticated
    <2>2. QED
      BY <2>1, <1>6, <1>7, <1>8, <1>9, <1>14, <1>18
  <1>19. QED
    BY <1>10, <1>15, <1>16, <1>17, <1>18 DEF Start

LEMMA ContinueGoes ==
    ASSUME TypeOK, NEW c \in Calls, NEW label, NEW locals, Continue(c, label, locals),
           op' = op, before' = before
    PROVE  Goes(c, label, locals) /\ Alone(c)
  <1>1. Shaped'
    BY TypeShaped DEF Shaped, Continue
  <1>2. Goes(c, label, locals) /\ \A d \in Calls \ {c} : Still(d)
    BY DEF TypeOK, Continue, Goes, Kept, Still
  <1>3. QED
    BY <1>1, <1>2 DEF Alone

LEMMA ReturnAnswers ==
    ASSUME TypeOK, NEW c \in Calls, NEW role, ReturnAs(c, "ok", role), op' = op, before' = before
    PROVE  Answers(c, role) /\ Alone(c)
  <1>1. Shaped'
    BY TypeShaped DEF Shaped, ReturnAs
  <1>2. Answers(c, role) /\ \A d \in Calls \ {c} : Still(d)
    BY DEF TypeOK, ReturnAs, Answers, Kept, Still
  <1>3. QED
    BY <1>1, <1>2 DEF Alone

LEMMA ErrorStops ==
    ASSUME TypeOK, NEW c \in Calls, pc[c] \in Running, Return(c, "error"),
           op' = op, before' = before
    PROVE  Stops(c) /\ Alone(c)
  <1>1. Shaped'
    BY TypeShaped DEF Shaped, Return, ReturnAs
  <1>2. Stops(c) /\ \A d \in Calls \ {c} : Still(d)
    BY DEF TypeOK, Return, ReturnAs, Stops, Kept, Still
  <1>3. QED
    BY <1>1, <1>2 DEF Alone

LEMMA FinalAnswers ==
    ASSUME TypeOK, NEW c \in Calls, Return(c, "ok"), op' = op, before' = before
    PROVE  Answers(c, work[c].role) /\ Alone(c)
  BY ReturnAnswers DEF Return

\* Every statement does to its call what Ran says, and nothing to the others.
LEMMA AdvanceRuns ==
    ASSUME TypeOK, Control, NEW c \in Calls, Advance(c)
    PROVE  Ran(c) /\ Alone(c)
  <1> DEFINE Runs == Ran(c) /\ Alone(c)
  <1>91. pc[c] \notin {"new", "done"} => OnRoute(c)
    BY DEF Control, ControlOf
  <1>92. pc[c] \notin {"new", "done"} => Asked(c) /\ Found(c)
    BY DEF Control, ControlOf
  <1>93. ASSUME pc[c] \in Running, Return(c, "error"), op' = op, before' = before
        PROVE  Runs
    BY <1>93, ErrorStops DEF Ran
  <1>1. CASE Create(c)
    <2>0. op' = op /\ before' = before /\ pc[c] = "create" /\ pc[c] \in Running
      BY <1>1 DEF Create, Running
    <2>1. CASE Return(c, "error")
      BY <2>0, <2>1, <1>93
    <2>2. CASE Continue(c, "revokeAll", [work[c] EXCEPT !.role = op[c].arg])
               /\ ~ \E k \in op[c].contacts : HoldersOf(k) # {}
      <3>1. op[c].kind = "register" /\ op[c].user \in Users
        BY <2>0, <1>91, <1>92 DEF OnRoute, Asked, OwnKinds
      <3>2. account'[op[c].user] =
              [state |-> "live", contacts |-> op[c].contacts, password |-> c,
               status |-> "active", roles |-> {op[c].arg}, active |-> op[c].arg]
        BY <1>1, <2>2, <3>1 DEF Create, TypeOK
      <3>3. Created(c) /\ Alone(c)
        BY <2>0, <2>2, <3>2, ContinueGoes DEF Created
      <3>4. QED
        BY <3>3 DEF Ran
    <2>3. QED
      BY <1>1, <2>1, <2>2 DEF Create, Executed
  <1>2. CASE LookUp(c)
    <2>0. op' = op /\ before' = before /\ pc[c] = "lookUp" /\ pc[c] \in Running
      BY <1>2 DEF LookUp, Reads, Running
    <2>1. CASE Return(c, "error")
      BY <2>0, <2>1, <1>93
    <2>2. ASSUME NEW u \in Users, Live(u),
                 op[c].kind = "password" => account[u].password = op[c].arg,
                 op[c].kind # "code" => account[u].status # "disabled",
                 Continue(c, IF op[c].kind = "reset" THEN "setPassword" ELSE "roles",
                            [work[c] EXCEPT !.user = u, !.status = account[u].status,
                                            !.role = account[u].active])
          PROVE  Runs
      <3>1. LookedUp(c) /\ Alone(c)
        BY <2>0, <2>2, ContinueGoes DEF LookedUp
      <3>2. QED
        BY <3>1 DEF Ran
    <2>3. \A k \in op[c].contacts : \A u \in HoldersOf(k) : u \in Users /\ Live(u)
      BY DEF HoldersOf
    <2>4. QED
      BY <1>2, <2>1, <2>2, <2>3 DEF LookUp
  <1>3. CASE LoadRoles(c)
    <2>0. op' = op /\ before' = before /\ pc[c] = "roles"
      BY <1>3 DEF LoadRoles, Reads
    <2>1. op[c].kind \in {"password", "code", "refresh"}
      BY <2>0, <1>91 DEF OnRoute
    <2>2. PICK role : role = ActiveRole(work[c].role, account[work[c].user].roles)
      OBVIOUS
    <2>3. work[c].role \in Roles \cup {""}
      BY DEF TypeOK, Work
    <2>4. role \in Roles \cup {""}
      BY <2>2, <2>3 DEF ActiveRole, Roles
    <2>5. CASE op[c].kind = "code"
      <3>1. Continue(c, "verify", [work[c] EXCEPT !.role = role])
        BY <1>3, <2>2, <2>5 DEF LoadRoles
      <3>2. RolesLoaded(c) /\ Alone(c)
        BY <2>0, <2>2, <2>4, <2>5, <3>1, ContinueGoes DEF RolesLoaded
      <3>3. QED
        BY <3>2 DEF Ran
    <2>6. CASE op[c].kind = "password"
      <3>1. Continue(c, "revokeAll", [work[c] EXCEPT !.role = role])
        BY <1>3, <2>2, <2>6 DEF LoadRoles
      <3>2. RolesLoaded(c) /\ Alone(c)
        BY <2>0, <2>2, <2>4, <2>6, <3>1, ContinueGoes DEF RolesLoaded
      <3>3. QED
        BY <3>2 DEF Ran
    <2>7. CASE op[c].kind = "refresh"
      <3>1. ReturnAs(c, "ok", role)
        BY <1>3, <2>2, <2>7 DEF LoadRoles
      <3>2. RolesLoaded(c) /\ Alone(c)
        BY <2>0, <2>2, <2>4, <2>7, <3>1, ReturnAnswers DEF RolesLoaded
      <3>3. QED
        BY <3>2 DEF Ran
    <2>8. QED
      BY <2>1, <2>5, <2>6, <2>7
  <1>4. CASE EnsureFree(c)
    <2>0. op' = op /\ before' = before /\ pc[c] = "ensure" /\ pc[c] \in Running
      BY <1>4 DEF EnsureFree, Reads, Running
    <2>1. CASE Return(c, "error")
      BY <2>0, <2>1, <1>93
    <2>2. CASE Continue(c, IF op[c].kind = "bind" THEN "verify" ELSE "send", work[c])
      <3>1. ContactFree(c) /\ Alone(c)
        BY <2>0, <2>2, ContinueGoes DEF ContactFree
      <3>2. QED
        BY <3>1 DEF Ran
    <2>3. QED
      BY <1>4, <2>1, <2>2 DEF EnsureFree, Goto
  <1>5. CASE FindContact(c)
    <2>0. op' = op /\ before' = before /\ pc[c] = "contact" /\ pc[c] \in Running
      BY <1>5 DEF FindContact, Reads, Running
    <2>1. CASE Return(c, "error")
      BY <2>0, <2>1, <1>93
    <2>2. PICK target : target = account[op[c].user].contacts \cap op[c].contacts
      OBVIOUS
    <2>3. CASE target # {} /\ Continue(c, IF op[c].kind = "delete" THEN "verify" ELSE "send",
                                         [work[c] EXCEPT !.target = target])
      <3>1. target \in SUBSET Contacts
        <4>1. op[c].contacts \in SUBSET Contacts
          BY DEF TypeOK, Op
        <4>2. QED
          BY <2>2, <4>1
      <3>2. ContactFound(c) /\ Alone(c)
        BY <2>0, <2>2, <2>3, <3>1, ContinueGoes DEF ContactFound
      <3>3. QED
        BY <3>2 DEF Ran
    <2>4. QED
      BY <1>5, <2>1, <2>2, <2>3 DEF FindContact
  <1>6. CASE Send(c)
    <2>0. op' = op /\ before' = before /\ pc[c] = "send" /\ pc[c] \in Running
      BY <1>6 DEF Send, Running
    <2>1. CASE Return(c, "error")
      BY <2>0, <2>1, <1>93
    <2>2. CASE Return(c, "ok")
      <3>1. Finished(c) /\ Alone(c)
        BY <2>0, <2>2, FinalAnswers DEF Finished
      <3>2. QED
        BY <3>1 DEF Ran
    <2>3. QED
      BY <1>6, <2>1, <2>2 DEF Send, Executed
  <1>7. CASE Verify(c)
    <2>0. op' = op /\ before' = before /\ pc[c] = "verify" /\ pc[c] \in Running
      BY <1>7 DEF Verify, Reads, Running
    <2>1. CASE Return(c, "error")
      BY <2>0, <2>1, <1>93
    <2>2. ASSUME NEW i \in Candidates(c),
                 Continue(c, "consume", [work[c] EXCEPT !.code = codes[i]])
          PROVE  Runs
      <3>1. /\ i \in DOMAIN codes /\ codes[i].contact \in work[c].target
            /\ codes[i].purpose = PurposeOf(op[c].kind)
        BY DEF Candidates, Unconsumed
      <3>2. codes[i] \in Code
        BY <3>1, CodesTyped
      <3>3. CodeFound(c) /\ Alone(c)
        BY <2>0, <2>2, <3>1, <3>2, ContinueGoes DEF CodeFound
      <3>4. QED
        BY <3>3 DEF Ran
    <2>3. QED
      BY <1>7, <2>1, <2>2 DEF Verify
  <1>8. CASE Consume(c)
    <2>0. op' = op /\ before' = before /\ pc[c] = "consume" /\ pc[c] \in Running
      BY <1>8 DEF Consume, Running
    <2>1. CASE Return(c, "error")
      BY <2>0, <2>1, <1>93
    <2>2. op[c].kind \in {"reset", "bind", "delete", "code"}
      BY <2>0, <1>91 DEF OnRoute
    <2>3. CASE \/ op[c].kind = "reset" /\ Continue(c, "lookUp", work[c])
               \/ op[c].kind = "bind" /\ Continue(c, "setContact", work[c])
               \/ op[c].kind = "delete" /\ Continue(c, "revokeAll", work[c])
               \/ /\ op[c].kind = "code" /\ work[c].status # "disabled"
                  /\ Continue(c, "revokeAll", work[c])
      <3>1. Consumed(c) /\ Alone(c)
        BY <2>0, <2>3, ContinueGoes DEF Consumed
      <3>2. QED
        BY <3>1 DEF Ran
    <2>4. CASE op[c].kind = "reset"
      BY <1>8, <2>1, <2>3, <2>4 DEF Consume, Executed, Goto
    <2>5. CASE op[c].kind = "bind"
      BY <1>8, <2>1, <2>3, <2>5 DEF Consume, Executed, Goto
    <2>6. CASE op[c].kind = "delete"
      BY <1>8, <2>1, <2>3, <2>6 DEF Consume, Executed, Goto
    <2>7. CASE op[c].kind = "code"
      BY <1>8, <2>1, <2>3, <2>7 DEF Consume, Executed, Goto
    <2>8. QED
      BY <2>2, <2>4, <2>5, <2>6, <2>7
  <1>9. CASE SetPassword(c)
    <2>0. op' = op /\ before' = before /\ pc[c] = "setPassword" /\ pc[c] \in Running
      BY <1>9 DEF SetPassword, Running
    <2>1. CASE Return(c, "error")
      BY <2>0, <2>1, <1>93
    <2>2. CASE Continue(c, "revokeAll", work[c]) /\ Live(work[c].user)
      <3>1. work[c].user \in Users
        BY <2>0, <1>92 DEF Found
      <3>2. account' = [account EXCEPT ![work[c].user].password = c]
        BY <1>9, <2>2 DEF SetPassword
      <3>3. account'[work[c].user].password = c
        BY <3>1, <3>2 DEF TypeOK, Account
      <3>4. PasswordSet(c) /\ Alone(c)
        BY <2>0, <2>2, <3>3, ContinueGoes DEF PasswordSet
      <3>5. QED
        BY <3>4 DEF Ran
    <2>3. QED
      BY <1>9, <2>1, <2>2 DEF SetPassword, Executed, Goto
  <1>10. CASE SetContact(c)
    <2>0. op' = op /\ before' = before /\ pc[c] = "setContact" /\ pc[c] \in Running
      BY <1>10 DEF SetContact, Running
    <2>1. CASE Return(c, "error")
      BY <2>0, <2>1, <1>93
    <2>2. CASE Return(c, "ok") /\ Live(op[c].user)
      <3>1. Finished(c) /\ Alone(c)
        BY <2>0, <2>2, FinalAnswers DEF Finished
      <3>2. QED
        BY <3>1 DEF Ran
    <2>3. QED
      BY <1>10, <2>1, <2>2 DEF SetContact, Executed
  <1>11. CASE FindToken(c)
    <2>0. op' = op /\ before' = before /\ pc[c] = "find" /\ pc[c] \in Running
      BY <1>11 DEF FindToken, Reads, Running
    <2>1. CASE Return(c, "error")
      BY <2>0, <2>1, <1>93
    <2>2. op[c].kind \in {"refresh", "logout"}
      BY <2>0, <1>91 DEF OnRoute
    <2>3. CASE op[c].kind = "logout" /\ Return(c, "ok")
      <3>1. Finished(c) /\ Alone(c)
        BY <2>0, <2>3, FinalAnswers DEF Finished
      <3>2. QED
        BY <3>1 DEF Ran
    <2>4. CASE \/ op[c].kind = "logout" /\ Continue(c, "revokeOne", work[c])
               \/ /\ op[c].kind = "refresh" /\ token[op[c].arg].state = "live"
                  /\ Continue(c, "revokeOne", [work[c] EXCEPT !.user = token[op[c].arg].user])
      <3>1. TokenFound(c) /\ Alone(c)
        BY <2>0, <2>4, ContinueGoes DEF TokenFound
      <3>2. QED
        BY <3>1 DEF Ran
    <2>5. CASE op[c].kind = "refresh"
      BY <1>11, <2>1, <2>4, <2>5 DEF FindToken
    <2>6. CASE op[c].kind = "logout"
      BY <1>11, <2>3, <2>4, <2>6 DEF FindToken, Goto
    <2>7. QED
      BY <2>2, <2>5, <2>6
  <1>12. CASE RevokeToken(c)
    <2>0. op' = op /\ before' = before /\ pc[c] = "revokeOne" /\ pc[c] \in Running
      BY <1>12 DEF RevokeToken, Running
    <2>1. CASE Return(c, "error")
      BY <2>0, <2>1, <1>93
    <2>2. op[c].kind \in {"refresh", "logout"}
      BY <2>0, <1>91 DEF OnRoute
    <2>3. CASE op[c].kind = "logout" /\ Return(c, "ok")
      <3>1. Finished(c) /\ Alone(c)
        BY <2>0, <2>3, FinalAnswers DEF Finished
      <3>2. QED
        BY <3>1 DEF Ran
    <2>4. CASE op[c].kind = "refresh" /\ Continue(c, "save", work[c])
      <3>1. TokenRevoked(c) /\ Alone(c)
        BY <2>0, <2>4, ContinueGoes DEF TokenRevoked
      <3>2. QED
        BY <3>1 DEF Ran
    <2>5. QED
      BY <1>12, <2>1, <2>2, <2>3, <2>4 DEF RevokeToken, Executed, Goto
  <1>13. CASE RevokeAll(c)
    <2>0. op' = op /\ before' = before /\ pc[c] = "revokeAll" /\ pc[c] \in Running
      BY <1>13 DEF RevokeAll, Running
    <2>1. CASE Return(c, "error")
      BY <2>0, <2>1, <1>93
    <2>2. op[c].kind \in Logins \cup {"reset", "logoutAll", "delete"}
      BY <2>0, <1>91 DEF OnRoute, Logins
    <2>3. NoneLeft(c)
      <3>1. ASSUME NEW t \in Devices, token'[t].user = work[c].user
            PROVE  token'[t].state # "live"
        <4>1. token'[t] = IF t \in LiveTokens /\ token[t].user = work[c].user
                          THEN [state |-> "revoked", user |-> work[c].user] ELSE token[t]
          BY <1>13 DEF RevokeAll
        <4>2. QED
          BY <3>1, <4>1 DEF LiveTokens
      <3>2. QED
        BY <3>1 DEF NoneLeft
    <2>4. CASE op[c].kind \in {"reset", "logoutAll"} /\ Return(c, "ok")
      <3>1. Finished(c) /\ Alone(c)
        BY <2>0, <2>3, <2>4, FinalAnswers DEF Finished
      <3>2. QED
        BY <3>1 DEF Ran
    <2>5. CASE \/ op[c].kind \in Logins /\ Continue(c, "save", work[c])
               \/ op[c].kind = "delete" /\ Continue(c, "deleteRow", work[c])
      <3>1. AllRevoked(c) /\ Alone(c)
        BY <2>0, <2>3, <2>5, ContinueGoes DEF AllRevoked
      <3>2. QED
        BY <3>1 DEF Ran
    <2>6. CASE op[c].kind \in Logins
      <3>1. op[c].kind \notin {"reset", "logoutAll"} /\ op[c].kind # "delete"
        BY <2>6 DEF Logins
      <3>2. Executed(c, Goto(c, "save"))
        BY <1>13, <2>6, <3>1 DEF RevokeAll
      <3>3. QED
        BY <2>1, <2>5, <2>6, <3>2 DEF Executed, Goto
    <2>7. CASE op[c].kind \in {"reset", "logoutAll"}
      BY <1>13, <2>1, <2>4, <2>7 DEF RevokeAll, Executed, Logins
    <2>8. CASE op[c].kind = "delete"
      BY <1>13, <2>1, <2>5, <2>8 DEF RevokeAll, Executed, Goto, Logins
    <2>9. QED
      BY <2>2, <2>6, <2>7, <2>8
  <1>14. CASE Save(c)
    <2>0. op' = op /\ before' = before /\ pc[c] = "save" /\ pc[c] \in Running /\ Live(work[c].user)
      BY <1>14 DEF Save, Running
    <2>1. CASE Return(c, "error")
      BY <2>0, <2>1, <1>93
    <2>2. CASE op[c].kind = "refresh" /\ Continue(c, "owner", work[c])
      <3>1. Saved(c) /\ Alone(c)
        BY <2>0, <2>2, ContinueGoes DEF Saved
      <3>2. QED
        BY <3>1 DEF Ran
    <2>3. CASE op[c].kind # "refresh" /\ Return(c, "ok")
      <3>1. op[c].kind \in Logins
        BY <2>0, <2>3, <1>91 DEF OnRoute, Logins
      <3>2. Finished(c) /\ Alone(c)
        BY <2>0, <2>3, <3>1, FinalAnswers DEF Finished
      <3>3. QED
        BY <3>2 DEF Ran
    <2>4. QED
      BY <1>14, <2>1, <2>2, <2>3 DEF Save, Executed, Goto
  <1>15. CASE ReadOwner(c)
    <2>0. op' = op /\ before' = before /\ pc[c] = "owner" /\ pc[c] \in Running
      BY <1>15 DEF ReadOwner, Reads, Running
    <2>1. CASE Return(c, "error")
      BY <2>0, <2>1, <1>93
    <2>2. CASE /\ Live(work[c].user) /\ account[work[c].user].status = "active"
               /\ Continue(c, "roles", [work[c] EXCEPT !.role = account[work[c].user].active])
      <3>1. OwnerRead(c) /\ Alone(c)
        BY <2>0, <2>2, ContinueGoes DEF OwnerRead
      <3>2. QED
        BY <3>1 DEF Ran
    <2>3. QED
      BY <1>15, <2>1, <2>2 DEF ReadOwner
  <1>16. CASE DeleteRow(c)
    <2>0. op' = op /\ before' = before /\ pc[c] = "deleteRow" /\ pc[c] \in Running
      BY <1>16 DEF DeleteRow, Running
    <2>1. CASE Return(c, "error")
      BY <2>0, <2>1, <1>93
    <2>2. CASE Return(c, "ok") /\ Live(op[c].user)
      <3>1. op[c].user \in Users
        BY <2>0, <1>91, <1>92 DEF OnRoute, Asked, OwnKinds
      <3>2. account'[op[c].user].state = "gone"
        BY <1>16, <2>2, <3>1 DEF DeleteRow, TypeOK, NoAccount
      <3>3. Finished(c) /\ Alone(c)
        BY <2>0, <2>2, <3>2, FinalAnswers DEF Finished
      <3>4. QED
        BY <3>3 DEF Ran
    <2>3. QED
      BY <1>16, <2>1, <2>2 DEF DeleteRow, Executed
  <1>17. CASE HasRole(c)
    <2>0. op' = op /\ before' = before /\ pc[c] = "hasRole" /\ pc[c] \in Running
      BY <1>17 DEF HasRole, Reads, Running
    <2>1. CASE Return(c, "error")
      BY <2>0, <2>1, <1>93
    <2>2. CASE op[c].arg \in account[op[c].user].roles /\ Continue(c, "setActive", work[c])
      <3>1. RoleFound(c) /\ Alone(c)
        BY <2>0, <2>2, ContinueGoes DEF RoleFound
      <3>2. QED
        BY <3>1 DEF Ran
    <2>3. QED
      BY <1>17, <2>1, <2>2 DEF HasRole, Goto
  <1>18. CASE Grant(c)
    <2>0. op' = op /\ before' = before /\ pc[c] = "grant" /\ pc[c] \in Running /\ Live(op[c].user)
      BY <1>18 DEF Grant, Running
    <2>1. CASE Return(c, "error")
      BY <2>0, <2>1, <1>93
    <2>2. CASE /\ account' = [account EXCEPT ![op[c].user].roles = @ \cup {op[c].arg}]
               /\ Continue(c, "setActive", work[c])
      <3>1. op[c].user \in Users
        BY <2>0, <1>91, <1>92 DEF OnRoute, Asked, OwnKinds
      <3>2. account[op[c].user] \in Account
        BY <3>1 DEF TypeOK
      <3>3. account'[op[c].user] =
               [account[op[c].user] EXCEPT !.roles = account[op[c].user].roles \cup {op[c].arg}]
        BY <2>2, <3>1 DEF TypeOK
      <3>4. op[c].arg \in account'[op[c].user].roles
        BY <3>2, <3>3 DEF Account
      <3>5. Granted(c) /\ Alone(c)
        BY <2>0, <2>2, <3>4, ContinueGoes DEF Granted
      <3>6. QED
        BY <3>5 DEF Ran
    <2>3. QED
      BY <1>18, <2>1, <2>2 DEF Grant, Executed, Goto
  <1>19. CASE SetActive(c)
    <2>0. op' = op /\ before' = before /\ pc[c] = "setActive" /\ pc[c] \in Running
      BY <1>19 DEF SetActive, Running
    <2>1. CASE Return(c, "error")
      BY <2>0, <2>1, <1>93
    <2>2. CASE ReturnAs(c, "ok", op[c].arg)
      <3>1. op[c].user \in Users
        BY <2>0, <1>91, <1>92 DEF OnRoute, Asked, OwnKinds
      <3>2. Live(op[c].user) => account'[op[c].user].active = op[c].arg
        BY <1>19, <3>1 DEF SetActive, TypeOK, Account
      <3>3. Finished(c) /\ Alone(c)
        BY <2>0, <2>2, <3>2, ReturnAnswers DEF Finished
      <3>4. QED
        BY <3>3 DEF Ran
    <2>3. QED
      BY <1>19, <2>1, <2>2 DEF SetActive, Executed
  <1>20. CASE SetStatus(c)
    <2>0. op' = op /\ before' = before /\ pc[c] = "setStatus" /\ pc[c] \in Running
      BY <1>20 DEF SetStatus, Running
    <2>1. CASE Return(c, "error")
      BY <2>0, <2>1, <1>93
    <2>2. CASE Return(c, "ok")
      <3>1. op[c].user \in Users
        BY <2>0, <1>91, <1>92 DEF OnRoute, Asked, OwnKinds
      <3>2. Live(op[c].user) => account'[op[c].user].status =
                                  IF op[c].kind = "disable" THEN "disabled" ELSE "active"
        BY <1>20, <3>1 DEF SetStatus, TypeOK, Account
      <3>3. Finished(c) /\ Alone(c)
        BY <2>0, <2>2, <3>2, FinalAnswers DEF Finished
      <3>4. QED
        BY <3>3 DEF Ran
    <2>3. QED
      BY <1>20, <2>1, <2>2 DEF SetStatus, Executed
  <1>21. CASE Fail(c)
    BY <1>21, <1>93 DEF Fail, Reads
  <1>22. QED
    BY <1>1, <1>2, <1>3, <1>4, <1>5, <1>6, <1>7, <1>8, <1>9, <1>10, <1>11, <1>12, <1>13, <1>14,
       <1>15, <1>16, <1>17, <1>18, <1>19, <1>20, <1>21 DEF Advance

LEMMA StepCases ==
    ASSUME TypeOK, Control, [Next]_vars
    PROVE  \/ \E c \in Calls : Begun(c) /\ Alone(c)
           \/ \E c \in Calls : Advance(c) /\ Ran(c) /\ Alone(c)
           \/ UNCHANGED vars
  BY StartBegins, AdvanceRuns DEF Next, AllDone

LEMMA OneMoves ==
    ASSUME TypeOK, Control, [Next]_vars, NEW d \in Calls
    PROVE  Still(d) \/ Begun(d) \/ Ran(d)
  <1>1. CASE UNCHANGED vars
    BY <1>1 DEF vars, Still
  <1>2. QED
    BY <1>1, StepCases DEF Alone

\* A call that has returned stays as it is.
LEMMA DoneStays ==
    ASSUME TypeOK, Control, [Next]_vars, NEW d \in Calls, pc[d] = "done"
    PROVE  Still(d)
  BY OneMoves DEF Begun, Ran, Created, LookedUp, RolesLoaded, ContactFree, ContactFound,
       CodeFound, Consumed, PasswordSet, TokenFound, TokenRevoked, AllRevoked, Saved, OwnerRead,
       RoleFound, Granted, Finished, Stops, Running

\* What a call was asked, and after which calls, is settled when it begins.
LEMMA RanKeeps ==
    ASSUME NEW d \in Calls, Ran(d)
    PROVE  /\ Kept(d) /\ pc[d] \notin {"new", "done"} /\ pc'[d] # "new"
           /\ pc'[d] = "done" => reply'[d] \in {"ok", "error"}
           /\ pc'[d] # "done" => reply'[d] = reply[d]
  BY DEF Ran, Created, LookedUp, RolesLoaded, ContactFree, ContactFound,
       CodeFound, Consumed, PasswordSet, TokenFound, TokenRevoked, AllRevoked, Saved, OwnerRead,
       RoleFound, Granted, Finished, Stops, Running, Goes, Answers

-----------------------------------------------------------------------------
(* Types.                                                                  *)

LEMMA NoWorkTyped == NoWork \in Work
  BY DEF NoWork, Work

LEMMA LocalsTyped ==
    ASSUME TypeOK, Control, NEW d \in Calls, Ran(d)
    PROVE  work'[d] \in Work
  <1>0. work[d] \in Work
    BY DEF TypeOK
  <1>1. /\ work[d].user \in Users \cup {None} /\ work[d].role \in Roles \cup {""}
        /\ op[d].kind = "register" => op[d].arg \in Roles
        /\ pc[d] = "setActive" => op[d].arg \in Roles
    <2>1. pc[d] = "setActive" => op[d].kind \in Switches
      BY DEF Control, ControlOf, OnRoute, Switches
    <2>2. pc[d] # "new" => Asked(d)
      BY DEF Control, ControlOf
    <2>3. pc[d] = "new" => op[d].kind # "register"
      BY DEF Control, ControlOf, NoOp
    <2>4. QED
      BY <1>0, <2>1, <2>2, <2>3 DEF Asked, Work
  <1>2. ASSUME NEW role \in Roles \cup {""}, Answers(d, role)
        PROVE  work'[d] \in Work
    BY <1>1, <1>2, NoWorkTyped DEF Answers, Work
  <1>3. ASSUME NEW label, Goes(d, label, work[d])
        PROVE  work'[d] \in Work
    BY <1>0, <1>3 DEF Goes
  <1>4. CASE Created(d)
    <2>1. op[d].kind = "register"
      BY <1>4 DEF Created, Control, ControlOf, OnRoute
    <2>2. QED
      BY <1>0, <1>1, <1>4, <2>1 DEF Created, Goes, Work
  <1>5. CASE LookedUp(d)
    <2>1. PICK u \in Users :
             work'[d] = [work[d] EXCEPT !.user = u, !.status = account[u].status,
                                        !.role = account[u].active]
      BY <1>5 DEF LookedUp, Goes
    <2>2. account[u].status \in {"active", "disabled"} /\ account[u].active \in Roles \cup {""}
      BY DEF TypeOK, Account
    <2>3. QED
      BY <1>0, <2>1, <2>2 DEF Work
  <1>6. CASE RolesLoaded(d)
    BY <1>0, <1>2, <1>6 DEF RolesLoaded, Goes, Work
  <1>7. CASE ContactFound(d)
    BY <1>0, <1>7 DEF ContactFound, Goes, Work
  <1>8. CASE CodeFound(d)
    BY <1>0, <1>8 DEF CodeFound, Goes, Work
  <1>9. CASE TokenFound(d)
    <2>1. op[d].kind = "refresh" /\ pc[d] = "find" => op[d].arg \in Devices
      BY DEF Control, ControlOf, Asked
    <2>2. op[d].kind = "refresh" /\ pc[d] = "find" => token[op[d].arg].user \in Users \cup {None}
      BY <2>1 DEF TypeOK, Token
    <2>3. QED
      BY <1>0, <1>9, <2>2 DEF TokenFound, Goes, Work
  <1>10. CASE OwnerRead(d)
    <2>1. work[d].user \in Users
      BY <1>10 DEF OwnerRead, Control, ControlOf, Found
    <2>2. account[work[d].user].active \in Roles \cup {""}
      BY <2>1 DEF TypeOK, Account
    <2>3. QED
      BY <1>0, <1>10, <2>2 DEF OwnerRead, Goes, Work
  <1>11. CASE Finished(d)
    <2>1. Answers(d, work[d].role) \/ (pc[d] = "setActive" /\ Answers(d, op[d].arg))
      BY <1>11 DEF Finished
    <2>2. QED
      BY <1>1, <1>2, <2>1
  <1>12. CASE Stops(d)
    BY <1>12, NoWorkTyped DEF Stops
  <1>13. QED
    BY <1>3, <1>4, <1>5, <1>6, <1>7, <1>8, <1>9, <1>10, <1>11, <1>12
       DEF Ran, ContactFree, Consumed, PasswordSet, TokenRevoked, AllRevoked, Saved, RoleFound,
           Granted

LEMMA LabelsTyped ==
    ASSUME TypeOK, Control, NEW d \in Calls, Ran(d)
    PROVE  pc'[d] \in Running \cup {"new", "done"}
  BY DEF Ran, Created, LookedUp, RolesLoaded, ContactFree, ContactFound,
       CodeFound, Consumed, PasswordSet, TokenFound, TokenRevoked, AllRevoked, Saved, OwnerRead,
       RoleFound, Granted, Finished, Stops, Running, Goes, Answers

LEMMA CallTypes ==
    ASSUME TypeOK, Control, [Next]_vars
    PROVE  /\ pc' \in [Calls -> Running \cup {"new", "done"}]
           /\ op' \in [Calls -> Op]
           /\ work' \in [Calls -> Work]
           /\ reply' \in [Calls -> Replies]
           /\ before' \in [Calls -> SUBSET Calls]
  <1>1. Shaped'
    <2>1. CASE UNCHANGED vars
      BY <2>1, TypeShaped DEF vars, Shaped
    <2>2. QED
      BY <2>1, StepCases DEF Alone
  <1>2. ASSUME NEW d \in Calls
        PROVE  /\ pc'[d] \in Running \cup {"new", "done"} /\ op'[d] \in Op
               /\ work'[d] \in Work /\ reply'[d] \in Replies /\ before'[d] \in SUBSET Calls
    <2>0. /\ pc[d] \in Running \cup {"new", "done"} /\ op[d] \in Op
          /\ work[d] \in Work /\ reply[d] \in Replies /\ before[d] \in SUBSET Calls
      BY DEF TypeOK
    <2>1. CASE Still(d)
      BY <2>0, <2>1 DEF Still
    <2>2. CASE Begun(d)
      <3>1. op'[d] \in Op /\ Opens(op'[d], pc'[d]) /\ reply'[d] = reply[d] /\ before'[d] = Done
        BY <2>2 DEF Begun
      <3>2. pc'[d] \in Running
        BY <3>1 DEF Opens, Running
      <3>3. work'[d] = [NoWork EXCEPT !.user = op'[d].user, !.target = op'[d].contacts]
        BY <2>2 DEF Begun
      <3>4. op'[d].user \in Users \cup {None} /\ op'[d].contacts \in SUBSET Contacts
        BY <3>1 DEF Op
      <3>5. work'[d] \in Work
        BY <3>3, <3>4, NoWorkTyped DEF Work
      <3>6. Done \in SUBSET Calls
        BY DEF Done
      <3>7. QED
        BY <2>0, <3>1, <3>2, <3>5, <3>6
    <2>3. CASE Ran(d)
      <3>1. op'[d] = op[d] /\ before'[d] = before[d] /\ reply'[d] \in Replies
        BY <2>0, <2>3, RanKeeps, LabelsTyped DEF Kept, Replies
      <3>2. QED
        BY <2>0, <2>3, <3>1, LocalsTyped, LabelsTyped
    <2>4. QED
      BY <2>1, <2>2, <2>3, OneMoves
  <1>3. QED
    BY <1>1, <1>2 DEF Shaped

-----------------------------------------------------------------------------
(* What a step does to the tables.                                         *)

NewAccount(c) ==
    [state |-> "live", contacts |-> op[c].contacts, password |-> c,
     status |-> "active", roles |-> {op[c].arg}, active |-> op[c].arg]
Channels(c) == UNION {ChannelOf(k) : k \in op[c].contacts}

\* What call c does to the row of user u.
Registers(c, u) ==
    /\ pc[c] = "create" /\ op[c].user = u /\ account[u].state = "absent"
    /\ \A k \in op[c].contacts : HoldersOf(k) = {}
    /\ account'[u] = NewAccount(c)
SetsPassword(c, u) ==
    /\ pc[c] = "setPassword" /\ work[c].user = u /\ Live(u)
    /\ account'[u] = [account[u] EXCEPT !.password = c]
SetsContact(c, u) ==
    /\ pc[c] = "setContact" /\ op[c].user = u /\ Live(u)
    /\ \A k \in op[c].contacts : HoldersOf(k) \subseteq {u}
    /\ account'[u] = [account[u] EXCEPT !.contacts = (@ \ Channels(c)) \cup op[c].contacts]
Deletes(c, u) ==
    /\ pc[c] = "deleteRow" /\ op[c].user = u /\ Live(u)
    /\ account'[u] = [NoAccount EXCEPT !.state = "gone"]
    /\ \A t \in Devices : token'[t] = IF token[t].user = u THEN NoToken ELSE token[t]
Grants(c, u) ==
    /\ pc[c] = "grant" /\ op[c].user = u /\ Live(u)
    /\ account'[u] = [account[u] EXCEPT !.roles = @ \cup {op[c].arg}]
Switched(c, u) ==
    /\ pc[c] = "setActive" /\ op[c].user = u /\ Live(u)
    /\ account'[u] = [account[u] EXCEPT !.active = op[c].arg]
SetsStatus(c, u) ==
    /\ pc[c] = "setStatus" /\ op[c].user = u /\ Live(u)
    /\ account'[u] = [account[u] EXCEPT !.status =
                        IF op[c].kind = "disable" THEN "disabled" ELSE "active"]
Writes(c, u) ==
    \/ Registers(c, u) \/ SetsPassword(c, u) \/ SetsContact(c, u) \/ Deletes(c, u)
    \/ Grants(c, u) \/ Switched(c, u) \/ SetsStatus(c, u)

Fixed(u) == account'[u] = account[u]
AccountStep(c) ==
    /\ account' = [u \in Users |-> account'[u]]
    /\ \/ \A u \in Users : Fixed(u)
       \/ \E u \in Users : Writes(c, u) /\ \A v \in Users \ {u} : Fixed(v)

LEMMA AccountSteps ==
    ASSUME TypeOK, Control, Known, NEW c \in Calls, Advance(c)
    PROVE  AccountStep(c)
  <1>0. /\ pc[c] \notin {"new", "done"} => OnRoute(c) /\ Asked(c) /\ Found(c)
        /\ account = [u \in Users |-> account[u]]
    BY DEF Control, ControlOf, TypeOK
  <1>1. CASE account' = account
    BY <1>0, <1>1 DEF AccountStep, Fixed
  <1>2. ASSUME NEW u \in Users, NEW row, account' = [account EXCEPT ![u] = row], Writes(c, u)
        PROVE  AccountStep(c)
    <2>1. \A v \in Users \ {u} : Fixed(v)
      BY <1>2 DEF Fixed, TypeOK
    <2>2. account' = [v \in Users |-> account'[v]]
      BY <1>0, <1>2
    <2>3. QED
      BY <1>2, <2>1, <2>2 DEF AccountStep
  <1>3. CASE Create(c)
    <2>1. op[c].user \in Users /\ account[op[c].user].state = "absent" /\ pc[c] = "create"
      BY <1>0, <1>3 DEF Create, OnRoute, Asked, OwnKinds, Known
    <2>2. CASE /\ \A k \in op[c].contacts : HoldersOf(k) = {}
               /\ account' = [account EXCEPT ![op[c].user] = NewAccount(c)]
      <3>1. account'[op[c].user] = NewAccount(c)
        BY <2>1, <2>2 DEF TypeOK
      <3>2. Writes(c, op[c].user)
        BY <2>1, <2>2, <3>1 DEF Writes, Registers
      <3>3. QED
        BY <2>1, <2>2, <3>2, <1>2
    <2>3. QED
      BY <1>1, <1>3, <2>2 DEF Create, NewAccount
  <1>4. CASE SetPassword(c)
    <2>1. work[c].user \in Users /\ pc[c] = "setPassword"
      BY <1>0, <1>4 DEF SetPassword, Found
    <2>2. PICK u \in Users : u = work[c].user
      BY <2>1
    <2>3. CASE Live(u) /\ account' = [account EXCEPT ![u].password = c]
      <3>1. account'[u] = [account[u] EXCEPT !.password = c]
        BY <2>3 DEF TypeOK
      <3>2. Writes(c, u)
        BY <2>1, <2>2, <2>3, <3>1 DEF Writes, SetsPassword
      <3>3. account' = [account EXCEPT ![u] = [account[u] EXCEPT !.password = c]]
        BY <2>3
      <3>4. QED
        BY <3>2, <3>3, <1>2
    <2>4. QED
      BY <1>1, <1>4, <2>2, <2>3 DEF SetPassword
  <1>5. CASE SetContact(c)
    <2>1. op[c].user \in Users /\ pc[c] = "setContact"
      BY <1>0, <1>5 DEF SetContact, OnRoute, Asked, OwnKinds
    <2>2. PICK u \in Users : u = op[c].user
      BY <2>1
    <2>3. CASE /\ Live(u) /\ \A k \in op[c].contacts : HoldersOf(k) \subseteq {u}
               /\ account' = [account EXCEPT ![u].contacts = (@ \ Channels(c)) \cup op[c].contacts]
      <3>1. account'[u] = [account[u] EXCEPT !.contacts = (@ \ Channels(c)) \cup op[c].contacts]
        BY <2>3 DEF TypeOK
      <3>2. Writes(c, u)
        BY <2>1, <2>2, <2>3, <3>1 DEF Writes, SetsContact
      <3>3. account' = [account EXCEPT ![u] =
                         [account[u] EXCEPT !.contacts = (@ \ Channels(c)) \cup op[c].contacts]]
        BY <2>3
      <3>4. QED
        BY <3>2, <3>3, <1>2
    <2>4. QED
      BY <1>1, <1>5, <2>2, <2>3 DEF SetContact, Channels
  <1>6. CASE DeleteRow(c)
    <2>1. op[c].user \in Users /\ pc[c] = "deleteRow"
      BY <1>0, <1>6 DEF DeleteRow, OnRoute, Asked, OwnKinds
    <2>2. PICK u \in Users : u = op[c].user
      BY <2>1
    <2>3. CASE /\ Live(u)
               /\ account' = [account EXCEPT ![u] = [NoAccount EXCEPT !.state = "gone"]]
               /\ token' = [t \in Devices |-> IF token[t].user = u THEN NoToken ELSE token[t]]
      <3>1. account'[u] = [NoAccount EXCEPT !.state = "gone"]
        BY <2>3 DEF TypeOK
      <3>2. \A t \in Devices : token'[t] = IF token[t].user = u THEN NoToken ELSE token[t]
        BY <2>3
      <3>3. Writes(c, u)
        BY <2>1, <2>2, <2>3, <3>1, <3>2 DEF Writes, Deletes
      <3>4. QED
        BY <2>3, <3>3, <1>2
    <2>4. QED
      BY <1>1, <1>6, <2>2, <2>3 DEF DeleteRow
  <1>7. CASE Grant(c)
    <2>1. op[c].user \in Users /\ pc[c] = "grant"
      BY <1>0, <1>7 DEF Grant, OnRoute, Asked, OwnKinds
    <2>2. PICK u \in Users : u = op[c].user
      BY <2>1
    <2>3. CASE Live(u) /\ account' = [account EXCEPT ![u].roles = @ \cup {op[c].arg}]
      <3>1. account'[u] = [account[u] EXCEPT !.roles = @ \cup {op[c].arg}]
        BY <2>3 DEF TypeOK
      <3>2. Writes(c, u)
        BY <2>1, <2>2, <2>3, <3>1 DEF Writes, Grants
      <3>3. account' = [account EXCEPT ![u] = [account[u] EXCEPT !.roles = @ \cup {op[c].arg}]]
        BY <2>3
      <3>4. QED
        BY <3>2, <3>3, <1>2
    <2>4. QED
      BY <1>1, <1>7, <2>2, <2>3 DEF Grant
  <1>8. CASE SetActive(c)
    <2>1. op[c].user \in Users /\ pc[c] = "setActive"
      BY <1>0, <1>8 DEF SetActive, OnRoute, Asked, OwnKinds
    <2>2. PICK u \in Users : u = op[c].user
      BY <2>1
    <2>3. CASE Live(u) /\ account' = [account EXCEPT ![u].active = op[c].arg]
      <3>1. account'[u] = [account[u] EXCEPT !.active = op[c].arg]
        BY <2>3 DEF TypeOK
      <3>2. Writes(c, u)
        BY <2>1, <2>2, <2>3, <3>1 DEF Writes, Switched
      <3>3. account' = [account EXCEPT ![u] = [account[u] EXCEPT !.active = op[c].arg]]
        BY <2>3
      <3>4. QED
        BY <3>2, <3>3, <1>2
    <2>4. QED
      BY <1>1, <1>8, <2>2, <2>3 DEF SetActive
  <1>9. CASE SetStatus(c)
    <2>1. op[c].user \in Users /\ pc[c] = "setStatus"
      BY <1>0, <1>9 DEF SetStatus, OnRoute, Asked, OwnKinds
    <2>2. PICK u \in Users, new \in {"active", "disabled"} :
             u = op[c].user /\ new = IF op[c].kind = "disable" THEN "disabled" ELSE "active"
      BY <2>1
    <2>3. CASE Live(u) /\ account' = [account EXCEPT ![u].status = new]
      <3>1. account'[u] = [account[u] EXCEPT !.status = new]
        BY <2>3 DEF TypeOK
      <3>2. Writes(c, u)
        BY <2>1, <2>2, <2>3, <3>1 DEF Writes, SetsStatus
      <3>3. account' = [account EXCEPT ![u] = [account[u] EXCEPT !.status = new]]
        BY <2>3
      <3>4. QED
        BY <3>2, <3>3, <1>2
    <2>4. QED
      BY <1>1, <1>9, <2>2, <2>3 DEF SetStatus
  <1>10. QED
    BY <1>1, <1>3, <1>4, <1>5, <1>6, <1>7, <1>8, <1>9
       DEF Advance, LookUp, LoadRoles, EnsureFree, FindContact, Send, Verify, Consume, FindToken,
           RevokeToken, RevokeAll, Save, ReadOwner, HasRole, Fail, Reads, NoRowChanges

\* What call c does to a token: nothing, an end to it, or its own token is saved.
TokenStep(c, t) ==
    \/ token'[t] = token[t]
    \/ token[t].state = "live" /\ token'[t] = [token[t] EXCEPT !.state = "revoked"]
    \/ token'[t] = NoToken
    \/ /\ t = c /\ pc[c] = "save" /\ Live(work[c].user) /\ account' = account
       /\ token'[t] = [state |-> "live", user |-> work[c].user]

LEMMA TokenSteps ==
    ASSUME TypeOK, Control, NEW c \in Calls, Advance(c)
    PROVE  token' = [t \in Devices |-> token'[t]] /\ \A t \in Devices : TokenStep(c, t)
  <1>0. /\ pc[c] \notin {"new", "done"} => OnRoute(c) /\ Asked(c) /\ Found(c)
        /\ token = [t \in Devices |-> token[t]]
        /\ \A t \in Devices : token[t] \in Token
    BY DEF Control, ControlOf, TypeOK
  <1>1. CASE token' = token
    BY <1>0, <1>1 DEF TokenStep
  <1>2. CASE RevokeToken(c)
    <2>1. op[c].arg \in Devices
      BY <1>0, <1>2 DEF RevokeToken, OnRoute, Asked
    <2>2. PICK x \in Devices : x = op[c].arg
      BY <2>1
    <2>3. CASE token[x].state = "live" /\ token' = [token EXCEPT ![x].state = "revoked"]
      <3>1. token'[x] = [token[x] EXCEPT !.state = "revoked"]
        BY <2>3 DEF TypeOK
      <3>2. \A t \in Devices \ {x} : token'[t] = token[t]
        BY <2>3 DEF TypeOK
      <3>3. token' = [t \in Devices |-> token'[t]]
        BY <1>0, <2>3
      <3>4. QED
        BY <2>3, <3>1, <3>2, <3>3 DEF TokenStep
    <2>4. QED
      BY <1>1, <1>2, <2>2, <2>3 DEF RevokeToken
  <1>3. CASE RevokeAll(c)
    <2>1. token' = [t \in Devices |-> IF t \in LiveTokens /\ token[t].user = work[c].user
                                     THEN [state |-> "revoked", user |-> work[c].user]
                                     ELSE token[t]]
      BY <1>3 DEF RevokeAll
    <2>2. ASSUME NEW t \in Devices
          PROVE  TokenStep(c, t)
      <3>1. CASE t \in LiveTokens /\ token[t].user = work[c].user
        <4>1. token'[t] = [state |-> "revoked", user |-> work[c].user]
          BY <2>1, <3>1
        <4>2. token[t].state = "live"
          BY <3>1 DEF LiveTokens
        <4>3. token'[t] = [token[t] EXCEPT !.state = "revoked"]
          BY <1>0, <3>1, <4>1 DEF Token
        <4>4. QED
          BY <4>2, <4>3 DEF TokenStep
      <3>2. CASE ~(t \in LiveTokens /\ token[t].user = work[c].user)
        BY <2>1, <3>2 DEF TokenStep
      <3>3. QED
        BY <3>1, <3>2
    <2>3. QED
      BY <2>1, <2>2
  <1>4. CASE Save(c)
    <2>1. c \in Devices
      BY DEF Devices
    <2>2. token' = [token EXCEPT ![c] = [state |-> "live", user |-> work[c].user]]
      BY <1>4 DEF Save
    <2>3. token'[c] = [state |-> "live", user |-> work[c].user]
      BY <2>1, <2>2 DEF TypeOK
    <2>4. \A t \in Devices \ {c} : token'[t] = token[t]
      BY <2>2 DEF TypeOK
    <2>5. token' = [t \in Devices |-> token'[t]]
      BY <1>0, <2>2
    <2>6. QED
      BY <1>4, <2>3, <2>4, <2>5 DEF Save, TokenStep
  <1>5. CASE DeleteRow(c)
    <2>1. CASE token' = [t \in Devices |-> IF token[t].user = op[c].user THEN NoToken ELSE token[t]]
      BY <2>1 DEF TokenStep
    <2>2. QED
      BY <1>1, <1>5, <2>1 DEF DeleteRow
  <1>6. QED
    BY <1>1, <1>2, <1>3, <1>4, <1>5
       DEF Advance, Create, LookUp, LoadRoles, EnsureFree, FindContact, Send, Verify, Consume,
           SetPassword, SetContact, FindToken, ReadOwner, HasRole, Grant, SetActive, SetStatus,
           Fail, Reads, NoRowChanges

\* The tables change only by a statement of one call.
LEMMA TableSteps ==
    ASSUME TypeOK, Control, Known, [Next]_vars
    PROVE  \/ account' = account /\ token' = token /\ codes' = codes
           \/ \E c \in Calls : /\ Advance(c) /\ Ran(c) /\ Alone(c) /\ AccountStep(c)
                               /\ token' = [t \in Devices |-> token'[t]]
                               /\ \A t \in Devices : TokenStep(c, t)
  <1>1. CASE \E c \in Calls : Begun(c)
    BY <1>1 DEF Begun, NoRowChanges
  <1>2. ASSUME NEW c \in Calls, Advance(c), Ran(c), Alone(c)
        PROVE  /\ AccountStep(c)
               /\ token' = [t \in Devices |-> token'[t]]
               /\ \A t \in Devices : TokenStep(c, t)
    BY <1>2, AccountSteps, TokenSteps
  <1>3. CASE UNCHANGED vars
    BY <1>3 DEF vars
  <1>4. QED
    BY <1>1, <1>2, <1>3, StepCases

\* What a writing call was asked and has found.
LEMMA WriterFacts ==
    ASSUME TypeOK, Control, NEW c \in Calls, NEW u \in Users, Writes(c, u)
    PROVE  /\ pc[c] = "create" => op[c].contacts \in OneOrBoth
           /\ pc[c] \in {"create", "grant", "setActive"} => op[c].arg \in Roles
           /\ pc[c] = "setContact" => \E k \in Contacts : op[c].contacts = {k}
           /\ op[c].contacts \in SUBSET Contacts
  <1>1. OnRoute(c) /\ Asked(c)
    BY DEF Control, ControlOf, Writes, Registers, SetsPassword, SetsContact, Deletes, Grants,
           Switched, SetsStatus
  <1>2. QED
    BY <1>1 DEF OnRoute, Asked, Switches, TypeOK, Op

LEMMA RowTyped ==
    ASSUME TypeOK, Control, NEW c \in Calls, NEW u \in Users, Writes(c, u)
    PROVE  account'[u] \in Account
  <1>0. account[u] \in Account
    BY DEF TypeOK
  <1>1. CASE Registers(c, u)
    <2>1. op[c].contacts \in SUBSET Contacts /\ op[c].arg \in Roles
      BY <1>1, WriterFacts DEF Registers
    <2>2. c \in Passwords
      BY DEF Passwords
    <2>3. account'[u] = NewAccount(c)
      BY <1>1 DEF Registers
    <2>4. {op[c].arg} \in SUBSET Roles /\ op[c].arg \in Roles \cup {""}
      BY <2>1
    <2>5. NewAccount(c) \in Account
      BY <2>1, <2>2, <2>4 DEF NewAccount, Account
    <2>6. QED
      BY <2>3, <2>5
  <1>2. CASE SetsPassword(c, u)
    BY <1>0, <1>2 DEF SetsPassword, Account, Passwords
  <1>3. CASE SetsContact(c, u)
    <2>1. PICK new : new = (account[u].contacts \ Channels(c)) \cup op[c].contacts
      OBVIOUS
    <2>2. new \in SUBSET Contacts
      BY <1>0, <2>1, WriterFacts DEF Account
    <2>3. account'[u] = [account[u] EXCEPT !.contacts = new]
      BY <1>3, <2>1 DEF SetsContact
    <2>4. QED
      BY <1>0, <2>2, <2>3 DEF Account
  <1>4. CASE Deletes(c, u)
    BY <1>4 DEF Deletes, NoAccount, Account, Passwords
  <1>5. CASE Grants(c, u)
    <2>1. op[c].arg \in Roles
      BY <1>5, WriterFacts DEF Grants
    <2>2. PICK new : new = account[u].roles \cup {op[c].arg}
      OBVIOUS
    <2>3. new \in SUBSET Roles
      BY <1>0, <2>1, <2>2 DEF Account
    <2>4. account'[u] = [account[u] EXCEPT !.roles = new]
      BY <1>5, <2>2 DEF Grants
    <2>5. QED
      BY <1>0, <2>3, <2>4 DEF Account
  <1>6. CASE Switched(c, u)
    <2>1. op[c].arg \in Roles
      BY <1>6, WriterFacts DEF Switched
    <2>2. QED
      BY <1>0, <1>6, <2>1 DEF Switched, Account
  <1>7. CASE SetsStatus(c, u)
    BY <1>0, <1>7 DEF SetsStatus, Account
  <1>8. QED
    BY <1>1, <1>2, <1>3, <1>4, <1>5, <1>6, <1>7 DEF Writes

LEMMA AccountTyped ==
    ASSUME TypeOK, Control, Known, [Next]_vars
    PROVE  account' \in [Users -> Account]
  <1>1. CASE account' = account
    BY <1>1 DEF TypeOK
  <1>2. ASSUME NEW c \in Calls, AccountStep(c)
        PROVE  account' \in [Users -> Account]
    <2>1. \A u \in Users : Fixed(u) => account'[u] \in Account
      BY DEF Fixed, TypeOK
    <2>2. \A u \in Users : account'[u] \in Account
      BY <1>2, <2>1, RowTyped DEF AccountStep
    <2>3. QED
      BY <1>2, <2>2 DEF AccountStep
  <1>3. QED
    BY <1>1, <1>2, TableSteps

LEMMA TokenTyped ==
    ASSUME TypeOK, Control, Known, [Next]_vars
    PROVE  token' \in [Devices -> Token]
  <1>0. \A t \in Devices : token[t] \in Token
    BY DEF TypeOK
  <1>1. CASE token' = token
    BY <1>1 DEF TypeOK
  <1>2. ASSUME NEW c \in Calls, NEW t \in Devices, TokenStep(c, t)
        PROVE  token'[t] \in Token
    <2>1. work[c].user \in Users \cup {None}
      BY DEF TypeOK, Work
    <2>2. CASE token[t].state = "live" /\ token'[t] = [token[t] EXCEPT !.state = "revoked"]
      BY <1>0, <2>2 DEF Token
    <2>3. CASE token'[t] = NoToken
      BY <2>3 DEF NoToken, Token
    <2>4. CASE token'[t] = [state |-> "live", user |-> work[c].user]
      BY <2>1, <2>4 DEF Token
    <2>5. QED
      BY <1>0, <1>2, <2>2, <2>3, <2>4 DEF TokenStep
  <1>3. QED
    BY <1>1, <1>2, TableSteps

LEMMA CodesStep ==
    ASSUME TypeOK, Control, [Next]_vars
    PROVE  codes' \in Seq(Code)
  <1>0. codes \in Seq(Code)
    BY DEF TypeOK
  <1>1. CASE codes' = codes
    BY <1>0, <1>1
  <1>2. ASSUME NEW c \in Calls, Send(c)
        PROVE  codes' \in Seq(Code)
    <2>1. CASE codes' = codes
      BY <1>0, <2>1
    <2>2. ASSUME NEW k \in work[c].target,
                 codes' = Append(codes, [id |-> c, contact |-> k, purpose |-> op[c].arg,
                                         consumed |-> FALSE])
          PROVE  codes' \in Seq(Code)
      <3>1. k \in Contacts
        BY DEF TypeOK, Work
      <3>2. op[c].arg \in Purposes
        BY <1>2 DEF Send, Control, ControlOf, OnRoute, Asked
      <3>3. c \in CodeIds
        BY DEF CodeIds
      <3>4. [id |-> c, contact |-> k, purpose |-> op[c].arg, consumed |-> FALSE] \in Code
        BY <3>1, <3>2, <3>3 DEF Code
      <3>5. QED
        BY <1>0, <2>2, <3>4, AppendProperties
    <2>3. QED
      BY <1>2, <2>1, <2>2 DEF Send
  <1>3. ASSUME NEW c \in Calls, Consume(c)
        PROVE  codes' \in Seq(Code)
    <2>1. codes' = [i \in DOMAIN codes |->
             IF codes[i].id = work[c].code.id
             THEN [codes[i] EXCEPT !.consumed = TRUE] ELSE codes[i]]
      BY <1>3 DEF Consume
    <2>2. Len(codes) \in Nat /\ DOMAIN codes = 1 .. Len(codes)
      BY <1>0, LenProperties
    <2>3. \A i \in DOMAIN codes : codes[i] \in Code
      BY CodesTyped
    <2>4. \A i \in DOMAIN codes : codes'[i] \in Code
      BY <2>1, <2>3 DEF Code
    <2>5. codes' \in [1 .. Len(codes) -> Code]
      BY <2>1, <2>2, <2>4
    <2>6. QED
      BY <2>2, <2>5, SeqDef
  <1>4. ASSUME NEW c \in Calls, Begun(c) \/ Advance(c), ~Send(c), ~Consume(c)
        PROVE  codes' = codes
    BY <1>4 DEF Begun, Advance, Create, LookUp, LoadRoles, EnsureFree, FindContact, Verify,
           SetPassword, SetContact, FindToken, RevokeToken, RevokeAll, Save, ReadOwner, DeleteRow,
           HasRole, Grant, SetActive, SetStatus, Fail, Reads, NoRowChanges
  <1>5. CASE UNCHANGED vars
    BY <1>1, <1>5 DEF vars
  <1>6. QED
    BY <1>1, <1>2, <1>3, <1>4, <1>5, StepCases

-----------------------------------------------------------------------------
(* The tables agree.                                                       *)

RowFits(u) ==
    IF Live(u)
    THEN /\ account[u].contacts \in OneOrBoth
         /\ account[u].active \in account[u].roles \cup {""} /\ account[u].roles # {}
    ELSE account[u] = [NoAccount EXCEPT !.state = account[u].state]

LEMMA ContactsStayApart ==
    ASSUME TypeOK, Control, NEW c \in Calls, AccountStep(c), NEW k \in Contacts
    PROVE  \A u, v \in HoldersOf(k)' : u = v
  <1>1. \A u, v \in HoldersOf(k) : u = v
    BY DEF TypeOK, TablesAgree
  <1>2. ASSUME NEW u \in Users, Writes(c, u), account'[u].state = "live",
               k \in account'[u].contacts
        PROVE  HoldersOf(k) \subseteq {u}
    <2>0. account[u] \in Account
      BY DEF TypeOK
    <2>1. CASE Registers(c, u)
      <3>1. k \in op[c].contacts
        BY <1>2, <2>1 DEF Registers, NewAccount
      <3>2. QED
        BY <2>1, <3>1 DEF Registers
    <2>2. CASE SetsContact(c, u)
      <3>1. k \in account[u].contacts \/ k \in op[c].contacts
        BY <1>2, <2>0, <2>2 DEF SetsContact, Account
      <3>2. CASE k \in op[c].contacts
        BY <2>2, <3>2 DEF SetsContact
      <3>3. CASE k \in account[u].contacts
        <4>1. u \in HoldersOf(k)
          BY <2>2, <3>3 DEF SetsContact, HoldersOf
        <4>2. QED
          BY <1>1, <4>1
      <3>4. QED
        BY <3>1, <3>2, <3>3
    <2>3. CASE SetsPassword(c, u) \/ Grants(c, u) \/ Switched(c, u) \/ SetsStatus(c, u)
      <3>1. Live(u) /\ account'[u].contacts = account[u].contacts
        BY <2>0, <2>3 DEF SetsPassword, Grants, Switched, SetsStatus, Account
      <3>2. u \in HoldersOf(k)
        BY <1>2, <3>1 DEF HoldersOf
      <3>3. QED
        BY <1>1, <3>2
    <2>4. CASE Deletes(c, u)
      BY <1>2, <2>4 DEF Deletes, NoAccount
    <2>5. QED
      BY <1>2, <2>1, <2>2, <2>3, <2>4 DEF Writes
  <1>3. ASSUME NEW u \in HoldersOf(k)', NEW v \in HoldersOf(k)', u # v
        PROVE  FALSE
    <2>1. /\ u \in Users /\ account'[u].state = "live" /\ k \in account'[u].contacts
          /\ v \in Users /\ account'[v].state = "live" /\ k \in account'[v].contacts
      BY <1>3 DEF HoldersOf, Live
    <2>2. \A w \in Users : Fixed(w) /\ account'[w].state = "live" /\ k \in account'[w].contacts
             => w \in HoldersOf(k)
      BY DEF Fixed, HoldersOf, Live
    <2>3. CASE \A w \in Users : Fixed(w)
      BY <1>1, <1>3, <2>1, <2>2, <2>3
    <2>4. ASSUME NEW w \in Users, Writes(c, w), \A x \in Users \ {w} : Fixed(x)
          PROVE  FALSE
      BY <1>1, <1>2, <1>3, <2>1, <2>2, <2>4
    <2>5. QED
      BY <2>3, <2>4 DEF AccountStep
  <1>4. QED
    BY <1>3

LEMMA ContactReplaced ==
    ASSUME NEW old \in OneOrBoth, NEW k \in Contacts
    PROVE  (old \ ChannelOf(k)) \cup {k} \in OneOrBoth
  <1>0. Phones \cap Emails = {} /\ Contacts = Phones \cup Emails
    BY AccountsAssumption DEF Contacts
  <1>1. PICK p \in Phones \cup Emails, e \in Phones \cup Emails :
           /\ old = {p} \/ (old = {p, e} /\ p \in Phones /\ e \in Emails)
    BY <1>0 DEF OneOrBoth
  <1>2. CASE k \in Phones
    <2>1. ChannelOf(k) = Phones
      BY <1>2 DEF ChannelOf
    <2>2. (old \ Phones) \cup {k} = {k} \/ \E x \in Emails : (old \ Phones) \cup {k} = {k, x}
      <3>1. CASE old = {p} /\ p \in Phones
        BY <3>1
      <3>2. CASE old = {p} /\ p \in Emails
        <4>1. p \notin Phones
          BY <1>0, <3>2
        <4>2. (old \ Phones) \cup {k} = {k, p}
          BY <3>2, <4>1
        <4>3. QED
          BY <3>2, <4>2
      <3>3. CASE old = {p, e} /\ p \in Phones /\ e \in Emails
        <4>1. e \notin Phones
          BY <1>0, <3>3
        <4>2. (old \ Phones) \cup {k} = {k, e}
          BY <3>3, <4>1
        <4>3. QED
          BY <3>3, <4>2
      <3>4. QED
        BY <1>1, <3>1, <3>2, <3>3
    <2>3. QED
      BY <1>2, <2>1, <2>2 DEF OneOrBoth
  <1>3. CASE k \notin Phones
    <2>1. ChannelOf(k) = Emails /\ k \in Emails
      BY <1>0, <1>3 DEF ChannelOf
    <2>2. (old \ Emails) \cup {k} = {k} \/ \E x \in Phones : (old \ Emails) \cup {k} = {x, k}
      <3>1. CASE old = {p} /\ p \in Emails
        BY <3>1
      <3>2. CASE old = {p} /\ p \in Phones
        <4>1. p \notin Emails
          BY <1>0, <3>2
        <4>2. (old \ Emails) \cup {k} = {p, k}
          BY <3>2, <4>1
        <4>3. QED
          BY <3>2, <4>2
      <3>3. CASE old = {p, e} /\ p \in Phones /\ e \in Emails
        <4>1. p \notin Emails
          BY <1>0, <3>3
        <4>2. (old \ Emails) \cup {k} = {p, k}
          BY <3>3, <4>1
        <4>3. QED
          BY <3>3, <4>2
      <3>4. QED
        BY <1>1, <3>1, <3>2, <3>3
    <2>3. QED
      BY <2>1, <2>2 DEF OneOrBoth
  <1>4. QED
    BY <1>2, <1>3

LEMMA RowsStayFit ==
    ASSUME TypeOK, Control, RolesHeld, NEW c \in Calls, NEW u \in Users, Writes(c, u)
    PROVE  RowFits(u)'
  <1>0. account[u] \in Account /\ RowFits(u)
    BY DEF TypeOK, TablesAgree, RowFits
  <1>1. CASE Registers(c, u)
    <2>1. /\ account'[u].state = "live" /\ account'[u].contacts = op[c].contacts
          /\ account'[u].active = op[c].arg /\ account'[u].roles = {op[c].arg}
      BY <1>1 DEF Registers, NewAccount
    <2>2. op[c].contacts \in OneOrBoth
      BY <1>1, WriterFacts DEF Registers
    <2>3. QED
      BY <2>1, <2>2 DEF RowFits, Live
  <1>2. CASE SetsContact(c, u)
    <2>1. PICK k \in Contacts : op[c].contacts = {k}
      BY <1>2, WriterFacts DEF SetsContact
    <2>2. Channels(c) = ChannelOf(k)
      BY <2>1 DEF Channels
    <2>3. PICK new : new = (account[u].contacts \ ChannelOf(k)) \cup {k}
      OBVIOUS
    <2>4. account'[u] = [account[u] EXCEPT !.contacts = new]
      BY <1>2, <2>1, <2>2, <2>3 DEF SetsContact
    <2>5. new \in OneOrBoth
      BY <1>0, <1>2, <2>3, ContactReplaced DEF RowFits, SetsContact
    <2>6. QED
      BY <1>0, <1>2, <2>4, <2>5 DEF RowFits, SetsContact, Live, Account
  <1>3. CASE SetsPassword(c, u) \/ SetsStatus(c, u)
    BY <1>0, <1>3 DEF SetsPassword, SetsStatus, RowFits, Live, Account
  <1>4. CASE Deletes(c, u)
    BY <1>4 DEF Deletes, RowFits, Live, NoAccount
  <1>5. CASE Grants(c, u)
    <2>1. PICK new : new = account[u].roles \cup {op[c].arg}
      OBVIOUS
    <2>2. account'[u] = [account[u] EXCEPT !.roles = new]
      BY <1>5, <2>1 DEF Grants
    <2>3. /\ account'[u].state = account[u].state /\ account'[u].contacts = account[u].contacts
          /\ account'[u].active = account[u].active /\ account'[u].roles = new
      BY <1>0, <2>2 DEF Account
    <2>4. Live(u) /\ account[u].contacts \in OneOrBoth /\ account[u].active \in account[u].roles \cup {""}
      BY <1>0, <1>5 DEF RowFits, Grants
    <2>5. new # {} /\ account[u].active \in new \cup {""}
      BY <2>1, <2>4
    <2>6. QED
      BY <2>3, <2>4, <2>5 DEF RowFits, Live
  <1>6. CASE Switched(c, u)
    <2>1. op[c].arg \in account[u].roles
      BY <1>6 DEF Switched, RolesHeld
    <2>2. QED
      BY <1>0, <1>6, <2>1 DEF RowFits, Switched, Live, Account
  <1>7. QED
    BY <1>1, <1>2, <1>3, <1>4, <1>5, <1>6 DEF Writes

LEMMA TokensStayWithUsers ==
    ASSUME TypeOK, Control, NEW c \in Calls, AccountStep(c), NEW t \in Devices, TokenStep(c, t)
    PROVE  /\ token'[t].state # "absent" <=> token'[t].user # None
           /\ token'[t].state = "live" => account'[token'[t].user].state = "live"
  <1>0. /\ token[t] \in Token /\ (token[t].state # "absent" <=> token[t].user # None)
        /\ token[t].state = "live" => Live(token[t].user)
        /\ None \notin Users
    BY AccountsAssumption DEF TypeOK, TablesAgree, LiveTokens
  <1>1. token'[t].state # "absent" <=> token'[t].user # None
    <2>1. work[c].user \in Users => work[c].user # None
      BY <1>0
    <2>2. pc[c] = "save" => work[c].user \in Users
      BY DEF Control, ControlOf, Found
    <2>3. QED
      BY <1>0, <2>1, <2>2 DEF TokenStep, Token, NoToken
  <1>2. ASSUME token'[t].state = "live"
        PROVE  account'[token'[t].user].state = "live"
    <2>1. CASE token'[t] = token[t]
      <3>1. token[t].user \in Users /\ Live(token[t].user)
        BY <1>0, <1>2, <2>1 DEF Token
      <3>2. ASSUME NEW u \in Users, Writes(c, u), u = token[t].user
            PROVE  account'[u].state = "live"
        <4>1. account[u] \in Account
          BY DEF TypeOK
        <4>2. ~Deletes(c, u)
          BY <1>2, <2>1, <3>2 DEF Deletes, NoToken
        <4>3. QED
          BY <3>1, <3>2, <4>1, <4>2 DEF Writes, Registers, NewAccount, SetsPassword, SetsContact,
                                   Grants,
                                   Switched, SetsStatus, Account, Live
      <3>3. QED
        BY <2>1, <3>1, <3>2 DEF AccountStep, Fixed, Live
    <2>2. CASE /\ Live(work[c].user) /\ account' = account
               /\ token'[t] = [state |-> "live", user |-> work[c].user]
      BY <2>2 DEF Live
    <2>3. QED
      BY <1>0, <1>2, <2>1, <2>2 DEF TokenStep, NoToken, Token
  <1>3. QED
    BY <1>1, <1>2

LEMMA TypeStep ==
    ASSUME TypeOK, Control, Known, RolesHeld, [Next]_vars
    PROVE  TypeOK'
  <1>1. TablesAgree'
    <2>1. CASE account' = account /\ token' = token
      <3>1. TablesAgree
        BY DEF TypeOK
      <3>2. /\ \A k \in Contacts : HoldersOf(k)' = HoldersOf(k)
            /\ LiveTokens' = LiveTokens /\ \A u : Live(u)' <=> Live(u)
        BY <2>1 DEF HoldersOf, LiveTokens, Live
      <3>3. \A u \in Users : RowFits(u)'
        BY <2>1, <3>1, <3>2 DEF TablesAgree, RowFits
      <3>4. ASSUME NEW k \in Contacts, NEW u \in HoldersOf(k)', NEW v \in HoldersOf(k)'
            PROVE  u = v
        <4>1. u \in HoldersOf(k) /\ v \in HoldersOf(k)
          BY <3>2
        <4>2. \A x, y \in HoldersOf(k) : x = y
          BY <3>1 DEF TablesAgree
        <4>3. QED
          BY <4>1, <4>2
      <3>5. /\ \A t \in Devices : token'[t].state # "absent" <=> token'[t].user # None
            /\ \A t \in LiveTokens' : account'[token'[t].user].state = "live"
        BY <2>1, <3>1, <3>2 DEF TablesAgree, Live
      <3>6. QED
        BY <3>3, <3>4, <3>5 DEF TablesAgree, RowFits, Live
    <2>2. ASSUME NEW c \in Calls, AccountStep(c), \A t \in Devices : TokenStep(c, t)
          PROVE  TablesAgree'
      <3>1. \A k \in Contacts : \A u, v \in HoldersOf(k)' : u = v
        BY <2>2, ContactsStayApart
      <3>2. \A u \in Users : Fixed(u) => RowFits(u)'
        BY DEF TypeOK, TablesAgree, RowFits, Fixed, Live
      <3>3. \A u \in Users : RowFits(u)'
        BY <2>2, <3>2, RowsStayFit DEF AccountStep
      <3>4. /\ \A t \in Devices : token'[t].state # "absent" <=> token'[t].user # None
            /\ \A t \in LiveTokens' : account'[token'[t].user].state = "live"
        BY <2>2, TokensStayWithUsers DEF LiveTokens
      <3>5. QED
        BY <3>1, <3>3, <3>4 DEF TablesAgree, RowFits, Live
    <2>3. QED
      BY <2>1, <2>2, TableSteps
  <1>2. QED
    BY <1>1, CallTypes, AccountTyped, TokenTyped, CodesStep DEF TypeOK

-----------------------------------------------------------------------------
(* Control.                                                                *)

LEMMA BegunControl ==
    ASSUME TypeOK, Control, NEW d \in Calls, Begun(d)
    PROVE  ControlOf(d)'
  <1>1. /\ Opens(op'[d], pc'[d]) /\ op'[d] \in Op /\ reply'[d] = "none"
        /\ work'[d] = [NoWork EXCEPT !.user = op'[d].user, !.target = op'[d].contacts]
    BY DEF Begun, Control, ControlOf
  <1>2. /\ pc'[d] \notin {"new", "done"} /\ OnRoute(d)'
    BY <1>1 DEF Opens, OnRoute
  <1>3. Asked(d)'
    BY <1>1, AccountsAssumption DEF Opens, Asked, OwnKinds, Switches
  <1>4. work'[d].user = op'[d].user /\ work'[d].target = op'[d].contacts
    BY <1>1 DEF NoWork
  <1>5. Found(d)'
    BY <1>1, <1>2, <1>4 DEF Found, Opens, Succeeded
  <1>6. Verified(d)'
    BY <1>1, <1>2, <1>4 DEF Verified, Opens
  <1>7. QED
    BY <1>1, <1>2, <1>3, <1>5, <1>6 DEF ControlOf

LEMMA ReturnedControl ==
    ASSUME TypeOK, Control, NEW d \in Calls, Stops(d) \/ \E role : Answers(d, role),
           Stops(d) \/ pc[d] \in {"setContact", "revokeAll", "save", "deleteRow", "setActive",
                                  "setStatus", "roles"}
                    \/ op[d].kind \in {"send", "logout"},
           pc[d] \notin {"new", "done"}
    PROVE  ControlOf(d)'
  <1>0. Asked(d) /\ Found(d) /\ reply[d] = "none"
    BY DEF Control, ControlOf
  <1>1. pc'[d] = "done" /\ op'[d] = op[d] /\ reply'[d] \in {"ok", "error"}
    BY DEF Stops, Answers, Kept
  <1>2. reply'[d] = "ok" => work'[d].user = work[d].user
    BY <1>1 DEF Stops, Answers, NoWork
  <1>3. Asked(d)'
    BY <1>0, <1>1 DEF Asked
  <1>4. reply'[d] = "ok" => work[d].user \in Users \/ op[d].kind \in {"logout", "send"}
    BY <1>0 DEF Found, Stops
  <1>5. Found(d)'
    BY <1>0, <1>1, <1>2, <1>4 DEF Found, Succeeded
  <1>6. Verified(d)'
    BY <1>1 DEF Verified
  <1>7. QED
    BY <1>1, <1>3, <1>5, <1>6 DEF ControlOf

LEMMA RanControl ==
    ASSUME TypeOK, Control, NEW d \in Calls, Ran(d)
    PROVE  ControlOf(d)'
  <1>0. /\ pc[d] \notin {"new", "done"} /\ OnRoute(d) /\ Asked(d) /\ Found(d) /\ Verified(d)
        /\ reply[d] = "none" /\ op'[d] = op[d] /\ work[d] \in Work
    BY RanKeeps DEF Control, ControlOf, Kept, TypeOK
  <1>91. Asked(d)'
    BY <1>0 DEF Asked
  <1>92. ASSUME reply'[d] = reply[d], pc'[d] \notin {"new", "done"}, OnRoute(d)', Found(d)',
               Verified(d)'
        PROVE  ControlOf(d)'
    BY <1>0, <1>91, <1>92 DEF ControlOf
  <1>1. CASE Stops(d) \/ Finished(d)
    <2>1. Stops(d) \/ \E role : Answers(d, role)
      BY <1>1 DEF Finished
    <2>2. \/ Stops(d)
          \/ pc[d] \in {"setContact", "revokeAll", "save", "deleteRow", "setActive", "setStatus"}
          \/ op[d].kind \in {"send", "logout"}
      BY <1>0, <1>1 DEF Finished, OnRoute
    <2>3. QED
      BY <1>0, <2>1, <2>2, ReturnedControl
  <1>2. CASE Created(d)
    <2>1. /\ pc'[d] = "revokeAll" /\ reply'[d] = reply[d] /\ pc[d] = "create"
          /\ work'[d].user = work[d].user
      BY <1>0, <1>2 DEF Created, Goes, Work
    <2>2. op[d].kind = "register"
      BY <1>0, <2>1 DEF OnRoute
    <2>3. OnRoute(d)'
      BY <1>0, <2>1, <2>2 DEF OnRoute
    <2>4. Found(d)'
      BY <1>0, <2>1, <2>2 DEF Found, Succeeded
    <2>5. Verified(d)'
      BY <1>0, <2>1, <2>2 DEF Verified
    <2>6. QED
      BY <1>92, <2>1, <2>3, <2>4, <2>5
  <1>3. CASE LookedUp(d)
    <2>1. op[d].kind \in {"password", "code", "reset"} /\ pc[d] = "lookUp"
      BY <1>0, <1>3 DEF OnRoute, LookedUp
    <2>2. op[d].user = None
      BY <2>1, <1>0 DEF Asked, OwnKinds
    <2>3. PICK u \in Users :
             Goes(d, IF op[d].kind = "reset" THEN "setPassword" ELSE "roles",
                  [work[d] EXCEPT !.user = u, !.status = account[u].status,
                                  !.role = account[u].active])
      BY <1>3 DEF LookedUp
    <2>4. /\ work'[d].user = u /\ work'[d].target = work[d].target /\ work'[d].code = work[d].code
          /\ pc'[d] = (IF op[d].kind = "reset" THEN "setPassword" ELSE "roles")
          /\ reply'[d] = reply[d]
      BY <1>0, <2>3 DEF Goes, Work
    <2>5. OnRoute(d)'
      BY <1>0, <2>1, <2>4 DEF OnRoute
    <2>6. Found(d)'
      BY <1>0, <2>1, <2>2, <2>4 DEF Found, Succeeded
    <2>7. Verified(d)'
      BY <1>0, <2>1, <2>4 DEF Verified
    <2>8. QED
      BY <1>92, <2>4, <2>5, <2>6, <2>7
  <1>4. CASE RolesLoaded(d)
    <2>1. CASE \E role : Answers(d, role)
      BY <1>0, <1>4, <2>1, ReturnedControl DEF RolesLoaded
    <2>2. CASE \E role \in Roles \cup {""} :
                 \/ op[d].kind = "code" /\ Goes(d, "verify", [work[d] EXCEPT !.role = role])
                 \/ op[d].kind = "password" /\ Goes(d, "revokeAll", [work[d] EXCEPT !.role = role])
      <3>1. /\ work'[d].user = work[d].user /\ work'[d].target = work[d].target
            /\ work'[d].code = work[d].code /\ reply'[d] = reply[d]
            /\ \/ op[d].kind = "code" /\ pc'[d] = "verify"
               \/ op[d].kind = "password" /\ pc'[d] = "revokeAll"
        BY <1>0, <2>2 DEF Goes, Work
      <3>2. pc[d] = "roles"
        BY <1>4 DEF RolesLoaded
      <3>3. OnRoute(d)'
        BY <1>0, <3>1 DEF OnRoute
      <3>4. Found(d)'
        BY <1>0, <3>1, <3>2 DEF Found, Succeeded
      <3>5. Verified(d)'
        BY <1>0, <3>1, <3>2 DEF Verified
      <3>6. QED
        BY <1>92, <3>1, <3>3, <3>4, <3>5
    <2>3. QED
      BY <1>4, <2>1, <2>2 DEF RolesLoaded
  <1>5. CASE \/ ContactFree(d) \/ Consumed(d) \/ PasswordSet(d) \/ TokenRevoked(d)
             \/ AllRevoked(d) \/ Saved(d) \/ RoleFound(d) \/ Granted(d)
    <2>1. work'[d] = work[d] /\ reply'[d] = reply[d]
      BY <1>5 DEF ContactFree, Consumed, PasswordSet, TokenRevoked, AllRevoked, Saved, RoleFound,
                  Granted, Goes
    <2>2. \/ pc[d] = "ensure" /\ op[d].kind \in {"bind", "send"}
             /\ pc'[d] = (IF op[d].kind = "bind" THEN "verify" ELSE "send")
          \/ pc[d] = "consume" /\ op[d].kind = "reset" /\ pc'[d] = "lookUp"
          \/ pc[d] = "consume" /\ op[d].kind = "bind" /\ pc'[d] = "setContact"
          \/ pc[d] = "consume" /\ op[d].kind = "delete" /\ pc'[d] = "revokeAll"
          \/ pc[d] = "consume" /\ op[d].kind = "code" /\ pc'[d] = "revokeAll"
          \/ pc[d] = "setPassword" /\ op[d].kind = "reset" /\ pc'[d] = "revokeAll"
          \/ pc[d] = "revokeOne" /\ op[d].kind = "refresh" /\ pc'[d] = "save"
          \/ pc[d] = "revokeAll" /\ op[d].kind \in Logins /\ pc'[d] = "save"
          \/ pc[d] = "revokeAll" /\ op[d].kind = "delete" /\ pc'[d] = "deleteRow"
          \/ pc[d] = "save" /\ op[d].kind = "refresh" /\ pc'[d] = "owner"
          \/ pc[d] = "hasRole" /\ op[d].kind = "switch" /\ pc'[d] = "setActive"
          \/ pc[d] = "grant" /\ op[d].kind = "addRole" /\ pc'[d] = "setActive"
      <3>1. CASE ContactFree(d) \/ PasswordSet(d) \/ RoleFound(d) \/ Granted(d)
        BY <1>0, <3>1 DEF ContactFree, PasswordSet, RoleFound, Granted, Goes, OnRoute
      <3>2. CASE Consumed(d) \/ TokenRevoked(d) \/ AllRevoked(d) \/ Saved(d)
        BY <3>2 DEF Consumed, TokenRevoked, AllRevoked, Saved, Goes
      <3>3. QED
        BY <1>5, <3>1, <3>2
    <2>3. pc'[d] \notin {"new", "done"} /\ OnRoute(d)'
      BY <1>0, <2>2 DEF OnRoute, Logins
    <2>4. Found(d)'
      <3>1. op[d].kind \in OwnKinds => op[d].user \in Users /\ op[d].user # None
        BY <1>0, AccountsAssumption DEF Asked
      <3>2. op[d].kind \in {"bind", "delete", "switch", "addRole"} => work[d].user \in Users
        BY <1>0, <3>1 DEF Found, OwnKinds
      <3>3. QED
        BY <1>0, <2>1, <2>2, <3>2 DEF Found, Succeeded
    <2>5. Verified(d)'
      <3>1. CASE pc[d] \in {"ensure", "hasRole", "grant", "save", "revokeOne"}
        BY <1>0, <2>1, <2>2, <3>1 DEF Verified
      <3>2. CASE pc[d] = "consume"
        <4>1. /\ work[d].code.purpose = PurposeOf(op[d].kind)
              /\ work[d].code.contact \in work[d].target
          BY <1>0, <3>2 DEF Verified
        <4>2. op[d].kind \in {"reset", "bind", "delete", "code"}
          BY <2>2, <3>2
        <4>3. QED
          BY <1>0, <2>1, <2>2, <3>2, <4>1, <4>2 DEF Verified
      <3>3. CASE pc[d] = "revokeAll"
        BY <1>0, <2>1, <2>2, <3>3 DEF Verified, Logins
      <3>4. CASE pc[d] = "setPassword"
        BY <1>0, <2>1, <2>2, <3>4 DEF Verified
      <3>5. QED
        BY <2>2, <3>1, <3>2, <3>3, <3>4
    <2>6. QED
      BY <1>92, <2>1, <2>3, <2>4, <2>5
  <1>6. CASE ContactFound(d)
    <2>1. PICK target \in SUBSET Contacts :
             /\ target # {} /\ target = account[op[d].user].contacts \cap op[d].contacts
             /\ Goes(d, IF op[d].kind = "delete" THEN "verify" ELSE "send",
                     [work[d] EXCEPT !.target = target])
      BY <1>6 DEF ContactFound
    <2>2. pc[d] = "contact" /\ op[d].kind \in {"delete", "send"} /\ op[d].user \in Users
      BY <1>0, <1>6 DEF ContactFound, OnRoute, Found
    <2>3. /\ work'[d].user = work[d].user /\ work'[d].target = target /\ reply'[d] = reply[d]
          /\ pc'[d] = (IF op[d].kind = "delete" THEN "verify" ELSE "send")
      BY <1>0, <2>1 DEF Goes, Work
    <2>4. op[d].kind = "delete" => \E k \in Contacts : target = {k}
      <3>1. SUFFICES ASSUME op[d].kind = "delete"
                     PROVE  \E k \in Contacts : target = {k}
        OBVIOUS
      <3>2. op[d].contacts \in {Phones, Emails}
        BY <1>0, <3>1 DEF Asked
      <3>3. Live(op[d].user) => account[op[d].user].contacts \in OneOrBoth
        BY <2>2 DEF TypeOK, TablesAgree
      <3>4. Live(op[d].user)
        <4>1. SUFFICES ASSUME ~Live(op[d].user)
                       PROVE  FALSE
          OBVIOUS
        <4>2. account[op[d].user] = [NoAccount EXCEPT !.state = account[op[d].user].state]
          BY <2>2, <4>1 DEF TypeOK, TablesAgree
        <4>3. account[op[d].user].contacts = {}
          BY <4>2 DEF NoAccount
        <4>4. QED
          BY <2>1, <4>3
      <3>5. Phones \cap Emails = {}
        BY AccountsAssumption
      <3>6. QED
        BY <2>1, <3>2, <3>3, <3>4, <3>5 DEF OneOrBoth, Contacts
    <2>5. OnRoute(d)'
      BY <1>0, <2>2, <2>3 DEF OnRoute
    <2>6. Found(d)'
      BY <1>0, <2>2, <2>3 DEF Found, Succeeded
    <2>7. Verified(d)'
      BY <1>0, <2>2, <2>3, <2>4 DEF Verified
    <2>8. QED
      BY <1>92, <2>3, <2>5, <2>6, <2>7
  <1>7. CASE CodeFound(d)
    <2>1. PICK x \in Code :
             /\ x.contact \in work[d].target /\ x.purpose = PurposeOf(op[d].kind)
             /\ Goes(d, "consume", [work[d] EXCEPT !.code = x])
      BY <1>7 DEF CodeFound
    <2>2. pc[d] = "verify" /\ op[d].kind \in {"code", "reset", "bind", "delete"}
      BY <1>0, <1>7 DEF CodeFound, OnRoute
    <2>3. /\ work'[d].user = work[d].user /\ work'[d].target = work[d].target
          /\ work'[d].code = x /\ pc'[d] = "consume" /\ reply'[d] = reply[d]
      BY <1>0, <2>1 DEF Goes, Work
    <2>4. OnRoute(d)'
      BY <1>0, <2>2, <2>3 DEF OnRoute
    <2>5. Found(d)'
      BY <1>0, <2>2, <2>3 DEF Found, Succeeded
    <2>6. Verified(d)'
      BY <1>0, <2>1, <2>2, <2>3 DEF Verified
    <2>7. QED
      BY <1>92, <2>3, <2>4, <2>5, <2>6
  <1>8. CASE TokenFound(d)
    <2>1. /\ pc[d] = "find" /\ pc'[d] = "revokeOne" /\ reply'[d] = reply[d]
          /\ op[d].kind \in {"refresh", "logout"} /\ op[d].user = None
      BY <1>0, <1>8 DEF TokenFound, Goes, Asked, OwnKinds
    <2>2. op[d].kind = "refresh" => work'[d].user \in Users
      <3>1. SUFFICES ASSUME op[d].kind = "refresh"
                     PROVE  work'[d].user \in Users
        OBVIOUS
      <3>2. op[d].arg \in Devices
        BY <1>0, <3>1 DEF Asked
      <3>3. token[op[d].arg].state = "live" /\ work'[d].user = token[op[d].arg].user
        BY <1>0, <1>8, <3>1 DEF TokenFound, Goes, Work
      <3>4. token[op[d].arg] \in Token
        BY <3>2 DEF TypeOK
      <3>5. token[op[d].arg].user # None
        BY <3>2, <3>3 DEF TypeOK, TablesAgree
      <3>6. QED
        BY <3>3, <3>4, <3>5 DEF Token
    <2>3. OnRoute(d)'
      BY <1>0, <2>1 DEF OnRoute
    <2>4. Found(d)'
      BY <1>0, <2>1, <2>2 DEF Found, Succeeded
    <2>5. Verified(d)'
      BY <1>0, <2>1 DEF Verified
    <2>6. QED
      BY <1>92, <2>1, <2>3, <2>4, <2>5
  <1>9. CASE OwnerRead(d)
    <2>1. /\ pc[d] = "owner" /\ pc'[d] = "roles" /\ reply'[d] = reply[d]
          /\ work'[d].user = work[d].user
      BY <1>0, <1>9 DEF OwnerRead, Goes, Work
    <2>2. op[d].kind = "refresh"
      BY <1>0, <2>1 DEF OnRoute
    <2>3. OnRoute(d)'
      BY <1>0, <2>1, <2>2 DEF OnRoute
    <2>4. Found(d)'
      BY <1>0, <2>1, <2>2 DEF Found, Succeeded
    <2>5. Verified(d)'
      BY <1>0, <2>1, <2>2 DEF Verified
    <2>6. QED
      BY <1>92, <2>1, <2>3, <2>4, <2>5
  <1>10. QED
    BY <1>1, <1>2, <1>3, <1>4, <1>5, <1>6, <1>7, <1>8, <1>9 DEF Ran

LEMMA ControlStep ==
    ASSUME TypeOK, Control, [Next]_vars
    PROVE  Control'
  <1>1. ASSUME NEW d \in Calls, Still(d)
        PROVE  ControlOf(d)'
    <2>1. ControlOf(d)
      BY DEF Control
    <2>2. QED
      BY <1>1, <2>1 DEF Still, ControlOf, OnRoute, Asked, Found, Verified, Succeeded
  <1>2. QED
    BY <1>1, OneMoves, BegunControl, RanControl DEF Control

-----------------------------------------------------------------------------
(* How an account and a call go on.                                        *)

LEMMA RowCases ==
    ASSUME TypeOK, Control, Known, [Next]_vars, NEW u \in Users
    PROVE  \/ Fixed(u)
           \/ \E c \in Calls : Ran(c) /\ Alone(c) /\ Writes(c, u) /\ OnRoute(c)
  <1>1. CASE account' = account
    BY <1>1 DEF Fixed
  <1>2. ASSUME NEW c \in Calls, Ran(c), Alone(c), AccountStep(c), ~Fixed(u)
        PROVE  Ran(c) /\ Alone(c) /\ Writes(c, u) /\ OnRoute(c)
    <2>1. OnRoute(c)
      BY <1>2, RanKeeps DEF Control, ControlOf
    <2>2. QED
      BY <1>2, <2>1 DEF AccountStep
  <1>3. QED
    BY <1>1, <1>2, TableSteps

\* An account is made once and deleted once, and it loses no role before that.
LEMMA RowGoesOn ==
    ASSUME TypeOK, Control, Known, [Next]_vars, NEW u \in Users
    PROVE  /\ account[u].state # "absent" => account'[u].state # "absent"
           /\ account[u].state = "gone" => account'[u].state = "gone"
           /\ account[u].state # "absent" /\ account'[u].state = "live"
                => Live(u) /\ account[u].roles \subseteq account'[u].roles
  <1>0. account[u] \in Account
    BY DEF TypeOK
  <1>1. CASE Fixed(u)
    BY <1>1 DEF Fixed, Live
  <1>2. ASSUME NEW c \in Calls, Writes(c, u)
        PROVE  \/ account[u].state = "absent" /\ account'[u].state = "live"
               \/ Live(u) /\ account'[u].state \in {"live", "gone"}
                  /\ (account'[u].state = "live" => account[u].roles \subseteq account'[u].roles)
    <2>1. CASE Registers(c, u)
      BY <2>1 DEF Registers, NewAccount
    <2>2. CASE Deletes(c, u)
      BY <2>2 DEF Deletes, NoAccount
    <2>3. CASE Grants(c, u)
      <3>1. PICK new : new = account[u].roles \cup {op[c].arg}
        OBVIOUS
      <3>2. account'[u] = [account[u] EXCEPT !.roles = new]
        BY <2>3, <3>1 DEF Grants
      <3>3. account'[u].roles = new /\ account'[u].state = account[u].state
        BY <1>0, <3>2 DEF Account
      <3>4. QED
        BY <2>3, <3>1, <3>3 DEF Grants, Live
    <2>4. CASE SetsContact(c, u)
      <3>1. PICK new : new = (account[u].contacts \ Channels(c)) \cup op[c].contacts
        OBVIOUS
      <3>2. account'[u] = [account[u] EXCEPT !.contacts = new]
        BY <2>4, <3>1 DEF SetsContact
      <3>3. account'[u].roles = account[u].roles /\ account'[u].state = account[u].state
        BY <1>0, <3>2 DEF Account
      <3>4. QED
        BY <2>4, <3>3 DEF SetsContact, Live
    <2>5. CASE SetsPassword(c, u) \/ Switched(c, u) \/ SetsStatus(c, u)
      BY <1>0, <2>5 DEF SetsPassword, Switched, SetsStatus, Account, Live
    <2>6. QED
      BY <1>2, <2>1, <2>2, <2>3, <2>4, <2>5 DEF Writes
  <1>3. ASSUME NEW c \in Calls, Writes(c, u)
        PROVE  /\ account[u].state # "absent" => account'[u].state # "absent"
               /\ account[u].state = "gone" => account'[u].state = "gone"
               /\ account[u].state # "absent" /\ account'[u].state = "live"
                    => Live(u) /\ account[u].roles \subseteq account'[u].roles
    BY <1>2, <1>3 DEF Live
  <1>4. QED
    BY <1>1, <1>3, RowCases

\* A call that does not begin keeps what it was asked; one that begins was blank.
LEMMA KeptOrBegun ==
    ASSUME TypeOK, Control, [Next]_vars, NEW d \in Calls
    PROVE  \/ Kept(d) /\ (pc'[d] = "new" <=> pc[d] = "new")
           \/ Begun(d) /\ pc[d] = "new" /\ pc'[d] \notin {"new", "done"} /\ op[d] = NoOp
              /\ before[d] = {} /\ reply[d] = "none" /\ reply'[d] = "none" /\ work[d] = NoWork
  <1>1. CASE Still(d)
    BY <1>1 DEF Still, Kept
  <1>2. CASE Ran(d)
    BY <1>2, RanKeeps
  <1>3. CASE Begun(d)
    BY <1>3 DEF Begun, Opens, Control, ControlOf
  <1>4. QED
    BY <1>1, <1>2, <1>3, OneMoves

LEMMA HistoryStep ==
    ASSUME TypeOK, Control, History, [Next]_vars
    PROVE  History'
  <1>1. Done \subseteq Done'
    BY DoneStays DEF Done, Still
  <1>2. ASSUME NEW d \in Calls
        PROVE  before'[d] \subseteq Done' /\ d \notin before'[d]
    <2>1. CASE Kept(d)
      BY <1>1, <2>1 DEF Kept, History
    <2>2. CASE Begun(d)
      BY <1>1, <2>2 DEF Begun, Done
    <2>3. QED
      BY <2>1, <2>2, KeptOrBegun
  <1>3. QED
    BY <1>2 DEF History

LEMMA NobodyYet == NoWork.user = None
  BY DEF NoWork

\* Whom a call is about after a step of its own.
LEMMA UserMoves ==
    ASSUME TypeOK, Control, NEW d \in Calls, Ran(d)
    PROVE  \/ work'[d].user = work[d].user
           \/ work'[d].user = None /\ Stops(d)
           \/ pc[d] \in {"lookUp", "find"} /\ pc'[d] \in {"setPassword", "roles", "revokeOne"}
              /\ work'[d].user \in Users /\ Live(work'[d].user)
  <1>0. work[d] \in Work
    BY DEF TypeOK
  <1>1. ASSUME NEW label, Goes(d, label, work[d])
        PROVE  work'[d].user = work[d].user
    BY <1>1 DEF Goes
  <1>2. ASSUME NEW role, Answers(d, role)
        PROVE  work'[d].user = work[d].user
    BY <1>2 DEF Answers, NoWork
  <1>3. CASE LookedUp(d)
    <2>1. PICK u \in Users :
             /\ Live(u)
             /\ work'[d] = [work[d] EXCEPT !.user = u, !.status = account[u].status,
                                           !.role = account[u].active]
             /\ pc'[d] \in {"setPassword", "roles"}
      BY <1>3 DEF LookedUp, Goes
    <2>2. work'[d].user = u
      BY <1>0, <2>1 DEF Work
    <2>3. QED
      BY <1>3, <2>1, <2>2 DEF LookedUp
  <1>4. CASE TokenFound(d)
    <2>1. CASE op[d].kind = "logout" /\ Goes(d, "revokeOne", work[d])
      BY <1>1, <2>1
    <2>2. CASE /\ op[d].kind = "refresh" /\ token[op[d].arg].state = "live"
               /\ Goes(d, "revokeOne", [work[d] EXCEPT !.user = token[op[d].arg].user])
      <3>1. work'[d].user = token[op[d].arg].user /\ pc'[d] = "revokeOne"
        BY <1>0, <2>2 DEF Goes, Work
      <3>2. op[d].arg \in Devices
        BY <1>4, <2>2 DEF TokenFound, Control, ControlOf, Asked
      <3>3. token[op[d].arg] \in Token /\ token[op[d].arg].user # None
        BY <2>2, <3>2 DEF TypeOK, TablesAgree
      <3>4. Live(token[op[d].arg].user)
        BY <2>2, <3>2 DEF TypeOK, TablesAgree, LiveTokens
      <3>5. token[op[d].arg].user \in Users
        BY <3>3 DEF Token
      <3>6. Live(work'[d].user) /\ work'[d].user \in Users
        BY <3>1, <3>4, <3>5 DEF Live
      <3>7. pc[d] = "find"
        BY <1>4 DEF TokenFound
      <3>8. pc'[d] \in {"setPassword", "roles", "revokeOne"} /\ pc[d] \in {"lookUp", "find"}
        BY <3>1, <3>7
      <3>9. QED
        BY <3>6, <3>8, Zenon
    <2>3. QED
      BY <1>4, <2>1, <2>2 DEF TokenFound
  <1>5. CASE \/ Created(d) \/ RolesLoaded(d) \/ ContactFound(d) \/ CodeFound(d) \/ OwnerRead(d)
    BY <1>0, <1>2, <1>5 DEF Created, RolesLoaded, ContactFound, CodeFound, OwnerRead, Goes, Work
  <1>6. CASE Finished(d)
    BY <1>2, <1>6 DEF Finished
  <1>7. CASE Stops(d)
    BY <1>7, NobodyYet DEF Stops
  <1>8. QED
    BY <1>1, <1>3, <1>4, <1>5, <1>6, <1>7
       DEF Ran, ContactFree, Consumed, PasswordSet, TokenRevoked, AllRevoked, Saved, RoleFound,
           Granted

LEMMA KnownStep ==
    ASSUME TypeOK, Control, Known, [Next]_vars
    PROVE  Known'
  <1>0. None \notin Users
    BY AccountsAssumption
  <1>1. ASSUME NEW d \in Calls, op'[d].kind \in OwnKinds \ {"register"}
        PROVE  account'[op'[d].user].state # "absent"
    <2>1. CASE Kept(d)
      <3>1. op[d].user \in Users
        BY <1>1, <2>1 DEF Kept, Control, ControlOf, Asked, NoOp, OwnKinds
      <3>2. account[op[d].user].state # "absent"
        BY <1>1, <2>1 DEF Kept, Known
      <3>3. QED
        BY <2>1, <3>1, <3>2, RowGoesOn DEF Kept
    <2>2. CASE Begun(d)
      <3>1. op'[d].user \in Users
        BY <1>1, <2>2 DEF Begun, Opens, OwnKinds
      <3>2. QED
        BY <1>1, <2>2, <3>1 DEF Begun, NoRowChanges
    <2>3. QED
      BY <2>1, <2>2, KeptOrBegun
  <1>2. ASSUME NEW d \in Calls, pc'[d] = "create"
        PROVE  account'[op'[d].user].state = "absent"
    <2>1. CASE Begun(d)
      BY <1>2, <2>1 DEF Begun, Opens, NoRowChanges
    <2>2. CASE Still(d)
      <3>1. pc[d] = "create" /\ op[d].kind = "register" /\ op'[d] = op[d]
        BY <1>2, <2>2 DEF Still, Control, ControlOf, OnRoute
      <3>2. op[d].user \in Users /\ account[op[d].user].state = "absent"
        BY <3>1 DEF Known, Control, ControlOf, Asked, OwnKinds
      <3>3. ASSUME NEW c \in Calls, Ran(c), Writes(c, op[d].user), OnRoute(c)
            PROVE  FALSE
        <4>1. Registers(c, op[d].user)
          BY <3>2, <3>3 DEF Writes, Live, SetsPassword, SetsContact, Deletes, Grants, Switched,
                            SetsStatus
        <4>2. op[c].kind = "register" /\ op[c].user = op[d].user
          BY <3>3, <4>1 DEF Registers, OnRoute
        <4>3. c = d
          BY <3>1, <4>2 DEF Known
        <4>4. pc'[d] # "create"
          BY <3>1, <3>3, <4>3 DEF Ran, Created, LookedUp, RolesLoaded, ContactFree, ContactFound,
             CodeFound, Consumed, PasswordSet, TokenFound, TokenRevoked, AllRevoked, Saved,
             OwnerRead, RoleFound, Granted, Finished, Stops, Goes
        <4>5. QED
          BY <1>2, <4>4
      <3>4. QED
        BY <3>1, <3>2, <3>3, RowCases DEF Fixed
    <2>3. CASE Ran(d)
      BY <1>2, <2>3 DEF Ran, Created, LookedUp, RolesLoaded, ContactFree, ContactFound,
         CodeFound, Consumed, PasswordSet, TokenFound, TokenRevoked, AllRevoked, Saved, OwnerRead,
         RoleFound, Granted, Finished, Stops, Goes, Answers
    <2>4. QED
      BY <2>1, <2>2, <2>3, OneMoves
  <1>3. ASSUME NEW d \in Calls, pc'[d] # "create", work'[d].user \in Users
        PROVE  account'[work'[d].user].state # "absent"
    <2>1. CASE Still(d)
      BY <1>3, <2>1, RowGoesOn DEF Still, Known
    <2>2. CASE Begun(d)
      <3>1. work'[d].user = op'[d].user
        BY <2>2 DEF Begun, NoWork
      <3>2. op'[d].kind # "register"
        BY <1>3, <2>2 DEF Begun, Opens
      <3>3. QED
        BY <1>3, <2>2, <3>1, <3>2 DEF Begun, NoRowChanges
    <2>3. CASE Ran(d)
      <3>1. CASE pc[d] = "create"
        <4>1. op[d].kind = "register" /\ OnRoute(d) /\ Asked(d) /\ Found(d) /\ reply[d] = "none"
          BY <3>1 DEF Control, ControlOf, OnRoute
        <4>2. op[d].user \in Users /\ work[d].user = op[d].user /\ work[d] \in Work
          BY <1>0, <4>1 DEF Asked, Found, OwnKinds, TypeOK
        <4>3. Created(d) \/ Stops(d)
          BY <2>3, <3>1 DEF Ran, Created, LookedUp, RolesLoaded, ContactFree, ContactFound,
             CodeFound, Consumed, PasswordSet, TokenFound, TokenRevoked, AllRevoked, Saved,
             OwnerRead, RoleFound, Granted, Finished, Stops
        <4>4. ASSUME Stops(d) PROVE work'[d].user = None
          BY <4>4, NobodyYet DEF Stops
        <4>5. Created(d)
          BY <1>0, <1>3, <4>3, <4>4
        <4>6. account'[op[d].user].state = "live"
          BY <4>5 DEF Created
        <4>7. work'[d].user = op[d].user
          BY <4>2, <4>5 DEF Created, Goes, Work
        <4>8. QED
          BY <4>6, <4>7
      <3>2. CASE pc[d] # "create"
        <4>1. account[work'[d].user].state # "absent"
          BY <1>0, <1>3, <2>3, <3>2, UserMoves DEF Known, Live
        <4>2. QED
          BY <1>3, <4>1, RowGoesOn
      <3>3. QED
        BY <3>1, <3>2
    <2>4. QED
      BY <2>1, <2>2, <2>3, OneMoves
  <1>4. ASSUME NEW c \in Calls, NEW d \in Calls, op'[c].kind = "register",
               op'[d].kind = "register", op'[c].user = op'[d].user
        PROVE  c = d
    <2>1. CASE Kept(c) /\ Kept(d)
      BY <1>4, <2>1 DEF Kept, Known
    <2>2. ASSUME NEW x \in Calls, NEW y \in Calls, x # y, Begun(x), Alone(x),
                 op'[x].kind = "register", op'[y].kind = "register"
          PROVE  op'[x].user # op'[y].user
      BY <2>2 DEF Begun, Opens, Alone, Still
    <2>3. CASE Begun(c) \/ Begun(d)
      <3>1. \A x \in Calls : Begun(x) => pc'[x] # pc[x] /\ pc[x] = "new"
        BY KeptOrBegun DEF Begun, Opens
      <3>2. \A x \in Calls : Begun(x) => Alone(x)
        <4>1. ASSUME NEW x \in Calls, Begun(x), NEW y \in Calls, Alone(y), Begun(y) \/ Ran(y)
              PROVE  x = y
          BY <3>1, <4>1 DEF Alone, Still
        <4>2. ASSUME NEW x \in Calls, Begun(x)
              PROVE  ~UNCHANGED vars
          BY <3>1, <4>2 DEF vars
        <4>3. QED
          BY <4>1, <4>2, StepCases
      <3>3. QED
        BY <1>4, <2>2, <2>3, <3>2
    <2>4. QED
      BY <2>1, <2>3, KeptOrBegun
  <1>5. QED
    BY <1>1, <1>2, <1>3, <1>4 DEF Known

LEMMA RolesHeldStep ==
    ASSUME TypeOK, Control, Known, RolesHeld, [Next]_vars
    PROVE  RolesHeld'
  <1>0. None \notin Users
    BY AccountsAssumption
  <1>1. ASSUME NEW d \in Calls, Settled(d)
        PROVE  /\ work[d].user \in Users
               /\ account'[work[d].user].state = "live"
                    => work[d].role \in account'[work[d].user].roles
    <2>1. pc[d] # "new" /\ pc[d] # "create" /\ Found(d)
      BY <1>1 DEF Settled, Signed, Succeeded, Control, ControlOf
    <2>2. work[d].user \in Users
      BY <1>1, <2>1 DEF Settled, Signed, Found, Control, ControlOf, OnRoute, Logins
    <2>3. account[work[d].user].state # "absent"
      BY <2>1, <2>2 DEF Known
    <2>4. QED
      BY <1>1, <2>2, <2>3, RowGoesOn DEF RolesHeld
  <1>2. ASSUME NEW d \in Calls, Settled(d)', account'[work'[d].user].state = "live"
        PROVE  work'[d].role \in account'[work'[d].user].roles
    <2>1. CASE Still(d)
      <3>1. Settled(d)
        BY <1>2, <2>1 DEF Still, Settled, Signed, Succeeded
      <3>2. QED
        BY <1>1, <1>2, <2>1, <3>1 DEF Still
    <2>2. CASE Begun(d)
      BY <1>2, <2>2 DEF Settled, Signed, Succeeded, Begun, Opens, Control, ControlOf
    <2>3. CASE Ran(d)
      <3>0. /\ op'[d] = op[d] /\ OnRoute(d) /\ Asked(d) /\ Found(d) /\ reply[d] = "none"
            /\ work[d] \in Work /\ pc[d] \notin {"new", "done"}
        BY <2>3, RanKeeps DEF Kept, Control, ControlOf, TypeOK
      <3>1. CASE Settled(d) /\ work'[d].user = work[d].user /\ work'[d].role = work[d].role
        BY <1>1, <1>2, <3>1
      <3>2. CASE Created(d)
        <4>1. op[d].kind = "register" /\ op[d].user \in Users
          BY <3>0, <3>2 DEF Created, OnRoute, Asked, OwnKinds
        <4>2. work[d].user = op[d].user
          BY <1>0, <3>0, <4>1 DEF Found
        <4>3. work'[d].user = op[d].user /\ work'[d].role = op[d].arg
          BY <3>0, <3>2, <4>2 DEF Created, Goes, Work
        <4>4. account'[op[d].user].roles = {op[d].arg}
          BY <3>2 DEF Created
        <4>5. QED
          BY <4>3, <4>4
      <3>3. CASE RolesLoaded(d)
        <4>1. PICK role \in Roles \cup {""} :
                /\ role = ActiveRole(work[d].role, account[work[d].user].roles)
                /\ work'[d].user = work[d].user /\ work'[d].role = role
          BY <3>0, <3>3 DEF RolesLoaded, Goes, Answers, Work, NoWork
        <4>2. work[d].user \in Users /\ account[work[d].user].state # "absent"
          BY <3>0, <3>3 DEF RolesLoaded, Found, Known
        <4>3. /\ Live(work[d].user)
              /\ account[work[d].user].roles \subseteq account'[work[d].user].roles
          BY <1>2, <4>1, <4>2, RowGoesOn
        <4>4. account[work[d].user].roles # {} /\ account[work[d].user].roles \subseteq Roles
          BY <4>2, <4>3 DEF TypeOK, TablesAgree, Account
        <4>5. role \in account[work[d].user].roles
          BY <4>1, <4>4 DEF ActiveRole, Roles
        <4>6. QED
          BY <4>1, <4>3, <4>5
      <3>4. CASE Finished(d) /\ pc[d] = "setActive"
        <4>1. /\ op[d].user \in Users /\ account[op[d].user].state # "absent"
              /\ work[d].user = op[d].user
          BY <1>0, <3>0, <3>4 DEF OnRoute, Asked, OwnKinds, Switches, Known, Found
        <4>2. work'[d].user = op[d].user /\ work'[d].role = op[d].arg
          BY <3>4, <4>1 DEF Finished, Answers, NoWork
        <4>3. Live(op[d].user) /\ account[op[d].user].roles \subseteq account'[op[d].user].roles
          BY <1>2, <4>1, <4>2, RowGoesOn
        <4>4. op[d].arg \in account[op[d].user].roles
          BY <3>4, <4>3 DEF RolesHeld
        <4>5. QED
          BY <4>2, <4>3, <4>4
      <3>5. CASE Finished(d) /\ pc[d] # "setActive"
        <4>1. work'[d].user = work[d].user /\ work'[d].role = work[d].role
          BY <3>5 DEF Finished, Answers, NoWork
        <4>2. pc'[d] = "done" /\ op[d].kind \in Logins \cup {"refresh"} \cup Switches
          BY <1>2, <3>0, <3>5 DEF Finished, Answers, Settled, Signed, Switches
        <4>3. pc[d] = "save" /\ op[d].kind \in Logins
          BY <3>0, <3>5, <4>2 DEF Finished, OnRoute, Logins, Switches
        <4>4. Settled(d)
          BY <4>3 DEF Settled, Logins
        <4>5. QED
          BY <3>1, <4>1, <4>4
      <3>6. CASE Stops(d)
        BY <1>2, <3>6 DEF Stops, Settled, Signed, Succeeded
      <3>7. CASE CodeFound(d) \/ Consumed(d) \/ AllRevoked(d)
        <4>1. work'[d].user = work[d].user /\ work'[d].role = work[d].role
          BY <3>0, <3>7 DEF CodeFound, Consumed, AllRevoked, Goes, Work
        <4>2. Settled(d)
          BY <1>2, <3>0, <3>7 DEF CodeFound, Consumed, AllRevoked, Goes, Settled, Signed, Succeeded
        <4>3. QED
          BY <3>1, <4>1, <4>2
      <3>8. CASE \/ LookedUp(d) \/ ContactFree(d) \/ ContactFound(d) \/ PasswordSet(d)
                 \/ TokenFound(d) \/ TokenRevoked(d) \/ Saved(d) \/ OwnerRead(d) \/ RoleFound(d)
                 \/ Granted(d)
        BY <1>2, <3>0, <3>8 DEF LookedUp, ContactFree, ContactFound, PasswordSet, TokenFound,
           TokenRevoked, Saved, OwnerRead, RoleFound, Granted, Goes, OnRoute, Settled, Signed,
           Succeeded, Logins
      <3>9. QED
        BY <2>3, <3>2, <3>3, <3>4, <3>5, <3>6, <3>7, <3>8 DEF Ran
    <2>4. QED
      BY <2>1, <2>2, <2>3, OneMoves
  <1>3. ASSUME NEW d \in Calls, account'[op'[d].user].state = "live",
               pc'[d] = "setActive" \/ (op'[d].kind \in Switches /\ reply'[d] = "ok")
        PROVE  op'[d].arg \in account'[op'[d].user].roles
    <2>0. Kept(d)
      BY <1>3, KeptOrBegun DEF Begun, Opens
    <2>1. pc[d] # "new"
      <3>1. pc[d] = "new" => op[d].kind = "password" /\ ~(pc'[d] = "setActive")
        <4>1. ASSUME pc[d] = "new" PROVE op[d] = NoOp /\ ~Ran(d)
          BY <4>1, RanKeeps DEF Control, ControlOf
        <4>2. Begun(d) => pc'[d] # "setActive"
          BY DEF Begun, Opens
        <4>3. QED
          BY <4>1, <4>2, OneMoves DEF Still, NoOp
      <3>2. QED
        BY <1>3, <2>0, <3>1 DEF Kept, Switches
    <2>2. op[d].kind \in Switches
      <3>1. pc'[d] = "setActive" => OnRoute(d)'
        BY ControlStep DEF Control, ControlOf
      <3>2. QED
        BY <1>3, <2>0, <3>1 DEF Kept, OnRoute, Switches
    <2>3. op[d].user \in Users /\ account[op[d].user].state # "absent"
      BY <2>1, <2>2 DEF Control, ControlOf, Asked, Switches, OwnKinds, Known
    <2>4. Live(op[d].user) /\ account[op[d].user].roles \subseteq account'[op[d].user].roles
      BY <1>3, <2>0, <2>3, RowGoesOn DEF Kept
    <2>5. CASE pc[d] = "setActive" \/ Succeeded(d)
      BY <2>0, <2>2, <2>4, <2>5 DEF Kept, RolesHeld
    <2>6. CASE ~(pc[d] = "setActive" \/ Succeeded(d))
      <3>1. Ran(d)
        BY <1>3, <2>0, <2>1, <2>6, OneMoves DEF Still, Succeeded, Begun
      <3>2. RoleFound(d) \/ Granted(d)
        BY <1>3, <2>1, <2>2, <2>6, <3>1 DEF Ran, Created, LookedUp, RolesLoaded, ContactFree,
           ContactFound, CodeFound, Consumed, PasswordSet, TokenFound, TokenRevoked, AllRevoked,
           Saved, OwnerRead, Finished, Stops, Goes, Answers, Control, ControlOf, OnRoute, Switches,
           Succeeded, Logins
      <3>3. QED
        BY <2>0, <2>4, <3>2 DEF Kept, RoleFound, Granted
    <2>7. QED
      BY <2>5, <2>6
  <1>4. QED
    BY <1>2, <1>3 DEF RolesHeld, Live, Succeeded

-----------------------------------------------------------------------------
(* Disabled and deleted accounts.                                          *)

\* Calls that had returned when d began are done, and stay as they are.
LEMMA BeforeStays ==
    ASSUME TypeOK, Control, History, [Next]_vars, NEW d \in Calls, NEW s \in before[d]
    PROVE  s \in Calls /\ pc[s] = "done" /\ Still(s)
  <1>1. s \in Calls /\ pc[s] = "done"
    BY DEF History, Done, TypeOK
  <1>2. QED
    BY <1>1, DoneStays

\* A user who is in the tables.
LEMMA AskedUser ==
    ASSUME Control, Known, NEW d \in Calls, op[d].kind \in OwnKinds \ {"register"}
    PROVE  op[d].user \in Users /\ account[op[d].user].state # "absent"
  <1>1. op[d].user \in Users
    BY DEF Control, ControlOf, Asked, OwnKinds, NoOp
  <1>2. QED
    BY <1>1 DEF Known

\* That nobody enables an account is a fact about calls of before only.
LEMMA LastDisabledHeld ==
    ASSUME TypeOK, Control, [Next]_vars, NEW d \in Calls, Still(d), LastDisabled(d)'
    PROVE  LastDisabled(d)
  <1>1. op[d].kind = "disable" /\ Succeeded(d)
    BY DEF Still, LastDisabled, Succeeded
  <1>2. ASSUME NEW e \in Calls, op[e].kind = "enable", op[e].user = op[d].user
        PROVE  e \in before[d] \/ pc[e] = "new"
    <2>1. Kept(e) /\ (pc'[e] = "new" <=> pc[e] = "new")
      BY <1>2, KeptOrBegun DEF NoOp
    <2>2. op'[e].kind = "enable" /\ op'[e].user = op'[d].user
      BY <1>2, <2>1 DEF Kept, Still
    <2>3. e \in before'[d] \/ pc'[e] = "new"
      BY <2>2 DEF LastDisabled
    <2>4. QED
      BY <2>1, <2>3 DEF Still
  <1>3. QED
    BY <1>1, <1>2 DEF LastDisabled

LEMMA StatusKeptStep ==
    ASSUME TypeOK, Control, History, Known, StatusKept, [Next]_vars
    PROVE  StatusKept'
  <1> SUFFICES ASSUME NEW d \in Calls, LastDisabled(d)', account'[op'[d].user].state = "live"
               PROVE  account'[op'[d].user].status = "disabled"
    BY DEF StatusKept, Live
  <1>0. op'[d].kind = "disable" /\ reply'[d] = "ok"
    BY DEF LastDisabled, Succeeded
  <1>1. Kept(d)
    BY <1>0, KeptOrBegun
  <1>2. PICK u \in Users : u = op[d].user /\ account[u].state # "absent"
    BY <1>0, <1>1, AskedUser DEF Kept, OwnKinds
  <1>3. Live(u) /\ account[u] \in Account
    BY <1>1, <1>2, RowGoesOn DEF Kept, TypeOK
  <1>4. CASE Still(d)
    <2>1. LastDisabled(d)
      BY <1>4, LastDisabledHeld
    <2>2. account[u].status = "disabled"
      BY <1>2, <1>3, <2>1 DEF StatusKept
    <2>3. ASSUME NEW c \in Calls, Writes(c, u), OnRoute(c), Ran(c)
          PROVE  account'[u].status = "disabled"
      <3>1. CASE SetsStatus(c, u)
        <4>1. CASE op[c].kind = "disable"
          BY <1>3, <3>1, <4>1 DEF SetsStatus, Account
        <4>2. CASE op[c].kind = "enable"
          <5>1. c \in before[d] \/ pc[c] = "new"
            BY <1>2, <2>1, <3>1, <4>2 DEF LastDisabled, SetsStatus
          <5>2. pc[c] = "done" \/ pc[c] = "new"
            BY <5>1, BeforeStays
          <5>3. QED
            BY <3>1, <5>2 DEF SetsStatus
        <4>3. QED
          BY <2>3, <3>1, <4>1, <4>2 DEF SetsStatus, OnRoute
      <3>2. CASE Registers(c, u)
        BY <1>2, <3>2 DEF Registers
      <3>3. CASE Deletes(c, u)
        BY <1>1, <1>2, <3>3 DEF Deletes, Kept, NoAccount
      <3>4. CASE SetsContact(c, u)
        <4>1. PICK new : new = (account[u].contacts \ Channels(c)) \cup op[c].contacts
          OBVIOUS
        <4>2. account'[u] = [account[u] EXCEPT !.contacts = new]
          BY <3>4, <4>1 DEF SetsContact
        <4>3. QED
          BY <1>3, <2>2, <4>2 DEF Account
      <3>5. CASE Grants(c, u)
        <4>1. PICK new : new = account[u].roles \cup {op[c].arg}
          OBVIOUS
        <4>2. account'[u] = [account[u] EXCEPT !.roles = new]
          BY <3>5, <4>1 DEF Grants
        <4>3. QED
          BY <1>3, <2>2, <4>2 DEF Account
      <3>6. CASE SetsPassword(c, u) \/ Switched(c, u)
        BY <1>3, <2>2, <3>6 DEF SetsPassword, Switched, Account
      <3>7. QED
        BY <2>3, <3>1, <3>2, <3>3, <3>4, <3>5, <3>6 DEF Writes
    <2>4. QED
      BY <1>1, <1>2, <2>2, <2>3, RowCases DEF Kept, Fixed
  <1>5. CASE Ran(d)
    <2>1. op[d].kind = "disable" /\ pc'[d] = "done"
      BY <1>0, <1>1, <1>5, RanKeeps DEF Kept, Control, ControlOf
    <2>2. pc[d] = "setStatus" /\ Finished(d)
      <3>1. pc[d] = "setStatus"
        BY <1>5, <2>1, RanKeeps DEF Control, ControlOf, OnRoute
      <3>2. QED
        BY <1>0, <1>5, <3>1 DEF Ran, Created, LookedUp, RolesLoaded, ContactFree, ContactFound,
           CodeFound, Consumed, PasswordSet, TokenFound, TokenRevoked, AllRevoked, Saved,
           OwnerRead, RoleFound, Granted, Stops
    <2>3. QED
      BY <1>1, <1>2, <1>3, <2>1, <2>2 DEF Finished, Kept
  <1>6. QED
    BY <1>0, <1>4, <1>5, OneMoves, KeptOrBegun DEF Begun, Control, ControlOf

LEMMA DisabledIsDisabled ==
    ASSUME TypeOK, Control, History, Known, StatusKept, NEW c \in Calls, NEW u \in Users,
           Live(u), DisabledFor(c, u)
    PROVE  account[u].status = "disabled"
  BY DEF DisabledFor, StatusKept, TypeOK

LEMMA DisabledForHeld ==
    ASSUME TypeOK, Control, History, [Next]_vars, NEW c \in Calls, Kept(c), NEW u,
           ~DisabledFor(c, u)
    PROVE  ~DisabledFor(c, u)'
  <1>1. ASSUME NEW d \in before'[c], LastDisabled(d)', op'[d].user = u
        PROVE  FALSE
    <2>1. d \in before[c]
      BY DEF Kept
    <2>2. d \in Calls /\ Still(d)
      BY <2>1, BeforeStays
    <2>3. LastDisabled(d) /\ op[d].user = u
      BY <1>1, <2>2, LastDisabledHeld DEF Still
    <2>4. QED
      BY <2>1, <2>3 DEF DisabledFor
  <1>2. QED
    BY <1>1 DEF DisabledFor

LEMMA AdmittedStep ==
    ASSUME TypeOK, Control, History, Known, StatusKept, Admitted, [Next]_vars
    PROVE  Admitted'
  <1>0. None \notin Users
    BY AccountsAssumption
  <1> DEFINE AdmittedOf(d) ==
        /\ op[d].kind = "password" => work[d].status = "active"
        /\ op[d].kind = "code" /\ pc[d] \in {"revokeAll", "save", "done"}
           => work[d].status = "active"
        /\ /\ op[d].kind \in {"password", "code"}
           /\ work[d].user # None /\ work[d].status = "active"
           => ~DisabledFor(d, work[d].user)
        /\ op[d].kind = "refresh" /\ (pc[d] = "roles" \/ Succeeded(d))
           => ~DisabledFor(d, work[d].user)
  <1>1. ASSUME NEW d \in Calls, Still(d)
        PROVE  AdmittedOf(d)'
    <2>1. AdmittedOf(d)
      BY DEF Admitted
    <2>2. PICK u : u = work[d].user
      OBVIOUS
    <2>3. ~DisabledFor(d, u) => ~DisabledFor(d, u)'
      BY <1>1, DisabledForHeld DEF Still, Kept
    <2>4. work'[d].user = u
      BY <1>1, <2>2 DEF Still
    <2>5. ~DisabledFor(d, work[d].user) => ~DisabledFor(d, work[d].user)'
      BY <2>2, <2>3, <2>4 DEF DisabledFor
    <2>6. QED
      BY <1>1, <2>1, <2>5 DEF Still, Succeeded
  <1>2. ASSUME NEW d \in Calls, Begun(d)
        PROVE  AdmittedOf(d)'
    <2>1. /\ Opens(op'[d], pc'[d]) /\ reply'[d] = "none"
          /\ work'[d] = [NoWork EXCEPT !.user = op'[d].user, !.target = op'[d].contacts]
      BY <1>2 DEF Begun, Control, ControlOf
    <2>2. work'[d].user = op'[d].user /\ work'[d].status = "active"
      BY <2>1 DEF NoWork
    <2>3. pc'[d] \notin {"roles", "save", "done"}
      BY <2>1 DEF Opens
    <2>4. op'[d].kind \in {"password", "code"} => op'[d].user = None /\ pc'[d] = "lookUp"
      BY <2>1 DEF Opens
    <2>5. QED
      BY <2>1, <2>2, <2>3, <2>4 DEF Succeeded
  <1>3. ASSUME NEW d \in Calls, Ran(d)
        PROVE  AdmittedOf(d)'
    <2>0. /\ op'[d] = op[d] /\ before'[d] = before[d] /\ OnRoute(d) /\ reply[d] = "none"
          /\ work[d] \in Work /\ pc[d] \notin {"new", "done"} /\ Kept(d) /\ AdmittedOf(d)
      BY <1>3, RanKeeps DEF Kept, Control, ControlOf, TypeOK, Admitted
    <2>1. PICK v : v = work'[d].user
      OBVIOUS
    <2>2. ASSUME ~DisabledFor(d, v)
          PROVE  ~DisabledFor(d, work[d].user)'
      <3>1. ~DisabledFor(d, v)'
        BY <2>0, <2>2, DisabledForHeld
      <3>2. QED
        BY <2>1, <3>1 DEF DisabledFor
    <2>3. ASSUME v \in Users, Live(v), account[v].status # "disabled"
          PROVE  ~DisabledFor(d, work[d].user)'
      BY <2>2, <2>3, DisabledIsDisabled
    <2>4. CASE Stops(d)
      <3>1. /\ work'[d] = NoWork /\ NoWork.user = None /\ NoWork.status = "active"
            /\ reply'[d] = "error"
        BY <2>4 DEF Stops, NoWork
      <3>2. work'[d].user = None /\ work'[d].status = "active" /\ pc'[d] # "roles"
        BY <2>4, <3>1 DEF Stops
      <3>3. QED
        BY <3>1, <3>2 DEF Succeeded
    <2>5. CASE LookedUp(d)
      <3>1. PICK u \in Users :
               /\ Live(u)
               /\ op[d].kind # "code" => account[u].status # "disabled"
               /\ work'[d] = [work[d] EXCEPT !.user = u, !.status = account[u].status,
                                             !.role = account[u].active]
        BY <2>5 DEF LookedUp, Goes
      <3>2. work'[d].user = u /\ work'[d].status = account[u].status /\ reply'[d] = "none"
        BY <2>0, <2>5, <3>1 DEF Work, LookedUp, Goes
      <3>3. account[u].status \in {"active", "disabled"}
        BY DEF TypeOK, Account
      <3>4. ASSUME account[u].status = "active"
            PROVE  ~DisabledFor(d, work[d].user)'
        <4>1. v = u
          BY <2>1, <3>2
        <4>2. v \in Users /\ Live(v) /\ account[v].status # "disabled"
          BY <3>1, <3>4, <4>1
        <4>3. QED
          BY <2>3, <4>2
      <3>5. pc[d] = "lookUp" /\ op[d].kind \in {"password", "code", "reset"}
        BY <2>0, <2>5 DEF LookedUp, OnRoute
      <3>6. pc'[d] \in {"roles", "setPassword"} /\ (op[d].kind = "code" => pc'[d] = "roles")
        BY <2>5 DEF LookedUp, Goes
      <3>7. op[d].kind = "password" => work'[d].status = "active"
        BY <3>1, <3>2, <3>3
      <3>8. pc'[d] \notin {"revokeAll", "save", "done"} /\ op[d].kind # "refresh"
        BY <3>5, <3>6
      <3>9. QED
        BY <2>0, <3>2, <3>4, <3>7, <3>8
    <2>6. CASE OwnerRead(d)
      <3>1. /\ pc[d] = "owner" /\ Live(work[d].user) /\ account[work[d].user].status = "active"
            /\ work'[d] = [work[d] EXCEPT !.role = account[work[d].user].active]
        BY <2>6 DEF OwnerRead, Goes
      <3>2. work'[d].user = work[d].user /\ op[d].kind = "refresh" /\ work[d].user \in Users
        BY <2>0, <3>1 DEF Work, OnRoute, Control, ControlOf, Found
      <3>3. ~DisabledFor(d, work[d].user)'
        BY <2>1, <2>3, <3>1, <3>2
      <3>4. QED
        BY <2>0, <3>2, <3>3
    <2>7. CASE TokenFound(d)
      <3>1. op[d].kind \in {"refresh", "logout"} /\ pc'[d] = "revokeOne" /\ reply'[d] = "none"
        BY <2>0, <2>7 DEF TokenFound, Goes
      <3>2. QED
        BY <2>0, <3>1 DEF Succeeded
    <2>8. CASE Finished(d)
      <3>1. /\ work'[d].user = work[d].user /\ work'[d].status = "active"
        BY <2>8 DEF Finished, Answers, NoWork
      <3>2. CASE op[d].kind \in {"password", "code"}
        <4>1. pc[d] = "save"
          BY <2>0, <2>8, <3>2 DEF Finished, OnRoute
        <4>2. work[d].status = "active"
          BY <2>0, <3>2, <4>1
        <4>3. v # None => ~DisabledFor(d, v)
          BY <2>0, <2>1, <3>1, <3>2, <4>2
        <4>4. QED
          BY <2>0, <2>1, <2>2, <3>1, <3>2, <4>3
      <3>3. CASE op[d].kind \notin {"password", "code"}
        <4>1. op[d].kind # "refresh"
          BY <2>0, <2>8 DEF Finished, OnRoute, Logins
        <4>2. QED
          BY <2>0, <3>3, <4>1
      <3>4. QED
        BY <3>2, <3>3
    <2>9. CASE RolesLoaded(d)
      <3>1. work'[d].user = work[d].user
        BY <2>0, <2>9 DEF RolesLoaded, Goes, Answers, Work, NoWork
      <3>2. CASE op[d].kind \in {"password", "code"}
        <4>1. work'[d].status = work[d].status /\ pc'[d] \in {"verify", "revokeAll"}
              /\ (op[d].kind = "code" => pc'[d] = "verify")
          BY <2>0, <2>9, <3>2 DEF RolesLoaded, Goes, Work
        <4>2. v # None /\ work[d].status = "active" => ~DisabledFor(d, v)
          BY <2>0, <2>1, <3>1, <3>2
        <4>3. QED
          BY <2>0, <2>1, <2>2, <3>1, <3>2, <4>1, <4>2
      <3>3. CASE op[d].kind = "refresh"
        <4>1. ~DisabledFor(d, v)
          BY <2>0, <2>1, <2>9, <3>1, <3>3 DEF RolesLoaded
        <4>2. QED
          BY <2>0, <2>2, <3>3, <4>1
      <3>4. QED
        BY <2>0, <2>9, <3>2, <3>3 DEF RolesLoaded
    <2>10. CASE \/ Created(d) \/ ContactFree(d) \/ ContactFound(d) \/ PasswordSet(d)
                \/ TokenRevoked(d) \/ Saved(d) \/ RoleFound(d) \/ Granted(d)
      <3>1. op[d].kind \notin {"password", "code"}
        BY <2>0, <2>10 DEF Created, ContactFree, ContactFound, PasswordSet, TokenRevoked, Saved,
           RoleFound, Granted, OnRoute
      <3>2. pc'[d] # "roles" /\ reply'[d] = "none"
        BY <2>0, <2>10 DEF Created, ContactFree, ContactFound, PasswordSet, TokenRevoked, Saved,
           RoleFound, Granted, Goes
      <3>3. QED
        BY <2>0, <3>1, <3>2 DEF Succeeded
    <2>11. CASE CodeFound(d) \/ Consumed(d) \/ AllRevoked(d)
      <3>1. /\ work'[d].user = work[d].user /\ work'[d].status = work[d].status
            /\ pc'[d] # "roles" /\ reply'[d] = "none"
        BY <2>0, <2>11 DEF CodeFound, Consumed, AllRevoked, Goes, Work
      <3>2. op[d].kind = "code" /\ pc'[d] \in {"revokeAll", "save", "done"}
              => work[d].status = "active"
        BY <2>0, <2>11 DEF CodeFound, Consumed, AllRevoked, Goes, Work
      <3>3. op[d].kind \in {"password", "code"} /\ v # None /\ work[d].status = "active"
              => ~DisabledFor(d, v)
        BY <2>0, <2>1, <3>1
      <3>4. QED
        BY <2>0, <2>1, <2>2, <3>1, <3>2, <3>3 DEF Succeeded
    <2>12. QED
      BY <1>3, <2>4, <2>5, <2>6, <2>7, <2>8, <2>9, <2>10, <2>11 DEF Ran
  <1>4. QED
    BY <1>1, <1>2, <1>3, OneMoves DEF Admitted

LEMMA EndedStep ==
    ASSUME TypeOK, Control, Known, Ended, [Next]_vars
    PROVE  Ended'
  <1> SUFFICES ASSUME NEW d \in Calls, op'[d].kind = "delete", reply'[d] = "ok"
               PROVE  account'[op'[d].user].state = "gone"
    BY DEF Ended, Succeeded
  <1>1. Kept(d)
    BY KeptOrBegun
  <1>2. op[d].user \in Users /\ op[d].kind = "delete"
    BY <1>1, AskedUser DEF Kept, OwnKinds
  <1>3. CASE Still(d)
    <2>1. account[op[d].user].state = "gone"
      BY <1>2, <1>3 DEF Still, Ended, Succeeded
    <2>2. QED
      BY <1>1, <1>2, <2>1, RowGoesOn DEF Kept
  <1>4. CASE Ran(d)
    <2>1. Finished(d) /\ OnRoute(d)
      BY <1>2, <1>4, RanKeeps DEF Ran, Created, LookedUp, RolesLoaded, ContactFree, ContactFound,
           CodeFound, Consumed, PasswordSet, TokenFound, TokenRevoked, AllRevoked, Saved,
           OwnerRead, RoleFound, Granted, Stops, Goes, Control, ControlOf
    <2>2. pc[d] = "deleteRow"
      BY <1>2, <2>1 DEF Finished, OnRoute, Logins
    <2>3. account'[op[d].user].state = "gone"
      BY <2>1, <2>2 DEF Finished
    <2>4. QED
      BY <1>1, <2>3 DEF Kept
  <1>5. QED
    BY <1>3, <1>4, OneMoves DEF Begun, Control, ControlOf

LEMMA LiveNotDeleted ==
    ASSUME TypeOK, Control, History, Ended, NEW c \in Calls, NEW u \in Users,
           account[u].state # "gone"
    PROVE  ~DeletedFor(c, u)
  BY DEF DeletedFor, Ended, TypeOK

LEMMA DeletedForHeld ==
    ASSUME TypeOK, Control, History, [Next]_vars, NEW c \in Calls, Kept(c), NEW u,
           ~DeletedFor(c, u)
    PROVE  ~DeletedFor(c, u)'
  <1>1. ASSUME NEW d \in before'[c], op'[d].kind = "delete", reply'[d] = "ok", op'[d].user = u
        PROVE  FALSE
    <2>1. d \in before[c]
      BY DEF Kept
    <2>2. d \in Calls /\ Still(d)
      BY <2>1, BeforeStays
    <2>3. QED
      BY <1>1, <2>1, <2>2 DEF DeletedFor, Still, Succeeded
  <1>2. QED
    BY <1>1 DEF DeletedFor, Succeeded

LEMMA AliveStep ==
    ASSUME TypeOK, Control, History, Known, Ended, Alive, [Next]_vars
    PROVE  Alive'
  <1>0. None \notin Users
    BY AccountsAssumption
  <1> DEFINE Concerned(d) ==
        \/ op[d].kind \in Finders /\ work[d].user # None
        \/ op[d].kind \in {"bind", "delete"} \cup Switches /\ (pc[d] = "setActive" \/ Succeeded(d))
  <1>1. ASSUME NEW d \in Calls, Kept(d), NEW v, v = work'[d].user, ~DeletedFor(d, v)
        PROVE  ~DeletedFor(d, work[d].user)'
    <2>1. ~DeletedFor(d, v)'
      BY <1>1, DeletedForHeld
    <2>2. QED
      BY <1>1, <2>1 DEF DeletedFor
  <1>2. ASSUME NEW d \in Calls, Kept(d), Concerned(d), work'[d].user = work[d].user
        PROVE  ~DeletedFor(d, work[d].user)'
    <2>1. ~DeletedFor(d, work[d].user)
      BY <1>2 DEF Alive
    <2>2. PICK v : v = work[d].user
      OBVIOUS
    <2>3. QED
      BY <1>1, <1>2, <2>1, <2>2
  <1>3. ASSUME NEW d \in Calls, Kept(d), work'[d].user \in Users, Live(work'[d].user)
        PROVE  ~DeletedFor(d, work[d].user)'
    <2>1. PICK v \in Users : v = work'[d].user
      BY <1>3
    <2>2. ~DeletedFor(d, v)
      BY <1>3, <2>1, LiveNotDeleted DEF Live
    <2>3. QED
      BY <1>1, <1>3, <2>1, <2>2
  <1>4. ASSUME NEW d \in Calls, Concerned(d)'
        PROVE  ~DeletedFor(d, work[d].user)'
    <2>1. CASE Still(d)
      <3>1. Concerned(d)
        BY <1>4, <2>1 DEF Still, Succeeded
      <3>2. QED
        BY <1>2, <2>1, <3>1 DEF Still, Kept
    <2>2. CASE Begun(d)
      <3>1. /\ Opens(op'[d], pc'[d]) /\ reply'[d] = "none" /\ account' = account
            /\ work'[d] = [NoWork EXCEPT !.user = op'[d].user, !.target = op'[d].contacts]
        BY <2>2 DEF Begun, NoRowChanges, Control, ControlOf
      <3>2. work'[d].user = op'[d].user
        BY <3>1 DEF NoWork
      <3>3. pc'[d] # "setActive"
        BY <3>1 DEF Opens
      <3>4. op'[d].kind = "register" /\ op'[d].user \in Users
        BY <1>4, <3>1, <3>2, <3>3 DEF Opens, Finders, Succeeded
      <3>5. account'[op'[d].user].state = "absent"
        BY <3>1, <3>4 DEF Opens
      <3>6. ~DeletedFor(d, op[d].user)'
        BY <3>4, <3>5, EndedStep, HistoryStep DEF DeletedFor, Ended, History, Done
      <3>7. QED
        BY <3>2, <3>6 DEF DeletedFor
    <2>3. CASE Ran(d)
      <3>0. /\ op'[d] = op[d] /\ Kept(d) /\ OnRoute(d) /\ Asked(d) /\ Found(d) /\ reply[d] = "none"
            /\ work[d] \in Work /\ pc[d] \notin {"new", "done"}
        BY <2>3, RanKeeps DEF Kept, Control, ControlOf, TypeOK
      <3>1. CASE work'[d].user \in Users /\ Live(work'[d].user)
        BY <1>3, <3>0, <3>1
      <3>2. CASE Stops(d)
        BY <1>4, <3>2, NobodyYet DEF Stops, Succeeded
      <3>3. CASE work'[d].user = work[d].user /\ ~Stops(d)
        <4>1. CASE Concerned(d)
          BY <1>2, <3>0, <3>3, <4>1
        <4>2. CASE ~Concerned(d)
          <5>1. op[d].kind \in {"bind", "delete"} \cup Switches
                /\ (pc'[d] = "setActive" \/ reply'[d] = "ok") /\ pc[d] # "setActive"
            BY <1>4, <3>0, <3>3, <4>2 DEF Succeeded
          <5>2. \/ pc[d] = "setContact" /\ Live(op[d].user)
                \/ pc[d] = "deleteRow" /\ Live(op[d].user)
                \/ pc[d] = "hasRole" /\ op[d].arg \in account[op[d].user].roles
                \/ pc[d] = "grant" /\ Live(op[d].user)
            BY <2>3, <3>0, <3>3, <5>1 DEF Ran, Created, LookedUp, RolesLoaded, ContactFree,
               ContactFound, CodeFound, Consumed, PasswordSet, TokenFound, TokenRevoked, AllRevoked,
               Saved, OwnerRead, RoleFound, Granted, Finished, Goes, OnRoute, Switches, Logins
          <5>3. op[d].user \in Users /\ work[d].user = op[d].user
            BY <1>0, <3>0, <5>1 DEF Asked, Found, OwnKinds, Switches
          <5>4. Live(op[d].user)
            <6>1. PICK u \in Users : u = op[d].user
              BY <5>3
            <6>2. ASSUME ~Live(u) PROVE account[u].roles = {}
              <7>1. PICK now : now = account[u].state
                OBVIOUS
              <7>2. account[u] = [NoAccount EXCEPT !.state = now]
                BY <6>2, <7>1 DEF TypeOK, TablesAgree
              <7>3. QED
                BY <7>2 DEF NoAccount
            <6>3. QED
              BY <5>2, <6>1, <6>2
          <5>5. QED
            BY <1>3, <3>0, <3>3, <5>3, <5>4
        <4>3. QED
          BY <4>1, <4>2
      <3>4. QED
        BY <2>3, <3>1, <3>2, <3>3, UserMoves
    <2>4. QED
      BY <2>1, <2>2, <2>3, OneMoves
  <1>5. QED
    BY <1>4 DEF Alive, Succeeded

-----------------------------------------------------------------------------
(* The role acted in.                                                      *)

\* What a switch finds, keeps to be found until a switch that is not before it.
LEMMA ActiveKeptStep ==
    ASSUME TypeOK, Control, History, Known, ActiveKept, [Next]_vars
    PROVE  ActiveKept'
  <1> SUFFICES ASSUME NEW s \in Calls, op'[s].kind \in Switches, reply'[s] = "ok",
                      account'[op'[s].user].state = "live",
                      \A x \in Calls \ {s} : op'[x].kind \in Switches /\ op'[x].user = op'[s].user
                                                => x \in before'[s]
               PROVE  account'[op'[s].user].active = op'[s].arg
    BY DEF ActiveKept, Live, Succeeded
  <1>1. Kept(s)
    BY KeptOrBegun
  <1>2. PICK u \in Users : u = op[s].user /\ account[u].state # "absent"
    BY <1>1, AskedUser DEF Kept, OwnKinds, Switches
  <1>3. Live(u) /\ account[u] \in Account /\ account'[u].state = "live"
    BY <1>1, <1>2, RowGoesOn DEF Kept, TypeOK
  <1>4. CASE Still(s)
    <2>1. ASSUME NEW x \in Calls \ {s}, op[x].kind \in Switches, op[x].user = u
          PROVE  x \in before[s]
      <3>1. Kept(x)
        BY <2>1, KeptOrBegun DEF NoOp, Switches
      <3>2. QED
        BY <1>1, <1>2, <2>1, <3>1 DEF Kept
    <2>2. account[u].active = op[s].arg
      BY <1>1, <1>2, <1>3, <1>4, <2>1 DEF ActiveKept, Still, Succeeded
    <2>3. ASSUME NEW c \in Calls, Writes(c, u), OnRoute(c), Ran(c)
          PROVE  account'[u].active = op[s].arg
      <3>1. CASE Switched(c, u)
        <4>1. op[c].kind \in Switches /\ op[c].user = u /\ pc[c] = "setActive"
          BY <2>3, <3>1 DEF Switched, OnRoute, Switches
        <4>2. c # s
          BY <1>4, <2>3, RanKeeps DEF Still, Control, ControlOf
        <4>3. c \in before[s]
          BY <2>1, <4>1, <4>2
        <4>4. QED
          BY <4>1, <4>3, BeforeStays
      <3>2. CASE Registers(c, u)
        BY <1>2, <3>2 DEF Registers
      <3>3. CASE Deletes(c, u)
        BY <1>3, <3>3 DEF Deletes, NoAccount
      <3>4. CASE SetsContact(c, u)
        <4>1. PICK new : new = (account[u].contacts \ Channels(c)) \cup op[c].contacts
          OBVIOUS
        <4>2. account'[u] = [account[u] EXCEPT !.contacts = new]
          BY <3>4, <4>1 DEF SetsContact
        <4>3. QED
          BY <1>3, <2>2, <4>2 DEF Account
      <3>5. CASE Grants(c, u)
        <4>1. PICK new : new = account[u].roles \cup {op[c].arg}
          OBVIOUS
        <4>2. account'[u] = [account[u] EXCEPT !.roles = new]
          BY <3>5, <4>1 DEF Grants
        <4>3. QED
          BY <1>3, <2>2, <4>2 DEF Account
      <3>6. CASE SetsPassword(c, u) \/ SetsStatus(c, u)
        BY <1>3, <2>2, <3>6 DEF SetsPassword, SetsStatus, Account
      <3>7. QED
        BY <2>3, <3>1, <3>2, <3>3, <3>4, <3>5, <3>6 DEF Writes
    <2>4. account'[u].active = op[s].arg
      BY <2>2, <2>3, RowCases DEF Fixed
    <2>5. QED
      BY <1>1, <1>2, <2>4 DEF Kept
  <1>5. CASE Ran(s)
    <2>1. Finished(s) /\ OnRoute(s) /\ op[s].kind \in Switches
      BY <1>1, <1>5, RanKeeps DEF Kept, Ran, Created, LookedUp, RolesLoaded, ContactFree,
           ContactFound, CodeFound, Consumed, PasswordSet, TokenFound, TokenRevoked, AllRevoked,
           Saved, Switches,
           OwnerRead, RoleFound, Granted, Stops, Goes, Control, ControlOf, OnRoute
    <2>2. pc[s] = "setActive"
      BY <2>1 DEF Finished, OnRoute, Logins, Switches
    <2>3. account'[op[s].user].active = op[s].arg
      BY <1>2, <1>3, <2>1, <2>2 DEF Finished
    <2>4. QED
      BY <1>1, <2>3 DEF Kept
  <1>6. QED
    BY <1>4, <1>5, OneMoves DEF Begun, Control, ControlOf

LEMMA LastSeenStep ==
    ASSUME TypeOK, Control, History, Known, RolesHeld, ActiveKept, LastSeen, [Next]_vars
    PROVE  LastSeen'
  <1>0. None \notin Users
    BY AccountsAssumption
  <1> SUFFICES ASSUME NEW s \in Calls, NEW c \in Calls, op'[s].kind \in Switches, reply'[s] = "ok",
                      s \in before'[c], HasRead(c)', work'[c].user = op'[s].user,
                      account'[op'[s].user].state = "live",
                      \A x \in Calls \ {s} :
                         (op'[x].kind \in Switches /\ op'[x].user = op'[s].user
                            /\ pc'[x] # "new" /\ c \notin before'[x]) => x \in before'[s]
               PROVE  work'[c].role = op'[s].arg
    BY DEF LastSeen, Live, Succeeded
  <1>1. Kept(c) /\ pc[c] # "new"
    <2>1. ASSUME Begun(c)
          PROVE  FALSE
      <3>1. /\ Opens(op'[c], pc'[c]) /\ reply'[c] = "none"
            /\ work'[c] = [NoWork EXCEPT !.user = op'[c].user, !.target = op'[c].contacts]
        BY <2>1 DEF Begun, Control, ControlOf
      <3>2. work'[c].user = op'[c].user
        BY <3>1 DEF NoWork
      <3>3. QED
        BY <3>1, <3>2 DEF Opens, HasRead, Succeeded
    <2>2. Kept(c)
      BY <2>1, KeptOrBegun
    <2>3. pc[c] # "new"
      BY <2>2 DEF Kept, Control, ControlOf
    <2>4. QED
      BY <2>2, <2>3
  <1>2. s \in before[c] /\ Still(s) /\ pc[s] = "done"
    BY <1>1, BeforeStays DEF Kept
  <1>3. PICK u \in Users : u = op[s].user /\ account[u].state # "absent"
    BY <1>2, AskedUser DEF Still, OwnKinds, Switches
  <1>4. /\ Live(u) /\ account[u].roles \subseteq Roles
        /\ op[s].kind \in Switches /\ Succeeded(s) /\ work'[c].user = u
    BY <1>2, <1>3, RowGoesOn DEF Still, TypeOK, Account, Succeeded
  <1>5. ASSUME NEW x \in Calls \ {s}, op[x].kind \in Switches, op[x].user = u, c \notin before[x]
        PROVE  x \in before[s]
    <2>1. Kept(x) /\ (pc'[x] = "new" <=> pc[x] = "new")
      BY <1>5, KeptOrBegun DEF NoOp, Switches
    <2>2. pc[x] # "new"
      BY <1>5 DEF Control, ControlOf, NoOp, Switches
    <2>3. QED
      BY <1>2, <1>3, <1>5, <2>1, <2>2 DEF Kept, Still
  <1>6. ASSUME HasRead(c), work[c].user = u
        PROVE  work[c].role = op[s].arg
    BY <1>2, <1>3, <1>4, <1>5, <1>6 DEF LastSeen
  <1>7. ASSUME pc[c] # "done"
        PROVE  account[u].active = op[s].arg
    <2>1. \A x \in Calls : c \notin before[x]
      BY <1>7, BeforeStays
    <2>2. QED
      BY <1>3, <1>4, <1>5, <2>1 DEF ActiveKept
  <1>8. op[s].arg \in account[u].roles
    BY <1>3, <1>4 DEF RolesHeld
  <1>9. work'[c].role = op[s].arg
    <2>1. CASE Still(c)
      BY <1>4, <1>6, <2>1 DEF Still, HasRead, Succeeded
    <2>2. CASE Ran(c)
      <3>0. /\ work[c] \in Work /\ OnRoute(c) /\ reply[c] = "none" /\ op'[c] = op[c]
            /\ pc[c] \notin {"new", "done"} /\ u # None
            /\ op[c].kind \in {"password", "code", "refresh"}
        BY <1>0, <2>2, RanKeeps DEF TypeOK, Control, ControlOf, Kept, HasRead
      <3>1. CASE HasRead(c) /\ work'[c].user = work[c].user /\ work'[c].role = work[c].role
        BY <1>4, <1>6, <3>1
      <3>2. CASE LookedUp(c)
        <4>1. PICK v \in Users :
                 work'[c] = [work[c] EXCEPT !.user = v, !.status = account[v].status,
                                            !.role = account[v].active]
          BY <3>2 DEF LookedUp, Goes
        <4>2. work'[c].user = v /\ work'[c].role = account[v].active
          BY <3>0, <4>1 DEF Work
        <4>3. QED
          BY <1>4, <1>7, <3>0, <4>2
      <3>3. CASE OwnerRead(c)
        <4>1. work'[c] = [work[c] EXCEPT !.role = account[work[c].user].active]
          BY <3>3 DEF OwnerRead, Goes
        <4>2. work'[c].user = work[c].user /\ work'[c].role = account[work[c].user].active
          BY <3>0, <4>1 DEF Work
        <4>3. QED
          BY <1>4, <1>7, <3>0, <4>2
      <3>4. CASE RolesLoaded(c)
        <4>1. PICK role \in Roles \cup {""} :
                /\ role = ActiveRole(work[c].role, account[work[c].user].roles)
                /\ work'[c].user = work[c].user /\ work'[c].role = role
          BY <3>0, <3>4 DEF RolesLoaded, Goes, Answers, Work, NoWork
        <4>2. HasRead(c) /\ work[c].user = u
          BY <1>4, <3>0, <3>4, <4>1 DEF HasRead, RolesLoaded
        <4>3. work[c].role = op[s].arg
          BY <1>6, <4>2
        <4>4. QED
          BY <1>8, <4>1, <4>2, <4>3 DEF ActiveRole
      <3>5. CASE Stops(c)
        BY <1>4, <3>0, <3>5, NobodyYet DEF Stops
      <3>6. CASE CodeFound(c) \/ Consumed(c) \/ AllRevoked(c)
        <4>1. work'[c].user = work[c].user /\ work'[c].role = work[c].role
          BY <3>0, <3>6 DEF CodeFound, Consumed, AllRevoked, Goes, Work
        <4>2. op[c].kind \in {"password", "code"}
          BY <3>0, <3>6 DEF CodeFound, Consumed, AllRevoked, OnRoute
        <4>3. HasRead(c)
          BY <1>4, <3>0, <4>1, <4>2 DEF HasRead
        <4>4. QED
          BY <3>1, <4>1, <4>3
      <3>7. CASE Finished(c)
        <4>1. pc[c] = "save" /\ op[c].kind \in {"password", "code"}
          BY <3>0, <3>7 DEF Finished, OnRoute, Logins
        <4>2. work'[c].user = work[c].user /\ work'[c].role = work[c].role
          BY <3>7, <4>1 DEF Finished, Answers, NoWork
        <4>3. HasRead(c)
          BY <1>4, <3>0, <4>1, <4>2 DEF HasRead
        <4>4. QED
          BY <3>1, <4>2, <4>3
      <3>8. CASE \/ Created(c) \/ ContactFree(c) \/ ContactFound(c) \/ PasswordSet(c)
                 \/ TokenFound(c) \/ TokenRevoked(c) \/ Saved(c) \/ RoleFound(c) \/ Granted(c)
        <4>1. op[c].kind = "refresh" /\ pc'[c] # "roles" /\ reply'[c] = "none"
          BY <3>0, <3>8 DEF Created, ContactFree, ContactFound, PasswordSet, TokenFound,
             TokenRevoked, Saved, RoleFound, Granted, Goes, OnRoute
        <4>2. QED
          BY <3>0, <4>1 DEF HasRead, Succeeded
      <3>9. QED
        BY <2>2, <3>2, <3>3, <3>4, <3>5, <3>6, <3>7, <3>8 DEF Ran
    <2>3. QED
      BY <1>1, <2>1, <2>2, OneMoves DEF Begun
  <1>10. QED
    BY <1>2, <1>9 DEF Still

-----------------------------------------------------------------------------
(* A password reset.                                                       *)

LEMMA PasswordFreshStep ==
    ASSUME TypeOK, Control, History, Known, PasswordFresh, [Next]_vars
    PROVE  PasswordFresh'
  <1>0. None \notin Users /\ None \notin Calls
    BY AccountsAssumption
  <1> SUFFICES ASSUME NEW r \in Calls, op'[r].kind = "reset",
                      pc'[r] = "revokeAll" \/ reply'[r] = "ok",
                      account'[work'[r].user].state = "live"
               PROVE  account'[work'[r].user].password \notin before'[r] \cup {None}
    BY DEF PasswordFresh, Live, Succeeded
  <1>1. Kept(r) /\ op[r].kind = "reset" /\ pc[r] # "new"
    <2>1. ~Begun(r)
      BY DEF Begun, Opens, Control, ControlOf
    <2>2. Kept(r)
      BY <2>1, KeptOrBegun
    <2>3. QED
      BY <2>2 DEF Kept, Control, ControlOf, NoOp
  <1>2. CASE PasswordSet(r)
    <2>1. work'[r].user = work[r].user /\ account'[work[r].user].password = r
      BY <1>2 DEF PasswordSet, Goes
    <2>2. r \notin before[r] \cup {None}
      BY <1>0 DEF History
    <2>3. QED
      BY <1>1, <2>1, <2>2 DEF Kept
  <1>3. CASE /\ pc[r] = "revokeAll" \/ Succeeded(r)
             /\ work'[r].user = work[r].user /\ work[r].user \in Users
    <2>1. PICK u \in Users : u = work[r].user
      BY <1>3
    <2>2. pc[r] # "create"
      BY <1>3 DEF Control, ControlOf, Succeeded
    <2>3. account[u].state # "absent" /\ account'[u].state = "live"
      BY <1>3, <2>1, <2>2 DEF Known
    <2>4. Live(u) /\ account[u] \in Account
      BY <2>3, RowGoesOn DEF TypeOK
    <2>5. account[u].password \notin before[r] \cup {None}
      BY <1>1, <1>3, <2>1, <2>4 DEF PasswordFresh
    <2>6. ASSUME NEW c \in Calls, Writes(c, u), Ran(c)
          PROVE  account'[u].password \notin before[r] \cup {None}
      <3>1. CASE SetsPassword(c, u)
        <4>1. account'[u].password = c
          BY <2>4, <3>1 DEF SetsPassword, Account
        <4>2. c \notin before[r]
          BY <2>6, RanKeeps, BeforeStays
        <4>3. QED
          BY <1>0, <4>1, <4>2
      <3>2. CASE Registers(c, u)
        BY <2>3, <3>2 DEF Registers
      <3>3. CASE Deletes(c, u)
        BY <2>3, <3>3 DEF Deletes, NoAccount
      <3>4. CASE SetsContact(c, u)
        <4>1. PICK new : new = (account[u].contacts \ Channels(c)) \cup op[c].contacts
          OBVIOUS
        <4>2. account'[u] = [account[u] EXCEPT !.contacts = new]
          BY <3>4, <4>1 DEF SetsContact
        <4>3. QED
          BY <2>4, <2>5, <4>2 DEF Account
      <3>5. CASE Grants(c, u)
        <4>1. PICK new : new = account[u].roles \cup {op[c].arg}
          OBVIOUS
        <4>2. account'[u] = [account[u] EXCEPT !.roles = new]
          BY <3>5, <4>1 DEF Grants
        <4>3. QED
          BY <2>4, <2>5, <4>2 DEF Account
      <3>6. CASE Switched(c, u) \/ SetsStatus(c, u)
        BY <2>4, <2>5, <3>6 DEF Switched, SetsStatus, Account
      <3>7. QED
        BY <2>6, <3>1, <3>2, <3>3, <3>4, <3>5, <3>6 DEF Writes
    <2>7. account'[u].password \notin before[r] \cup {None}
      BY <2>5, <2>6, RowCases DEF Fixed
    <2>8. QED
      BY <1>1, <1>3, <2>1, <2>7 DEF Kept
  <1>4. CASE Still(r)
    <2>1. pc[r] = "revokeAll" \/ Succeeded(r)
      BY <1>4 DEF Still, Succeeded
    <2>2. work[r].user \in Users
      BY <1>1, <2>1 DEF Control, ControlOf, Found
    <2>3. QED
      BY <1>3, <1>4, <2>1, <2>2 DEF Still
  <1>5. CASE Ran(r)
    <2>1. OnRoute(r) /\ Found(r) /\ reply[r] = "none"
      BY <1>5, RanKeeps DEF Control, ControlOf
    <2>2. PasswordSet(r) \/ (Finished(r) /\ pc[r] = "revokeAll")
      BY <1>1, <1>5, <2>1 DEF Ran, Created, LookedUp, RolesLoaded, ContactFree, ContactFound,
         CodeFound, Consumed, TokenFound, TokenRevoked, AllRevoked, Saved, OwnerRead, RoleFound,
         Granted, Finished, Stops, Goes, Answers, OnRoute, Logins
    <2>3. CASE Finished(r) /\ pc[r] = "revokeAll"
      <3>1. work'[r].user = work[r].user
        BY <2>3 DEF Finished, Answers, NoWork
      <3>2. work[r].user \in Users
        BY <2>1, <2>3 DEF Found
      <3>3. QED
        BY <1>3, <2>3, <3>1, <3>2
    <2>4. QED
      BY <1>2, <2>2, <2>3
  <1>6. QED
    BY <1>1, <1>4, <1>5, OneMoves DEF Begun

LEMMA OldRefusedStep ==
    ASSUME TypeOK, Control, History, Known, PasswordFresh, OldRefused, [Next]_vars
    PROVE  OldRefused'
  <1>0. None \notin Users
    BY AccountsAssumption
  <1> SUFFICES ASSUME NEW r \in Calls, NEW x \in Calls, op'[r].kind = "reset", reply'[r] = "ok",
                      r \in before'[x], op'[x].kind = "password",
                      work'[x].user = work'[r].user, work'[x].user # None
               PROVE  op'[x].arg \notin before'[r] \cup {None}
    BY DEF OldRefused, Succeeded
  <1>1. ASSUME Begun(x)
        PROVE  FALSE
    <2>1. /\ Opens(op'[x], pc'[x])
          /\ work'[x] = [NoWork EXCEPT !.user = op'[x].user, !.target = op'[x].contacts]
      BY <1>1 DEF Begun
    <2>2. work'[x].user = op'[x].user
      BY <2>1 DEF NoWork
    <2>3. QED
      BY <2>1, <2>2 DEF Opens
  <1>2. Kept(x)
    BY <1>1, KeptOrBegun
  <1>3. r \in before[x] /\ Still(r)
    BY <1>2, BeforeStays DEF Kept
  <1>4. op[r].kind = "reset" /\ Succeeded(r) /\ op[x].kind = "password" /\ work'[r] = work[r]
    BY <1>2, <1>3 DEF Kept, Still, Succeeded
  <1>5. op[x].arg \notin before[r] \cup {None}
    <2>1. CASE work'[x].user = work[x].user
      BY <1>3, <1>4, <2>1 DEF OldRefused
    <2>2. CASE work'[x].user # work[x].user
      <3>1. Ran(x)
        BY <1>1, <2>2, OneMoves DEF Still
      <3>2. pc[x] \in {"lookUp", "find"}
        <4>1. Stops(x) => work'[x].user = None
          BY NobodyYet DEF Stops
        <4>2. QED
          BY <2>2, <3>1, <4>1, UserMoves
      <3>3. pc[x] = "lookUp"
        BY <1>4, <3>2 DEF Control, ControlOf, OnRoute
      <3>4. LookedUp(x)
        BY <3>1, <3>3, <2>2, NobodyYet DEF Ran, Created, LookedUp, RolesLoaded, ContactFree,
           ContactFound, CodeFound, Consumed, PasswordSet, TokenFound, TokenRevoked, AllRevoked,
           Saved, OwnerRead, RoleFound, Granted, Finished, Stops
      <3>5. PICK u \in Users :
               /\ Live(u) /\ account[u].password = op[x].arg
               /\ work'[x] = [work[x] EXCEPT !.user = u, !.status = account[u].status,
                                             !.role = account[u].active]
        BY <1>4, <3>4 DEF LookedUp, Goes
      <3>6. work'[x].user = u
        <4>1. work[x] \in Work
          BY DEF TypeOK
        <4>2. QED
          BY <3>5, <4>1 DEF Work
      <3>7. u = work[r].user /\ Live(work[r].user)
        BY <1>4, <3>5, <3>6
      <3>8. account[work[r].user].password \notin before[r] \cup {None}
        BY <1>4, <3>7 DEF PasswordFresh
      <3>9. QED
        BY <3>5, <3>7, <3>8
    <2>3. QED
      BY <2>1, <2>2
  <1>6. QED
    BY <1>2, <1>3, <1>5 DEF Kept, Still

LEMMA LineGrows ==
    ASSUME TypeOK, Control, [Next]_vars, NEW t \in Devices
    PROVE  Line(t) \subseteq Line(t)'
  <1>1. ASSUME NEW x
        PROVE  Parent(x) \subseteq Parent(x)'
    <2>1. CASE x \in Calls
      BY <2>1, KeptOrBegun DEF Parent, Kept, NoOp
    <2>2. CASE x \notin Calls
      BY <2>2 DEF Parent
    <2>3. QED
      BY <2>1, <2>2
  <1>2. ASSUME NEW d \in Line(t), NEW S \in SUBSET Devices, t \in S,
               \A x \in S : Parent(x)' \subseteq S
        PROVE  d \in S
    <2>1. \A x \in S : Parent(x) \subseteq S
      BY <1>1, <1>2
    <2>2. QED
      BY <1>2, <2>1 DEF Line
  <1>3. \A d \in Line(t) : d \in Devices
    BY DEF Line
  <1>4. QED
    BY <1>2, <1>3 DEF Line

LEMMA LineOfParent ==
    ASSUME NEW t \in Devices, NEW p \in Parent(t)
    PROVE  Line(p) \subseteq Line(t)
  <1>1. ASSUME NEW d \in Line(p), NEW S \in SUBSET Devices, t \in S,
               \A x \in S : Parent(x) \subseteq S
        PROVE  d \in S
    BY <1>1 DEF Line
  <1>2. \A d \in Line(p) : d \in Devices
    BY DEF Line
  <1>3. QED
    BY <1>1, <1>2 DEF Line

LEMMA SurvivesStays ==
    ASSUME TypeOK, Control, History, [Next]_vars, NEW r \in Calls, Still(r),
           NEW t \in Devices, Survives(t, r)
    PROVE  Survives(t, r)'
  <1>1. PICK x \in Line(t) \cap Calls : Later(x, r)
    BY DEF Survives
  <1>2. x \in Line(t)'
    BY <1>1, LineGrows
  <1>3. pc[x] # "new"
    BY <1>1 DEF Later, Overlap, Control, ControlOf
  <1>4. Kept(x) /\ pc'[x] # "new"
    BY <1>1, <1>3, KeptOrBegun
  <1>5. Later(x, r)'
    BY <1>1, <1>4 DEF Later, Overlap, Kept, Still
  <1>6. QED
    BY <1>1, <1>2, <1>5 DEF Survives

\* A token that is saved now survives every reset that has returned.
LEMMA SavedSurvives ==
    ASSUME TypeOK, Control, History, SessionsEnd, NEW c \in Calls, NEW r \in Calls,
           op[r].kind = "reset", Succeeded(r), pc[c] = "save", work[c].user = work[r].user
    PROVE  Survives(c, r)
  <1>0. c \in Devices /\ c \in Line(c)
    BY DEF Devices, Line
  <1>1. pc[r] = "done" /\ c # r /\ c \notin before[r]
    BY DEF Succeeded, Control, ControlOf, History, Done
  <1>2. CASE r \notin before[c]
    <2>1. Overlap(c, r)
      BY <1>1, <1>2 DEF Overlap
    <2>2. QED
      BY <1>0, <2>1 DEF Survives, Later
  <1>3. CASE r \in before[c] /\ op[c].kind \in Logins
    BY <1>0, <1>3 DEF Survives, Later
  <1>4. CASE r \in before[c] /\ op[c].kind \notin Logins
    <2>1. op[c].kind = "refresh"
      BY <1>4 DEF Control, ControlOf, OnRoute, Logins
    <2>2. Survives(op[c].arg, r)
      BY <1>4, <2>1 DEF SessionsEnd
    <2>3. op[c].arg \in Parent(c)
      BY <2>1 DEF Parent
    <2>4. Line(op[c].arg) \subseteq Line(c)
      BY <1>0, <2>3, LineOfParent
    <2>5. QED
      BY <2>2, <2>4 DEF Survives
  <1>5. QED
    BY <1>2, <1>3, <1>4

LEMMA SessionsEndStep ==
    ASSUME TypeOK, Control, History, Known, SessionsEnd, [Next]_vars
    PROVE  SessionsEnd'
  <1>1. ASSUME NEW r \in Calls, op'[r].kind = "reset", reply'[r] = "ok", Still(r),
               NEW t \in Devices, token'[t].state = "live", token'[t].user = work'[r].user
        PROVE  Survives(t, r)'
    <2>0. op[r].kind = "reset" /\ Succeeded(r) /\ work'[r].user = work[r].user
      BY <1>1 DEF Still, Succeeded
    <2>1. CASE token'[t] = token[t]
      <3>1. t \in LiveTokens /\ token[t].user = work[r].user
        BY <1>1, <2>0, <2>1 DEF LiveTokens
      <3>2. Survives(t, r)
        BY <2>0, <3>1 DEF SessionsEnd
      <3>3. QED
        BY <1>1, <3>2, SurvivesStays
    <2>2. ASSUME NEW c \in Calls, t = c, pc[c] = "save",
                 token'[t] = [state |-> "live", user |-> work[c].user]
          PROVE  Survives(t, r)'
      <3>1. work[c].user = work[r].user
        BY <1>1, <2>0, <2>2
      <3>2. Survives(c, r)
        BY <2>0, <2>2, <3>1, SavedSurvives
      <3>3. Survives(t, r)
        BY <2>2, <3>2
      <3>4. QED
        BY <1>1, <3>3, SurvivesStays
    <2>3. ASSUME NEW c \in Calls, TokenStep(c, t)
          PROVE  \/ token'[t] = token[t]
                 \/ /\ t = c /\ pc[c] = "save"
                    /\ token'[t] = [state |-> "live", user |-> work[c].user]
      <3>1. token[t] \in Token
        BY DEF TypeOK
      <3>2. QED
        BY <1>1, <2>3, <3>1 DEF TokenStep, NoToken, Token
    <2>4. QED
      BY <2>1, <2>2, <2>3, TableSteps
  <1>2. ASSUME NEW r \in Calls, op'[r].kind = "reset", reply'[r] = "ok", Still(r),
               NEW c \in Calls, op'[c].kind = "refresh", pc'[c] \in {"revokeOne", "save"},
               r \in before'[c], work'[c].user = work'[r].user
        PROVE  Survives(op[c].arg, r)'
    <2>0. op[r].kind = "reset" /\ Succeeded(r) /\ work'[r].user = work[r].user
      BY <1>2 DEF Still, Succeeded
    <2>1. ~Begun(c)
      BY <1>2 DEF Begun, Opens
    <2>2. Kept(c) /\ op[c].kind = "refresh" /\ r \in before[c]
      BY <1>2, <2>1, KeptOrBegun DEF Kept
    <2>3. pc[c] # "new"
      BY <2>2 DEF Control, ControlOf, NoOp
    <2>4. PICK t \in Devices : t = op[c].arg
      BY <2>2, <2>3 DEF Control, ControlOf, Asked
    <2>5. Survives(t, r)
      <3>1. CASE pc[c] \in {"revokeOne", "save"} /\ work[c].user = work'[c].user
        BY <1>2, <2>0, <2>2, <2>4, <3>1 DEF SessionsEnd
      <3>2. CASE TokenFound(c)
        <4>1. /\ token[t].state = "live"
              /\ work'[c] = [work[c] EXCEPT !.user = token[op[c].arg].user]
          BY <2>2, <2>4, <3>2 DEF TokenFound, Goes
        <4>2. work[c] \in Work
          BY <1>2 DEF TypeOK
        <4>3. work'[c].user = token[t].user
          BY <2>4, <4>1, <4>2 DEF Work
        <4>4. t \in LiveTokens /\ token[t].user = work[r].user
          BY <1>2, <2>0, <4>1, <4>3 DEF LiveTokens
        <4>5. QED
          BY <2>0, <4>4 DEF SessionsEnd
      <3>3. CASE Still(c)
        BY <1>2, <3>1, <3>3 DEF Still
      <3>4. CASE TokenRevoked(c)
        BY <1>2, <3>1, <3>4 DEF TokenRevoked, Goes
      <3>5. CASE Ran(c) /\ ~TokenFound(c) /\ ~TokenRevoked(c)
        BY <1>2, <2>2, <3>5 DEF Ran, Created, LookedUp, RolesLoaded, ContactFree, ContactFound,
           CodeFound, Consumed, PasswordSet, AllRevoked, Saved, OwnerRead, RoleFound, Granted,
           Finished, Stops, Goes, Answers, Logins
      <3>6. QED
        BY <2>1, <3>2, <3>3, <3>4, <3>5, OneMoves
    <2>6. Survives(t, r)'
      BY <1>2, <2>5, SurvivesStays
    <2>7. op'[c].arg = t
      BY <2>2, <2>4 DEF Kept
    <2>8. QED
      BY <2>6, <2>7 DEF Survives
  <1>3. ASSUME NEW r \in Calls, op'[r].kind = "reset", reply'[r] = "ok", ~Still(r)
        PROVE  /\ Ran(r) /\ NoneLeft(r) /\ work'[r].user = work[r].user /\ pc[r] # "done"
    <2>1. ~Begun(r)
      BY <1>3 DEF Begun, Control, ControlOf
    <2>2. Ran(r)
      BY <1>3, <2>1, OneMoves
    <2>3. op[r].kind = "reset" /\ OnRoute(r) /\ reply[r] = "none" /\ pc[r] # "done"
      BY <1>3, <2>2, RanKeeps DEF Kept, Control, ControlOf
    <2>4. Finished(r) /\ pc[r] = "revokeAll"
      BY <1>3, <2>2, <2>3 DEF Ran, Created, LookedUp, RolesLoaded, ContactFree, ContactFound,
         CodeFound, Consumed, PasswordSet, TokenFound, TokenRevoked, AllRevoked, Saved, OwnerRead,
         RoleFound, Granted, Finished, Stops, Goes, Answers, OnRoute, Logins
    <2>5. NoneLeft(r) /\ Answers(r, work[r].role)
      BY <2>3, <2>4 DEF Finished, Logins
    <2>6. QED
      BY <2>2, <2>3, <2>5 DEF Answers, NoWork
  <1>4. ASSUME NEW r \in Calls, op'[r].kind = "reset", reply'[r] = "ok"
        PROVE  /\ \A t \in LiveTokens' : token'[t].user = work'[r].user => Survives(t, r)'
               /\ \A c \in Calls : (/\ op'[c].kind = "refresh" /\ pc'[c] \in {"revokeOne", "save"}
                                    /\ r \in before'[c] /\ work'[c].user = work'[r].user)
                                    => Survives(op[c].arg, r)'
    <2>1. CASE Still(r)
      BY <1>1, <1>2, <1>4, <2>1 DEF LiveTokens
    <2>2. CASE ~Still(r)
      <3>1. Ran(r) /\ NoneLeft(r) /\ work'[r].user = work[r].user /\ pc[r] # "done"
        BY <1>3, <1>4, <2>2
      <3>2. \A t \in LiveTokens' : token'[t].user # work'[r].user
        BY <3>1 DEF NoneLeft, LiveTokens
      <3>3. ASSUME NEW c \in Calls, r \in before'[c], op'[c].kind = "refresh",
                   pc'[c] \in {"revokeOne", "save"}
            PROVE  FALSE
        <4>1. ~Begun(c)
          BY <3>3 DEF Begun, Opens
        <4>2. r \in before[c]
          BY <3>3, <4>1, KeptOrBegun DEF Kept
        <4>3. QED
          BY <3>1, <4>2, BeforeStays
      <3>4. QED
        BY <3>2, <3>3
    <2>3. QED
      BY <2>1, <2>2
  <1>5. QED
    BY <1>4 DEF SessionsEnd, Succeeded

-----------------------------------------------------------------------------
(* The invariant holds, and what follows from it.                          *)

\* The accounts a run begins with.
FirstAccounts ==
    [state : {"live"}, contacts : {{k} : k \in Contacts}, password : {None},
     status : {"active"}, roles : {{"student"}}, active : {"student", ""}]

LEMMA InitInv == Init => IInv
  <1> SUFFICES ASSUME Init PROVE IInv
    OBVIOUS
  <1>0. None \notin Users /\ None \notin Calls /\ "password" \in AllKinds \ OwnKinds
    BY AccountsAssumption DEF AllKinds, Logins, OwnKinds
  <1>1. \A c \in Calls : /\ pc[c] = "new" /\ op[c] = NoOp /\ work[c] = NoWork
                         /\ reply[c] = "none" /\ before[c] = {}
    BY DEF Init
  <1>2. /\ NoOp.kind = "password" /\ NoOp.user = None
        /\ NoWork.user = None /\ NoWork.status = "active"
    BY DEF NoOp, NoWork
  <1>3. TypeOK
    <2>1. account \in [Users -> Account]
      <3>1. NoAccount \in Account
        BY DEF NoAccount, Account, Passwords
      <3>2. FirstAccounts \subseteq Account
        BY DEF FirstAccounts, Account, Passwords, Roles
      <3>3. account \in [Users -> {NoAccount} \cup FirstAccounts]
        BY DEF Init, FirstAccounts
      <3>4. QED
        BY <3>1, <3>2, <3>3
    <2>2. token \in [Devices -> Token]
      <3>1. NoToken \in Token /\ [state : {"live"}, user : Users] \subseteq Token
        BY DEF NoToken, Token
      <3>2. token \in [Devices -> {NoToken} \cup [state : {"live"}, user : Users]]
        BY DEF Init
      <3>3. QED
        BY <3>1, <3>2
    <2>3. codes \in Seq(Code)
      BY SentAssumption DEF Init
    <2>4. NoOp \in Op
      BY <1>0 DEF NoOp, Op
    <2>5. /\ pc \in [Calls -> Running \cup {"new", "done"}] /\ op \in [Calls -> Op]
          /\ work \in [Calls -> Work] /\ reply \in [Calls -> Replies]
          /\ before \in [Calls -> SUBSET Calls]
      BY <2>4, NoWorkTyped DEF Init, Replies
    <2>6. TablesAgree
      <3>1. \A k \in Contacts : \A u, v \in HoldersOf(k) : u = v
        BY DEF Init, HoldersOf
      <3>2. ASSUME NEW u \in Users
            PROVE  RowFits(u)
        <4>1. CASE account[u] = NoAccount
          <5>1. NoAccount \in Account /\ NoAccount.state = "absent"
            BY DEF NoAccount, Account, Passwords
          <5>2. NoAccount = [NoAccount EXCEPT !.state = NoAccount.state]
            BY <5>1 DEF Account
          <5>3. QED
            BY <4>1, <5>1, <5>2 DEF RowFits, Live
        <4>2. CASE account[u] \in FirstAccounts
          <5>1. PICK k \in Contacts : account[u].contacts = {k}
            BY <4>2 DEF FirstAccounts
          <5>2. account[u].contacts \in OneOrBoth
            BY <5>1 DEF OneOrBoth
          <5>3. /\ account[u].state = "live" /\ account[u].roles = {"student"}
                /\ account[u].active \in {"student", ""}
            BY <4>2 DEF FirstAccounts
          <5>4. QED
            BY <5>2, <5>3 DEF RowFits, Live
        <4>3. QED
          BY <4>1, <4>2 DEF Init, FirstAccounts
      <3>3. ASSUME NEW t \in Devices
            PROVE  token[t].state # "absent" <=> token[t].user # None
        <4>1. CASE token[t] = NoToken
          BY <4>1 DEF NoToken
        <4>2. CASE token[t] \in [state : {"live"}, user : Users]
          BY <1>0, <4>2
        <4>3. QED
          BY <4>1, <4>2 DEF Init
      <3>4. \A t \in LiveTokens : Live(token[t].user)
        BY DEF Init
      <3>5. QED
        BY <3>1, <3>2, <3>3, <3>4 DEF TablesAgree, RowFits
    <2>7. QED
      BY <2>1, <2>2, <2>3, <2>5, <2>6 DEF TypeOK
  <1>4. Control
    BY <1>1 DEF Control, ControlOf
  <1>5. History
    BY <1>1 DEF History
  <1>6. Known
    BY <1>0, <1>1, <1>2 DEF Known, OwnKinds
  <1>7. RolesHeld
    BY <1>1, <1>2 DEF RolesHeld, Settled, Signed, Succeeded
  <1>8. StatusKept /\ Ended /\ ActiveKept /\ PasswordFresh /\ OldRefused /\ SessionsEnd
    BY <1>1 DEF StatusKept, LastDisabled, Ended, ActiveKept, PasswordFresh, OldRefused,
                SessionsEnd, Succeeded
  <1>9. Admitted
    BY <1>1, <1>2 DEF Admitted, Succeeded
  <1>10. Alive
    BY <1>1, <1>2 DEF Alive, Succeeded, Finders, Switches
  <1>11. LastSeen
    BY <1>1 DEF LastSeen
  <1>12. QED
    BY <1>3, <1>4, <1>5, <1>6, <1>7, <1>8, <1>9, <1>10, <1>11 DEF IInv

LEMMA Step == IInv /\ [Next]_vars => IInv'
  BY TypeStep, ControlStep, HistoryStep, KnownStep, RolesHeldStep, StatusKeptStep, AdmittedStep,
     EndedStep, AliveStep, ActiveKeptStep, LastSeenStep, PasswordFreshStep, OldRefusedStep,
     SessionsEndStep DEF IInv

\* Every reachable state satisfies the invariant: the facts about the calls that the
\* handlers of service.go rely on between their statements.
THEOREM Invariance == Spec => []IInv
  BY InitInv, Step, PTL DEF Spec

\* The tables agree and all locals have their types: the type invariant of the runs.
THEOREM TypeCorrect == Spec => []TypeOK
  <1>1. IInv => TypeOK
    BY DEF IInv
  <1>2. QED
    BY <1>1, Invariance, PTL

LEMMA ResetIsFinalHolds == IInv => ResetIsFinal
  <1> SUFFICES ASSUME IInv, NEW r \in Calls, op[r].kind = "reset", Succeeded(r)
               PROVE  /\ \A t \in LiveTokens : token[t].user = work[r].user =>
                            \E x \in Line(t) \cap Calls :
                               Overlap(x, r) \/ (op[x].kind \in Logins /\ r \in before[x])
                      /\ \A x \in Calls :
                            (op[x].kind = "password" /\ Succeeded(x) /\ r \in before[x]
                               /\ work[x].user = work[r].user)
                            => op[x].arg \notin before[r] \cup {None}
    BY DEF ResetIsFinal
  <1>1. \A t \in LiveTokens : token[t].user = work[r].user => Survives(t, r)
    BY DEF IInv, SessionsEnd
  <1>2. ASSUME NEW x \in Calls, op[x].kind = "password", Succeeded(x), r \in before[x],
               work[x].user = work[r].user
        PROVE  op[x].arg \notin before[r] \cup {None}
    <2>1. work[x].user # None
      BY <1>2, AccountsAssumption DEF IInv, Control, ControlOf, Found, Succeeded
    <2>2. QED
      BY <1>2, <2>1 DEF IInv, OldRefused
  <1>3. QED
    BY <1>1, <1>2 DEF Survives, Later

\* A password reset that has succeeded ends the sessions and the passwords of before
\* (service.go:245-286), whatever else the server is doing for the account.
THEOREM ResetFinal == Spec => []ResetIsFinal
  BY ResetIsFinalHolds, Invariance, PTL

\* An access token names a role its user has (service.go:334-363, 384-419).
THEOREM RolesAreHeld == Spec => []RoleIsHeld
  <1>1. ASSUME IInv, NEW c \in Signed, Live(work[c].user)
        PROVE  work[c].role \in account[work[c].user].roles
    <2>1. c \in Calls /\ Settled(c)
      BY DEF Settled, Signed
    <2>2. QED
      BY <1>1, <2>1 DEF IInv, RolesHeld
  <1>2. IInv => RoleIsHeld
    BY <1>1 DEF RoleIsHeld
  <1>3. QED
    BY <1>2, Invariance, PTL

LEMMA LastSwitchHolds == IInv => LastSwitchWins
  <1> SUFFICES ASSUME IInv, NEW s \in Calls, NEW c \in Calls, op[s].kind \in {"switch", "addRole"},
                      Succeeded(s), s \in before[c],
                      op[c].kind \in {"password", "code", "refresh"}, Succeeded(c),
                      work[c].user = op[s].user, Live(op[s].user),
                      \A x \in Calls \ {s} :
                         (op[x].kind \in {"switch", "addRole"} /\ op[x].user = op[s].user
                            /\ pc[x] # "new" /\ c \notin before[x]) => x \in before[s]
               PROVE  work[c].role = op[s].arg
    BY DEF LastSwitchWins
  <1>1. work[c].user # None
    BY AccountsAssumption DEF IInv, Control, ControlOf, Found, Succeeded
  <1>2. HasRead(c)
    BY <1>1 DEF HasRead
  <1>3. QED
    BY <1>2 DEF IInv, LastSeen, Switches

\* The role switched to last is the one later logins and refreshes act in
\* (service.go:357-362, 413-414).
THEOREM LastSwitch == Spec => []LastSwitchWins
  BY LastSwitchHolds, Invariance, PTL

LEMMA DisabledOutHolds == IInv => DisabledStayOut
  <1> SUFFICES ASSUME IInv, NEW c \in Held, op[c].kind # "register"
               PROVE  ~DisabledBefore(c)
    BY DEF DisabledStayOut
  <1>1. c \in Calls /\ Succeeded(c) /\ op[c].kind \in {"password", "code", "refresh"}
    BY DEF Held, Logins
  <1>2. pc[c] = "done" /\ work[c].user # None
    BY <1>1, AccountsAssumption DEF IInv, Control, ControlOf, Found, Succeeded
  <1>3. ~DisabledFor(c, work[c].user)
    BY <1>1, <1>2 DEF IInv, Admitted
  <1>4. ASSUME NEW d \in before[c], op[d].kind = "disable", Succeeded(d), op[d].user = work[c].user,
               \A e \in Calls : op[e].kind = "enable" /\ op[e].user = op[d].user
                                    => e \in before[d] \/ pc[e] = "new"
        PROVE  FALSE
    BY <1>3, <1>4 DEF DisabledFor, LastDisabled
  <1>5. QED
    BY <1>4 DEF DisabledBefore

\* A disabled account gets no session, by a login or by a refresh token it still has
\* (service.go:197-202, 228-231, 373-378).
THEOREM DisabledOut == Spec => []DisabledStayOut
  BY DisabledOutHolds, Invariance, PTL

LEMMA DeletedOutHolds == IInv => DeletedStayOut
  <1> SUFFICES ASSUME IInv, NEW c \in Calls, NEW d \in Calls, op[d].kind = "delete", Succeeded(d),
                      d \in before[c], Succeeded(c), work[c].user = op[d].user
               PROVE  op[c].kind \in {"logout", "logoutAll", "disable", "enable", "send"}
    BY DEF DeletedStayOut
  <1>1. work[c].user \in Users /\ work[c].user # None
    BY AccountsAssumption DEF IInv, Control, ControlOf, Asked, OwnKinds, Succeeded
  <1>2. DeletedFor(c, work[c].user)
    BY DEF DeletedFor
  <1>3. op[c].kind \notin Finders \cup {"bind", "delete"} \cup Switches
    BY <1>1, <1>2 DEF IInv, Alive
  <1>4. op[c].kind \in AllKinds
    BY DEF IInv, TypeOK, Op
  <1>5. QED
    BY <1>3, <1>4 DEF Finders, Switches, AllKinds, Logins

\* Nothing that begins after an account is deleted signs its user in or changes it
\* (service.go:321-331).
THEOREM DeletedOut == Spec => []DeletedStayOut
  BY DeletedOutHolds, Invariance, PTL

\* An account gets a contact, a password or its end only from a call that was given a code
\* sent for that very purpose (service.go:245-331, repository.go:129-147).
LEMMA ChangesProvenStep ==
    ASSUME TypeOK, Control, Known, [Next]_vars, NEW u \in Users, Live(u),
           account'[u] # account[u], NEW c \in Calls, pc'[c] # pc[c]
    PROVE  /\ account'[u].contacts # account[u].contacts /\ account'[u].state = "live" =>
                   /\ op[c].kind = "bind" /\ op[c].user = u
                   /\ Proven(c, account'[u].contacts \ account[u].contacts, "contact_bind")
           /\ account'[u].password # account[u].password /\ account'[u].state = "live" =>
                   op[c].kind = "reset" /\ Proven(c, op[c].contacts, "password_reset")
           /\ account'[u].state = "gone" =>
                   /\ op[c].kind = "delete" /\ op[c].user = u
                   /\ Proven(c, work[c].target, "account_deletion")
  <1>1. PICK d \in Calls : Ran(d) /\ Alone(d) /\ Writes(d, u) /\ OnRoute(d)
    BY RowCases DEF Fixed
  <1>2. c = d /\ Writes(c, u) /\ OnRoute(c)
    BY <1>1 DEF Alone, Still
  <1>3. account[u] \in Account /\ Asked(c) /\ Verified(c) /\ pc[c] \notin {"new", "done"}
    BY <1>1, <1>2, RanKeeps DEF TypeOK, Control, ControlOf
  <1>4. CASE SetsContact(c, u)
    <2>1. op[c].kind = "bind" /\ op[c].user = u /\ pc[c] = "setContact"
      BY <1>2, <1>4 DEF SetsContact, OnRoute
    <2>2. PICK k \in Contacts : op[c].contacts = {k}
      BY <1>3, <2>1 DEF Asked
    <2>3. work[c].code.purpose = "contact_bind" /\ work[c].code.contact = k
      BY <1>3, <2>1, <2>2 DEF Verified, PurposeOf
    <2>4. PICK new : new = (account[u].contacts \ Channels(c)) \cup op[c].contacts
      OBVIOUS
    <2>5. account'[u] = [account[u] EXCEPT !.contacts = new]
      BY <1>4, <2>4 DEF SetsContact
    <2>6. /\ account'[u].contacts = new /\ account'[u].password = account[u].password
          /\ account'[u].state = "live"
      BY <1>3, <2>5 DEF Account, Live
    <2>7. account'[u].contacts \ account[u].contacts \subseteq {k}
      BY <2>2, <2>4, <2>6
    <2>8. Proven(c, account'[u].contacts \ account[u].contacts, "contact_bind")
      BY <2>3, <2>7 DEF Proven
    <2>9. QED
      BY <2>1, <2>6, <2>8
  <1>5. CASE SetsPassword(c, u)
    <2>1. op[c].kind = "reset" /\ pc[c] = "setPassword"
      BY <1>2, <1>5 DEF SetsPassword, OnRoute
    <2>2. PICK k \in Contacts : op[c].contacts = {k}
      BY <1>3, <2>1 DEF Asked
    <2>3. work[c].code.purpose = "password_reset" /\ work[c].code.contact = k
      BY <1>3, <2>1, <2>2 DEF Verified, PurposeOf
    <2>4. Proven(c, op[c].contacts, "password_reset")
      BY <2>2, <2>3 DEF Proven
    <2>5. account'[u].contacts = account[u].contacts /\ account'[u].state = "live"
      BY <1>3, <1>5 DEF SetsPassword, Account, Live
    <2>6. QED
      BY <2>1, <2>4, <2>5
  <1>6. CASE Deletes(c, u)
    <2>1. op[c].kind = "delete" /\ op[c].user = u /\ pc[c] = "deleteRow"
      BY <1>2, <1>6 DEF Deletes, OnRoute
    <2>2. PICK k \in Contacts : work[c].target = {k}
      BY <1>3, <2>1 DEF Verified
    <2>3. work[c].code.purpose = "account_deletion" /\ work[c].code.contact = k
      BY <1>3, <2>1, <2>2 DEF Verified, PurposeOf
    <2>4. Proven(c, work[c].target, "account_deletion")
      BY <2>2, <2>3 DEF Proven
    <2>5. account'[u].state = "gone"
      BY <1>6 DEF Deletes, NoAccount
    <2>6. QED
      BY <2>1, <2>4, <2>5
  <1>7. CASE Grants(c, u)
    <2>1. PICK new : new = account[u].roles \cup {op[c].arg}
      OBVIOUS
    <2>2. account'[u] = [account[u] EXCEPT !.roles = new]
      BY <1>7, <2>1 DEF Grants
    <2>3. /\ account'[u].contacts = account[u].contacts /\ account'[u].state = "live"
          /\ account'[u].password = account[u].password
      BY <1>3, <2>2 DEF Account, Live
    <2>4. QED
      BY <2>3
  <1>8. CASE Switched(c, u) \/ SetsStatus(c, u)
    <2>1. /\ account'[u].contacts = account[u].contacts /\ account'[u].state = "live"
          /\ account'[u].password = account[u].password
      BY <1>3, <1>8 DEF Switched, SetsStatus, Account, Live
    <2>2. QED
      BY <2>1
  <1>9. CASE Registers(c, u)
    BY <1>9 DEF Registers, Live
  <1>10. QED
    BY <1>2, <1>4, <1>5, <1>6, <1>7, <1>8, <1>9 DEF Writes

\* The change is made with a code that was sent for it, whatever runs beside it.
THEOREM ChangesProven == Spec => ChangesAreProven
  <1>1. ASSUME IInv, [Next]_vars
        PROVE  \A u \in Users : Live(u) /\ account'[u] # account[u] =>
                 \A c \in Calls : pc'[c] # pc[c] =>
                   /\ account'[u].contacts # account[u].contacts /\ account'[u].state = "live" =>
                         /\ op[c].kind = "bind" /\ op[c].user = u
                         /\ Proven(c, account'[u].contacts \ account[u].contacts, "contact_bind")
                   /\ account'[u].password # account[u].password /\ account'[u].state = "live" =>
                         op[c].kind = "reset" /\ Proven(c, op[c].contacts, "password_reset")
                   /\ account'[u].state = "gone" =>
                         /\ op[c].kind = "delete" /\ op[c].user = u
                         /\ Proven(c, work[c].target, "account_deletion")
    BY <1>1, ChangesProvenStep DEF IInv
  <1>2. QED
    BY <1>1, Invariance, PTL DEF Spec, ChangesAreProven

=============================================================================
