----------------------------- MODULE AdminGuard -----------------------------
(***************************************************************************)
(* The accounts of the back office: internal/admin/service.go and          *)
(* repository.go on the admins table (migration 000010).                   *)
(*                                                                         *)
(* Disabling an account runs in a transaction that holds an advisory lock  *)
(* from its first statement to its end, so that two disables cannot each   *)
(* see the other's super_admin still active.  Enabling, creating, seeding  *)
(* and logging in take no part in that lock.  Accounts are told apart by   *)
(* their phone, which is unique; there is no operation that deletes one.   *)
(***************************************************************************)
EXTENDS Integers

CONSTANTS
    Calls,      \* requests and runs of cmd/seed, each made once
    Accounts,   \* phones an admin account may have
    None        \* no account

ASSUME AdminAssumption == None \notin Accounts

VARIABLES
    account,    \* committed rows of the admins table, by phone
    claims,     \* accounts an access token with the level super_admin was made for
    pc,         \* the statement each call executes next
    op,         \* what each call was asked
    seen,       \* the row a login or a seed has read
    reply       \* what each call returned

vars == <<account, claims, pc, op, seen, reply>>

-----------------------------------------------------------------------------
Levels == {"admin", "super_admin"}
Row == [level : Levels, status : {"active", "disabled"}]
NoRow == [level |-> "none", status |-> "none"]

Super == [level |-> "super_admin", status |-> "active"]
ActiveSupers == {a \in Accounts : account[a] = Super}

Kinds == {"login", "create", "enable", "disable", "seed"}
Op == [kind : Kinds, account : Accounts \cup {None}, level : Levels]
NoOp == [kind |-> "login", account |-> None, level |-> "admin"]

Replies == {"none", "ok", "refused", "notFound", "taken", "lastSuperAdmin", "failed"}
Running == {"read", "issue", "insert", "enable", "lock", "check", "update", "commit",
            "setLevel", "setActive"}

\* The advisory lock, and the row lock, of a transaction that disables an account.
HoldsGuard(d) == pc[d] \in {"check", "update", "commit"}
HoldsRow(d, a) == pc[d] = "commit" /\ op[d].account = a

GuardFree(c) == \A d \in Calls \ {c} : ~HoldsGuard(d)
RowFree(c, a) == \A d \in Calls \ {c} : ~HoldsRow(d, a)

\* Any table: accounts may have been there before the first super_admin was seeded.
Init ==
    /\ account \in [Accounts -> Row \cup {NoRow}]
    /\ claims = {}
    /\ pc = [c \in Calls |-> "new"]
    /\ op = [c \in Calls |-> NoOp]
    /\ seen = [c \in Calls |-> NoRow]
    /\ reply = [c \in Calls |-> "none"]

-----------------------------------------------------------------------------
Goto(c, label) == pc' = [pc EXCEPT ![c] = label] /\ UNCHANGED reply

\* The call returns; a transaction it had open ends, and its locks with it.
Return(c, r) == pc' = [pc EXCEPT ![c] = "done"] /\ reply' = [reply EXCEPT ![c] = r]

\* A statement has been executed, but its acknowledgement may be lost.
Executed(c, next) == next \/ Return(c, "failed")

Begin(c, kind, a, l, label) ==
    /\ pc[c] = "new"
    /\ op' = [op EXCEPT ![c] = [kind |-> kind, account |-> a, level |-> l]]
    /\ Goto(c, label)
    /\ UNCHANGED <<account, claims, seen>>

\* Login and Refresh: both read the row, refuse a disabled account and make an access
\* token with the level they have read.
BeginLogin(c, a) == Begin(c, "login", a, "admin", "read")

\* The routes behind RequireSuperAdmin look at the level in the access token, not at
\* the table: whoever holds such a token may by now be disabled.
BeginCreate(c, a, l) == claims # {} /\ Begin(c, "create", a, l, "insert")
BeginEnable(c, a) == claims # {} /\ Begin(c, "enable", a, "admin", "enable")
BeginDisable(c, a) == claims # {} /\ Begin(c, "disable", a, "admin", "lock")

\* cmd/seed runs SeedSuperAdmin from a shell.
BeginSeed(c, a) == Begin(c, "seed", a, "super_admin", "read")

\* Broken: a seed takes any super_admin for a usable one.
Read_SeedStops(c) ==
    LET row == account[op[c].account] IN
    /\ pc[c] = "read"
    /\ seen' = [seen EXCEPT ![c] = row]
    /\ \/ /\ op[c].kind = "login"
          /\ IF row = NoRow \/ row.status = "disabled"
             THEN Return(c, "refused") ELSE Goto(c, "issue")
       \/ /\ op[c].kind = "seed"
          /\ IF row = NoRow THEN Goto(c, "insert")
             ELSE IF row.level # "super_admin" THEN Goto(c, "setLevel")
             ELSE Return(c, "ok")
    /\ UNCHANGED <<account, claims, op>>

\* GetByPhone in Login and in SeedSuperAdmin, with the branches on what it found.
Read(c) ==
    LET row == account[op[c].account] IN
    /\ pc[c] = "read"
    /\ seen' = [seen EXCEPT ![c] = row]
    /\ \/ /\ op[c].kind = "login"
          /\ IF row = NoRow \/ row.status = "disabled"
             THEN Return(c, "refused") ELSE Goto(c, "issue")
       \/ /\ op[c].kind = "seed"
          /\ IF row = NoRow THEN Goto(c, "insert")
             ELSE IF row.level # "super_admin" THEN Goto(c, "setLevel")
             ELSE IF row.status # "active" THEN Goto(c, "setActive")
             ELSE Return(c, "ok")
    /\ UNCHANGED <<account, claims, op>>

\* The access token is returned once the refresh token is stored.
Issue(c) ==
    /\ pc[c] = "issue"
    /\ claims' = IF seen[c].level = "super_admin" THEN claims \cup {op[c].account} ELSE claims
    /\ Return(c, "ok")
    /\ UNCHANGED <<account, op, seen>>

\* Broken: an empty level is not replaced by its default.
Insert_NoLevel(c) ==
    /\ pc[c] = "insert"
    /\ account[op[c].account] = NoRow
    /\ account' = [account EXCEPT ![op[c].account] = [level |-> "", status |-> "active"]]
    /\ Return(c, "ok")
    /\ UNCHANGED <<claims, op, seen>>

\* Create: the unique index on phone decides.
Insert(c) ==
    LET a == op[c].account IN
    /\ pc[c] = "insert"
    /\ IF account[a] = NoRow
       THEN /\ account' = [account EXCEPT ![a] = [level |-> op[c].level, status |-> "active"]]
            /\ Executed(c, Return(c, "ok"))
       ELSE Return(c, "taken") /\ UNCHANGED account
    /\ UNCHANGED <<claims, op, seen>>

\* SetStatus(active): one UPDATE, which waits for a disable that has the row locked.
EnableRow(c) ==
    LET a == op[c].account IN
    /\ pc[c] \in {"enable", "setActive"}
    /\ RowFree(c, a)
    /\ IF account[a] = NoRow
       THEN Return(c, "notFound") /\ UNCHANGED account
       ELSE /\ account' = [account EXCEPT ![a].status = "active"]
            /\ Executed(c, Return(c, "ok"))
    /\ UNCHANGED <<claims, op, seen>>

\* SetLevel(super_admin), after which the seed looks at the status it has read.
SetLevel(c) ==
    LET a == op[c].account IN
    /\ pc[c] = "setLevel"
    /\ RowFree(c, a)
    /\ account' = [account EXCEPT ![a].level = "super_admin"]
    /\ Executed(c, IF seen[c].status = "active" THEN Return(c, "ok") ELSE Goto(c, "setActive"))
    /\ UNCHANGED <<claims, op, seen>>

\* SetStatus(disabled): pg_advisory_xact_lock.
TakeGuard(c) ==
    /\ pc[c] = "lock"
    /\ GuardFree(c)
    /\ Goto(c, "check")
    /\ UNCHANGED <<account, claims, op, seen>>

\* Broken: nobody asks whether it is the last one.
CheckLast_NotAsked(c) ==
    /\ pc[c] = "check"
    /\ IF account[op[c].account] = NoRow THEN Return(c, "notFound") ELSE Goto(c, "update")
    /\ UNCHANGED <<account, claims, op, seen>>

\* Broken: disabled super_admins are counted too.
CheckLast_AnySuper(c) ==
    LET a == op[c].account IN
    /\ pc[c] = "check"
    /\ IF account[a] = NoRow THEN Return(c, "notFound")
       ELSE IF \A b \in Accounts \ {a} : account[b].level # "super_admin"
       THEN Return(c, "lastSuperAdmin")
       ELSE Goto(c, "update")
    /\ UNCHANGED <<account, claims, op, seen>>

\* Is it the only active super_admin?  The statement has a snapshot of its own, taken
\* after the lock was granted.
CheckLast(c) ==
    LET a == op[c].account IN
    /\ pc[c] = "check"
    /\ IF account[a] = NoRow THEN Return(c, "notFound")
       ELSE IF ActiveSupers = {a} THEN Return(c, "lastSuperAdmin")
       ELSE Goto(c, "update")
    /\ UNCHANGED <<account, claims, op, seen>>

\* The UPDATE of the status: seen by nobody until the transaction commits.
UpdateStatus(c) ==
    /\ pc[c] = "update"
    /\ RowFree(c, op[c].account)
    /\ Goto(c, "commit")
    /\ UNCHANGED <<account, claims, op, seen>>

CommitDisable(c) ==
    /\ pc[c] = "commit"
    /\ account' = [account EXCEPT ![op[c].account].status = "disabled"]
    /\ Executed(c, Return(c, "ok"))
    /\ UNCHANGED <<claims, op, seen>>

\* A statement is not executed: a database error, a cancelled request, a crash.  The
\* transaction, if there is one, is rolled back.
Fail(c) ==
    /\ pc[c] \in Running
    /\ Return(c, "failed")
    /\ UNCHANGED <<account, claims, op, seen>>

Start(c) ==
    \E a \in Accounts :
        \/ BeginLogin(c, a) \/ BeginSeed(c, a)
        \/ BeginEnable(c, a) \/ BeginDisable(c, a)
        \/ \E l \in Levels : BeginCreate(c, a, l)

Advance(c) ==
    \/ Read(c) \/ Issue(c) \/ Insert(c) \/ EnableRow(c) \/ SetLevel(c)
    \/ TakeGuard(c) \/ CheckLast(c) \/ UpdateStatus(c) \/ CommitDisable(c)

AllDone == (\A c \in Calls : pc[c] = "done") /\ UNCHANGED vars

Next == (\E c \in Calls : Start(c) \/ Advance(c) \/ Fail(c)) \/ AllDone

Spec == Init /\ [][Next]_vars

-----------------------------------------------------------------------------
(* Properties.                                                             *)

TypeOK ==
    /\ account \in [Accounts -> Row \cup {NoRow}]
    /\ claims \subseteq Accounts
    /\ pc \in [Calls -> Running \cup {"new", "done"}]
    /\ op \in [Calls -> Op]
    /\ seen \in [Calls -> Row \cup {NoRow}]
    /\ reply \in [Calls -> Replies]

\* Once the back office has had an active super_admin it always has one, whatever
\* disables, logins and seeds run at once and wherever they fail
\* (repository.go:134-140, 161-165).
NeverLockedOut == [][ActiveSupers # {} => ActiveSupers' # {}]_vars

(* What the control state says of a call: the rows it works on are there (no account is
   ever deleted), and a seed has promoted its account before it enables it. *)
ControlOf(c) ==
    LET a == op[c].account IN
    /\ pc[c] # "done" => reply[c] = "none"
    /\ pc[c] # "new" => a \in Accounts
    /\ pc[c] = "issue" => op[c].kind = "login" /\ seen[c] \in Row
    /\ pc[c] = "enable" => op[c].kind = "enable"
    /\ pc[c] \in {"lock", "check", "update", "commit"} => op[c].kind = "disable"
    /\ pc[c] \in {"update", "commit"} => account[a] # NoRow
    /\ pc[c] \in {"setLevel", "setActive"} =>
         op[c].kind = "seed" /\ seen[c] \in Row /\ account[a] # NoRow
    /\ pc[c] = "setActive" => account[a].level = "super_admin"
    /\ op[c].kind = "seed" => op[c].level = "super_admin"

(* Why there is an active super_admin although this call may rely on a row it has read
   some time ago, or on a token made some time ago. *)
InChargeFor(c) ==
    /\ op[c].kind \in {"create", "enable", "disable"} => ActiveSupers # {}
    /\ pc[c] = "issue" /\ seen[c].level = "super_admin" => ActiveSupers # {}
    /\ pc[c] = "setLevel" /\ seen[c].status = "active" =>
         ActiveSupers # {} \/ account[op[c].account].status = "active"

\* One disable at a time, and nobody acts on a right that no active super_admin gave.
GuardDiscipline ==
    /\ \A c \in Calls : ControlOf(c) /\ InChargeFor(c)
    /\ \A c, d \in Calls : HoldsGuard(c) /\ HoldsGuard(d) => c = d

\* A disable that has passed its check leaves another active super_admin behind, and
\* goes on doing so until it commits.
CheckStaysTrue ==
    \A c \in Calls : pc[c] \in {"update", "commit"} => ActiveSupers \ {op[c].account} # {}

\* While anyone holds a super_admin's access token, or a seed has reported success,
\* there is an active super_admin to manage the accounts; and the seeded account is a
\* super_admin (service.go:169-177).
SomeoneIsInCharge ==
    /\ claims # {} => ActiveSupers # {}
    /\ \A c \in Calls : (op[c].kind = "seed" /\ reply[c] = "ok") =>
          /\ ActiveSupers # {}
          /\ account[op[c].account].level = "super_admin"

\* The transactions implement the promise of the back office, one operation at a time.
Roster == INSTANCE AdminRoster
ImplementsRoster == Roster!Spec
=============================================================================
