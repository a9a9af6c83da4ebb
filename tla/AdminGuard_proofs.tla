-------------------------- MODULE AdminGuard_proofs --------------------------
(***************************************************************************)
(* Proofs about AdminGuard, for any number of calls and of accounts.       *)
(***************************************************************************)
EXTENDS AdminGuard, TLAPS

\* What a step may do to the table: nothing, or one of five changes to one row.
Inserts(c) ==
    /\ pc[c] = "insert" /\ account[op[c].account] = NoRow
    /\ account' = [account EXCEPT ![op[c].account] = [level |-> op[c].level, status |-> "active"]]
Enables(c) ==
    /\ pc[c] \in {"enable", "setActive"} /\ account[op[c].account] # NoRow
    /\ account' = [account EXCEPT ![op[c].account].status = "active"]
Promotes(c) ==
    /\ pc[c] = "setLevel"
    /\ account' = [account EXCEPT ![op[c].account].level = "super_admin"]
Disables(c) ==
    /\ pc[c] = "commit"
    /\ account' = [account EXCEPT ![op[c].account].status = "disabled"]

LEMMA TableChange ==
    ASSUME [Next]_vars
    PROVE  \/ account' = account
           \/ \E c \in Calls : Inserts(c) \/ Enables(c) \/ Promotes(c) \/ Disables(c)
  <1>1. CASE UNCHANGED vars
    BY <1>1 DEF vars
  <1>2. ASSUME NEW c \in Calls, Start(c)
        PROVE  account' = account
    BY <1>2 DEF Start, BeginLogin, BeginSeed, BeginEnable, BeginDisable, BeginCreate, Begin
  <1>3. ASSUME NEW c \in Calls, Advance(c)
        PROVE  account' = account \/ Inserts(c) \/ Enables(c) \/ Promotes(c) \/ Disables(c)
    <2>1. CASE Read(c) \/ Issue(c) \/ TakeGuard(c) \/ CheckLast(c) \/ UpdateStatus(c)
      BY <2>1 DEF Read, Issue, TakeGuard, CheckLast, UpdateStatus
    <2>2. CASE Insert(c)
      BY <2>2 DEF Insert, Inserts
    <2>3. CASE EnableRow(c)
      BY <2>3 DEF EnableRow, Enables
    <2>4. CASE SetLevel(c)
      BY <2>4 DEF SetLevel, Promotes
    <2>5. CASE CommitDisable(c)
      BY <2>5 DEF CommitDisable, Disables
    <2>6. QED
      BY <1>3, <2>1, <2>2, <2>3, <2>4, <2>5 DEF Advance
  <1>4. ASSUME NEW c \in Calls, Fail(c)
        PROVE  account' = account
    BY <1>4 DEF Fail
  <1>5. CASE AllDone
    BY <1>5 DEF AllDone, vars
  <1>6. QED
    BY <1>1, <1>2, <1>3, <1>4, <1>5 DEF Next

\* The strengthening of the invariants that is inductive.
Inv == TypeOK /\ GuardDiscipline /\ CheckStaysTrue /\ SomeoneIsInCharge

\* No row is ever removed, no super_admin demoted, and the table stays a table.
LEMMA RowsStay ==
    ASSUME TypeOK, GuardDiscipline, [Next]_vars
    PROVE  /\ account' \in [Accounts -> Row \cup {NoRow}]
           /\ \A a \in Accounts : account[a] # NoRow =>
                /\ account'[a] # NoRow
                /\ account[a].level = "super_admin" => account'[a].level = "super_admin"
  <1>1. CASE account' = account
    BY <1>1 DEF TypeOK
  <1>2. ASSUME NEW c \in Calls, Inserts(c) \/ Enables(c) \/ Promotes(c) \/ Disables(c)
        PROVE  /\ account' \in [Accounts -> Row \cup {NoRow}]
               /\ \A a \in Accounts : account[a] # NoRow =>
                    /\ account'[a] # NoRow
                    /\ account[a].level = "super_admin" => account'[a].level = "super_admin"
    <2> DEFINE b == op[c].account
    <2>1. /\ b \in Accounts
          /\ pc[c] \in {"setLevel", "commit"} => account[b] # NoRow
      BY <1>2 DEF GuardDiscipline, ControlOf, Inserts, Enables, Promotes, Disables
    <2>2. account \in [Accounts -> Row \cup {NoRow}] /\ op[c].level \in Levels
      BY DEF TypeOK, Op
    <2>3. CASE Inserts(c)
      BY <2>1, <2>2, <2>3 DEF Inserts, Row, NoRow, Levels
    <2>4. CASE Enables(c)
      BY <2>1, <2>2, <2>4 DEF Enables, Row, NoRow, Levels
    <2>5. CASE Promotes(c)
      BY <2>1, <2>2, <2>5 DEF Promotes, Row, NoRow, Levels
    <2>6. CASE Disables(c)
      BY <2>1, <2>2, <2>6 DEF Disables, Row, NoRow, Levels
    <2>7. QED
      BY <1>2, <2>3, <2>4, <2>5, <2>6
  <1>3. QED
    BY <1>1, <1>2, TableChange

\* Only a disable takes an active super_admin away, and only the one it is about.
LEMMA SupersStay ==
    ASSUME TypeOK, GuardDiscipline, [Next]_vars, NEW a \in ActiveSupers
    PROVE  a \in ActiveSupers' \/ \E c \in Calls : Disables(c) /\ op[c].account = a
  <1>1. CASE account' = account
    BY <1>1 DEF ActiveSupers
  <1>2. ASSUME NEW c \in Calls, Inserts(c) \/ Enables(c) \/ Promotes(c) \/ Disables(c),
               ~(Disables(c) /\ op[c].account = a)
        PROVE  a \in ActiveSupers'
    <2>1. a \in Accounts /\ account[a] = Super
      BY DEF ActiveSupers
    <2>2. op[c].account \in Accounts /\ account \in [Accounts -> Row \cup {NoRow}]
      BY <1>2 DEF TypeOK, GuardDiscipline, ControlOf, Inserts, Enables, Promotes, Disables
    <2>3. account'[a] = Super
      <3>1. CASE op[c].account # a
        BY <1>2, <2>1, <2>2, <3>1 DEF Inserts, Enables, Promotes, Disables
      <3>2. CASE op[c].account = a
        <4>1. Enables(c) \/ Promotes(c)
          BY <1>2, <2>1, <3>2 DEF Inserts, Super, NoRow
        <4>2. QED
          BY <2>1, <2>2, <3>2, <4>1 DEF Enables, Promotes, Super
      <3>3. QED
        BY <3>1, <3>2
    <2>4. QED
      BY <2>1, <2>3 DEF ActiveSupers
  <1>3. QED
    BY <1>1, <1>2, TableChange

\* The heart of the matter: the check was made under the lock, so it is still true.
LEMMA Steady ==
    ASSUME Inv, [Next]_vars, ActiveSupers # {}
    PROVE  ActiveSupers' # {}
  <1>1. PICK a \in ActiveSupers : TRUE
    OBVIOUS
  <1>2. CASE a \in ActiveSupers'
    BY <1>2
  <1>3. ASSUME NEW c \in Calls, Disables(c), op[c].account = a
        PROVE  ActiveSupers' # {}
    <2>1. PICK b \in ActiveSupers : b # op[c].account
      BY <1>3 DEF Inv, CheckStaysTrue, Disables
    <2>2. op[c].account \in Accounts /\ account \in [Accounts -> Row \cup {NoRow}]
      BY <1>3 DEF Inv, TypeOK, GuardDiscipline, ControlOf, Disables
    <2>3. account'[b] = account[b]
      BY <1>3, <2>1, <2>2 DEF Disables, ActiveSupers
    <2>4. b \in ActiveSupers'
      BY <2>1, <2>3 DEF ActiveSupers
    <2>5. QED
      BY <2>4
  <1>4. QED
    BY <1>1, <1>2, <1>3, SupersStay DEF Inv

LEMMA InitInv == Init => Inv
  <1> SUFFICES ASSUME Init PROVE Inv
    OBVIOUS
  <1>1. TypeOK
    BY AdminAssumption DEF Init, TypeOK, Op, NoOp, Kinds, Levels, Replies, Running
  <1>2. GuardDiscipline
    BY DEF Init, GuardDiscipline, ControlOf, InChargeFor, HoldsGuard, NoOp
  <1>3. CheckStaysTrue /\ SomeoneIsInCharge
    BY DEF Init, CheckStaysTrue, SomeoneIsInCharge, NoOp
  <1>4. QED
    BY <1>1, <1>2, <1>3 DEF Inv

LEMMA TypeStep ==
    ASSUME Inv, [Next]_vars
    PROVE  TypeOK'
  <1>1. account' \in [Accounts -> Row \cup {NoRow}]
    BY RowsStay DEF Inv
  <1> USE DEF Inv, TypeOK, Goto, Return, Executed
  <1>2. ASSUME NEW c \in Calls, Start(c)
        PROVE  TypeOK'
    <2>1. PICK kind \in Kinds, a \in Accounts, l \in Levels,
               label \in {"read", "insert", "enable", "lock"} : Begin(c, kind, a, l, label)
      BY <1>2 DEF Start, BeginLogin, BeginSeed, BeginEnable, BeginDisable, BeginCreate, Kinds, Levels
    <2>2. op' \in [Calls -> Op]
      BY <2>1 DEF Begin, Op
    <2>3. pc' \in [Calls -> Running \cup {"new", "done"}] /\ reply' \in [Calls -> Replies]
      BY <2>1 DEF Begin, Running
    <2>4. QED
      BY <1>1, <2>1, <2>2, <2>3 DEF Begin
  <1>3. ASSUME NEW c \in Calls, Read(c)
        PROVE  TypeOK'
    <2>1. seen' \in [Calls -> Row \cup {NoRow}]
      BY <1>3 DEF Read, GuardDiscipline, ControlOf
    <2>2. pc' \in [Calls -> Running \cup {"new", "done"}] /\ reply' \in [Calls -> Replies]
      BY <1>3 DEF Read, Running, Replies
    <2>3. QED
      BY <1>1, <1>3, <2>1, <2>2 DEF Read
  <1>4. ASSUME NEW c \in Calls, Issue(c)
        PROVE  TypeOK'
    BY <1>1, <1>4 DEF Issue, Replies, GuardDiscipline, ControlOf
  <1>5. ASSUME NEW c \in Calls,
               \/ Insert(c) \/ EnableRow(c) \/ SetLevel(c) \/ CommitDisable(c)
        PROVE  TypeOK'
    BY <1>1, <1>5 DEF Insert, EnableRow, SetLevel, CommitDisable, Running, Replies
  <1>6. ASSUME NEW c \in Calls,
               TakeGuard(c) \/ CheckLast(c) \/ UpdateStatus(c) \/ Fail(c)
        PROVE  TypeOK'
    BY <1>1, <1>6 DEF TakeGuard, CheckLast, UpdateStatus, Fail, Running, Replies
  <1>7. CASE UNCHANGED vars
    BY <1>7 DEF vars
  <1>8. QED
    BY <1>2, <1>3, <1>4, <1>5, <1>6, <1>7 DEF Next, Advance, AllDone

\* A call that does not act keeps its control state, its request and what it has read.
Acts(c) == Start(c) \/ Advance(c) \/ Fail(c)

LEMMA Frame ==
    ASSUME TypeOK, NEW c \in Calls, Acts(c), NEW d \in Calls, d # c
    PROVE  pc'[d] = pc[d] /\ op'[d] = op[d] /\ seen'[d] = seen[d] /\ reply'[d] = reply[d]
  <1> USE DEF TypeOK, Goto, Return, Executed
  <1>1. CASE Start(c)
    BY <1>1 DEF Start, BeginLogin, BeginSeed, BeginEnable, BeginDisable, BeginCreate, Begin
  <1>2. CASE Advance(c)
    BY <1>2 DEF Advance, Read, Issue, Insert, EnableRow, SetLevel, TakeGuard, CheckLast,
       UpdateStatus, CommitDisable
  <1>3. CASE Fail(c)
    BY <1>3 DEF Fail
  <1>4. QED
    BY <1>1, <1>2, <1>3 DEF Acts

\* A row keeps the status "active" unless a disable commits.
LEMMA ActiveStays ==
    ASSUME TypeOK, GuardDiscipline, [Next]_vars, NEW a \in Accounts,
           account[a].status = "active", account[a] # NoRow
    PROVE  \/ account'[a].status = "active"
           \/ \E c \in Calls : Disables(c)
  <1>1. ASSUME NEW c \in Calls, Inserts(c) \/ Enables(c) \/ Promotes(c)
        PROVE  account'[a].status = "active"
    <2>1. op[c].account \in Accounts /\ account \in [Accounts -> Row \cup {NoRow}]
      BY <1>1 DEF TypeOK, GuardDiscipline, ControlOf, Inserts, Enables, Promotes
    <2>2. account[a] \in Row
      BY <2>1
    <2>3. QED
      BY <1>1, <2>1, <2>2 DEF Inserts, Enables, Promotes, Row
  <1>2. QED
    BY <1>1, TableChange

LEMMA ControlOthers ==
    ASSUME Inv, [Next]_vars, NEW c \in Calls, Acts(c), NEW d \in Calls, d # c
    PROVE  ControlOf(d)'
  <1>1. ControlOf(d)
    BY DEF Inv, GuardDiscipline
  <1>2. pc'[d] = pc[d] /\ op'[d] = op[d] /\ seen'[d] = seen[d] /\ reply'[d] = reply[d]
    BY Frame DEF Inv
  <1>3. op[d].account \in Accounts /\ account[op[d].account] # NoRow =>
          /\ account'[op[d].account] # NoRow
          /\ account[op[d].account].level = "super_admin" =>
               account'[op[d].account].level = "super_admin"
    BY RowsStay DEF Inv
  <1>4. QED
    BY <1>1, <1>2, <1>3 DEF ControlOf

LEMMA InChargeOthers ==
    ASSUME Inv, [Next]_vars, NEW c \in Calls, Acts(c), NEW d \in Calls, d # c
    PROVE  InChargeFor(d)'
  <1>1. InChargeFor(d) /\ ControlOf(d)
    BY DEF Inv, GuardDiscipline
  <1>2. pc'[d] = pc[d] /\ op'[d] = op[d] /\ seen'[d] = seen[d]
    BY Frame DEF Inv
  <1>3. ActiveSupers # {} => ActiveSupers' # {}
    BY Steady
  <1>4. ASSUME pc[d] = "setLevel", seen[d].status = "active"
        PROVE  ActiveSupers' # {} \/ account'[op[d].account].status = "active"
    <2>1. op[d].account \in Accounts /\ account[op[d].account] # NoRow
      BY <1>1, <1>4 DEF ControlOf
    <2>2. CASE ActiveSupers # {}
      BY <2>2, <1>3
    <2>3. CASE account[op[d].account].status = "active"
      <3>1. CASE account'[op[d].account].status = "active"
        BY <3>1
      <3>2. ASSUME NEW e \in Calls, Disables(e)
            PROVE  ActiveSupers' # {}
        BY <3>2, <1>3 DEF Disables, Inv, GuardDiscipline, ControlOf, InChargeFor
      <3>3. QED
        BY <2>1, <2>3, <3>1, <3>2, ActiveStays DEF Inv
    <2>4. QED
      BY <1>1, <1>4, <2>2, <2>3 DEF InChargeFor
  <1>5. QED
    BY <1>1, <1>2, <1>3, <1>4 DEF InChargeFor

\* The call that acts.
LEMMA ActorStep ==
    ASSUME Inv, [Next]_vars, NEW c \in Calls, Acts(c)
    PROVE  ControlOf(c)' /\ InChargeFor(c)'
  <1>1. ControlOf(c) /\ InChargeFor(c) /\ TypeOK
    BY DEF Inv, GuardDiscipline
  <1>2. ActiveSupers # {} => ActiveSupers' # {}
    BY Steady
  <1>3. \A a \in Accounts : account[a] # NoRow =>
          /\ account'[a] # NoRow
          /\ account[a].level = "super_admin" => account'[a].level = "super_admin"
    BY RowsStay DEF Inv
  <1> USE DEF TypeOK, Goto, Return, Executed
  <1>4. CASE Start(c)
    <2>1. PICK a \in Accounts :
            \/ BeginLogin(c, a) \/ BeginSeed(c, a)
            \/ BeginEnable(c, a) \/ BeginDisable(c, a)
            \/ \E l \in Levels : BeginCreate(c, a, l)
      BY <1>4 DEF Start
    <2>2. claims # {} => ActiveSupers # {}
      BY DEF Inv, SomeoneIsInCharge
    <2>3. reply[c] = "none"
      BY <1>1, <2>1 DEF ControlOf, BeginLogin, BeginSeed, BeginEnable, BeginDisable, BeginCreate, Begin
    <2>4. CASE BeginLogin(c, a) \/ BeginSeed(c, a)
      BY <1>1, <2>3, <2>4 DEF BeginLogin, BeginSeed, Begin, ControlOf, InChargeFor
    <2>5. CASE \/ BeginEnable(c, a) \/ BeginDisable(c, a)
               \/ \E l \in Levels : BeginCreate(c, a, l)
      <3>1. ActiveSupers' # {}
        BY <1>2, <2>2, <2>5 DEF BeginEnable, BeginDisable, BeginCreate
      <3>2. ControlOf(c)'
        BY <1>1, <2>3, <2>5 DEF BeginEnable, BeginDisable, BeginCreate, Begin, ControlOf
      <3>3. pc'[c] \notin {"issue", "setLevel"}
        BY <1>1, <2>5 DEF BeginEnable, BeginDisable, BeginCreate, Begin
      <3>4. QED
        BY <3>1, <3>2, <3>3 DEF InChargeFor
    <2>6. QED
      BY <2>1, <2>4, <2>5
  <1>5. CASE Read(c)
    <2>1. account[op[c].account] \in Row \cup {NoRow} /\ op[c].account \in Accounts
      BY <1>1, <1>5 DEF Read, ControlOf
    <2>2. /\ op' = op /\ account' = account
          /\ seen'[c] = account[op[c].account]
          /\ pc'[c] \in {"done", "issue", "insert", "setLevel", "setActive"}
          /\ pc'[c] # "done" => reply'[c] = reply[c]
      BY <1>1, <1>5 DEF Read
    <2>3. /\ pc'[c] = "issue" => op[c].kind = "login" /\ account[op[c].account] # NoRow
                                 /\ account[op[c].account].status # "disabled"
          /\ pc'[c] \in {"setLevel", "setActive"} =>
               op[c].kind = "seed" /\ account[op[c].account] # NoRow
          /\ pc'[c] = "setActive" => account[op[c].account].level = "super_admin"
      BY <1>1, <1>5 DEF Read
    <2>4. ControlOf(c)'
      BY <1>1, <1>5, <2>1, <2>2, <2>3 DEF ControlOf, Read
    <2>5. ASSUME pc'[c] = "issue", account[op[c].account].level = "super_admin"
          PROVE  ActiveSupers # {}
      <3>1. account[op[c].account] = Super
        BY <2>1, <2>3, <2>5 DEF Row, Super, NoRow
      <3>2. QED
        BY <2>1, <3>1 DEF ActiveSupers
    <2>6. QED
      BY <1>1, <1>2, <2>2, <2>4, <2>5 DEF InChargeFor
  <1>6. CASE Issue(c) \/ Insert(c) \/ EnableRow(c) \/ CommitDisable(c) \/ Fail(c)
    <2>1. pc'[c] = "done" /\ op' = op /\ op[c].account \in Accounts
      BY <1>1, <1>6 DEF ControlOf, Issue, Insert, EnableRow, CommitDisable, Fail, Running
    <2>2. QED
      BY <1>1, <1>2, <2>1 DEF ControlOf, InChargeFor
  <1>7. CASE SetLevel(c)
    <2>1. op[c].account \in Accounts /\ account[op[c].account] \in Row
      BY <1>1, <1>7 DEF SetLevel, ControlOf
    <2>2. account'[op[c].account].level = "super_admin"
      BY <1>1, <1>7, <2>1 DEF SetLevel, Row
    <2>3. QED
      BY <1>1, <1>2, <1>3, <1>7, <2>1, <2>2 DEF ControlOf, InChargeFor, SetLevel
  <1>8. CASE TakeGuard(c) \/ CheckLast(c) \/ UpdateStatus(c)
    BY <1>1, <1>2, <1>3, <1>8 DEF ControlOf, InChargeFor, TakeGuard, CheckLast, UpdateStatus
  <1>9. QED
    BY <1>4, <1>5, <1>6, <1>7, <1>8 DEF Acts, Advance

\* Every step is a step of one call, or changes nothing.
LEMMA WhoActs ==
    ASSUME [Next]_vars
    PROVE  (\E c \in Calls : Acts(c)) \/ UNCHANGED vars
  BY DEF Next, Acts, AllDone

\* The advisory lock is held by one call at a time.
LEMMA GuardStep ==
    ASSUME Inv, [Next]_vars
    PROVE  GuardDiscipline'
  <1>1. CASE UNCHANGED vars
    BY <1>1 DEF vars, Inv, GuardDiscipline, ControlOf, InChargeFor, HoldsGuard, ActiveSupers
  <1>2. ASSUME NEW c \in Calls, Acts(c)
        PROVE  GuardDiscipline'
    <2>1. \A d \in Calls : ControlOf(d)' /\ InChargeFor(d)'
      BY <1>2, ControlOthers, InChargeOthers, ActorStep
    <2>2. \A d \in Calls : d # c => (HoldsGuard(d)' <=> HoldsGuard(d))
      BY <1>2, Frame DEF HoldsGuard, Inv
    <2>3. HoldsGuard(c)' => HoldsGuard(c) \/ GuardFree(c)
      <3>1. CASE Start(c)
        BY <3>1 DEF Inv, TypeOK, Start, BeginLogin, BeginSeed, BeginEnable, BeginDisable,
           BeginCreate, Begin, Goto, HoldsGuard
      <3>2. CASE Advance(c)
        BY <3>2 DEF Inv, TypeOK, Advance, Read, Issue, Insert, EnableRow, SetLevel, TakeGuard,
           CheckLast, UpdateStatus, CommitDisable, Goto, Return, Executed, HoldsGuard
      <3>3. CASE Fail(c)
        BY <3>3 DEF Inv, TypeOK, Fail, Return, HoldsGuard
      <3>4. QED
        BY <1>2, <3>1, <3>2, <3>3 DEF Acts
    <2>4. \A d, e \in Calls : HoldsGuard(d)' /\ HoldsGuard(e)' => d = e
      BY <2>2, <2>3 DEF Inv, GuardDiscipline, GuardFree
    <2>5. QED
      BY <2>1, <2>4 DEF GuardDiscipline
  <1>3. QED
    BY <1>1, <1>2, WhoActs

\* A disable past its check held the lock before the step, and its check had passed.
LEMMA WhoPassed ==
    ASSUME Inv, [Next]_vars, NEW c \in Calls, pc'[c] \in {"update", "commit"}
    PROVE  /\ HoldsGuard(c) /\ op'[c] = op[c]
           /\ pc[c] = "check" => ActiveSupers # {op[c].account}
  <1>1. CASE UNCHANGED vars
    BY <1>1 DEF vars, HoldsGuard
  <1>2. ASSUME NEW d \in Calls, Acts(d), d # c
        PROVE  pc'[c] = pc[c] /\ op'[c] = op[c]
    BY <1>2, Frame DEF Inv
  <1>3. CASE Acts(c)
    <2>1. op'[c] = op[c] /\ (CheckLast(c) \/ UpdateStatus(c))
      BY <1>3 DEF Inv, TypeOK, Acts, Start, BeginLogin, BeginSeed, BeginEnable, BeginDisable,
         BeginCreate, Begin, Advance, Read, Issue, Insert, EnableRow, SetLevel, TakeGuard,
         CheckLast, UpdateStatus, CommitDisable, Fail, Goto, Return, Executed
    <2>2. QED
      BY <2>1 DEF CheckLast, UpdateStatus, Return, HoldsGuard, Inv, TypeOK
  <1>4. QED
    BY <1>1, <1>2, <1>3, WhoActs DEF HoldsGuard

LEMMA CheckStep ==
    ASSUME Inv, [Next]_vars
    PROVE  CheckStaysTrue'
  <1> SUFFICES ASSUME NEW c \in Calls, pc'[c] \in {"update", "commit"}
               PROVE  (ActiveSupers \ {op[c].account})' # {}
    BY DEF CheckStaysTrue
  <1>1. /\ HoldsGuard(c) /\ op'[c] = op[c]
        /\ pc[c] = "check" => ActiveSupers # {op[c].account}
    BY WhoPassed
  <1>2. PICK b \in ActiveSupers : b # op[c].account
    <2>1. CASE pc[c] = "check"
      <3>1. ActiveSupers # {}
        BY <2>1 DEF Inv, GuardDiscipline, ControlOf, InChargeFor
      <3>2. QED
        BY <1>1, <2>1, <3>1
    <2>2. CASE pc[c] \in {"update", "commit"}
      BY <2>2 DEF Inv, CheckStaysTrue
    <2>3. QED
      BY <1>1, <2>1, <2>2 DEF HoldsGuard
  <1>3. b \in ActiveSupers'
    <2>1. ASSUME NEW d \in Calls, Disables(d), op[d].account = b
          PROVE  FALSE
      <3>1. HoldsGuard(d)
        BY <2>1 DEF Disables, HoldsGuard
      <3>2. d = c
        BY <1>1, <3>1 DEF Inv, GuardDiscipline
      <3>3. QED
        BY <1>2, <2>1, <3>2
    <2>2. QED
      BY <2>1, SupersStay DEF Inv
  <1>4. QED
    BY <1>1, <1>2, <1>3

\* A step on which a seed succeeds leaves its account a super_admin, and one active.
LEMMA SeedSucceeds ==
    ASSUME Inv, [Next]_vars, NEW c \in Calls, Acts(c), op'[c].kind = "seed", reply'[c] = "ok"
    PROVE  ActiveSupers' # {} /\ account'[op'[c].account].level = "super_admin"
  <1> DEFINE a == op[c].account
  <1>1. TypeOK /\ ControlOf(c) /\ InChargeFor(c)
    BY DEF Inv, GuardDiscipline
  <1>2. pc[c] # "done"
    BY DEF Acts, Start, BeginLogin, BeginSeed, BeginEnable, BeginDisable, BeginCreate, Begin,
       Advance, Read, Issue, Insert, EnableRow, SetLevel, TakeGuard, CheckLast, UpdateStatus,
       CommitDisable, Fail, Running
  <1>3. reply[c] = "none"
    BY <1>1, <1>2 DEF ControlOf
  <1>4. Read(c) \/ Insert(c) \/ EnableRow(c) \/ SetLevel(c)
    <2>1. CASE Start(c)
      BY <1>3, <2>1 DEF Start, BeginLogin, BeginSeed, BeginEnable, BeginDisable, BeginCreate,
         Begin, Goto
    <2>2. CASE Issue(c) \/ CommitDisable(c)
      BY <1>1, <2>2 DEF Issue, CommitDisable, ControlOf
    <2>3. CASE TakeGuard(c) \/ CheckLast(c) \/ UpdateStatus(c) \/ Fail(c)
      BY <1>1, <1>3, <2>3 DEF TypeOK, TakeGuard, CheckLast, UpdateStatus, Fail, Goto, Return
    <2>4. QED
      BY <2>1, <2>2, <2>3 DEF Acts, Advance
  <1>5. op'[c] = op[c] /\ a \in Accounts /\ account[a] \in Row \cup {NoRow}
        /\ op[c].level = "super_admin"
    BY <1>1, <1>2, <1>4 DEF TypeOK, Read, Insert, EnableRow, SetLevel, ControlOf
  <1>6. CASE Read(c)
    <2>1. account[a] = Super /\ account' = account
      BY <1>1, <1>3, <1>5, <1>6 DEF Read, TypeOK, Goto, Return, Row, NoRow, Super
    <2>2. QED
      BY <1>5, <2>1 DEF ActiveSupers, Super
  <1>7. CASE Insert(c)
    <2>1. account'[a] = Super
      BY <1>1, <1>5, <1>7 DEF Insert, TypeOK, Return, Super
    <2>2. QED
      BY <1>5, <2>1 DEF ActiveSupers, Super
  <1>8. CASE EnableRow(c)
    <2>1. pc[c] = "setActive"
      BY <1>1, <1>5, <1>8 DEF EnableRow, ControlOf
    <2>2. account[a] \in Row /\ account[a].level = "super_admin"
      BY <1>1, <1>5, <2>1 DEF ControlOf
    <2>3. account' = [account EXCEPT ![a].status = "active"]
      BY <1>1, <1>8, <2>2 DEF EnableRow, Row, NoRow
    <2>4. account'[a] = Super
      BY <1>1, <1>5, <2>2, <2>3 DEF TypeOK, Row, Super
    <2>5. QED
      BY <1>5, <2>4 DEF ActiveSupers, Super
  <1>9. CASE SetLevel(c)
    <2>1. seen[c].status = "active" /\ account[a] \in Row
      BY <1>1, <1>3, <1>5, <1>9 DEF SetLevel, TypeOK, Goto, Return, Executed, ControlOf
    <2>2. account'[a].level = "super_admin"
      BY <1>1, <1>5, <1>9, <2>1 DEF SetLevel, TypeOK, Row
    <2>3. ActiveSupers' # {}
      <3>1. CASE ActiveSupers # {}
        BY <3>1, Steady
      <3>2. CASE account[a].status = "active"
        <4>1. account'[a] = Super
          BY <1>1, <1>5, <1>9, <2>1, <3>2 DEF SetLevel, TypeOK, Row, Super
        <4>2. QED
          BY <1>5, <4>1 DEF ActiveSupers
      <3>3. QED
        BY <1>1, <1>9, <2>1, <3>1, <3>2 DEF SetLevel, InChargeFor
    <2>4. QED
      BY <1>5, <2>2, <2>3
  <1>10. QED
    BY <1>4, <1>6, <1>7, <1>8, <1>9

LEMMA InChargeStep ==
    ASSUME Inv, [Next]_vars
    PROVE  SomeoneIsInCharge'
  <1>1. ActiveSupers # {} => ActiveSupers' # {}
    BY Steady
  <1>2. \A a \in Accounts : account[a] # NoRow /\ account[a].level = "super_admin"
          => account'[a].level = "super_admin"
    BY RowsStay DEF Inv
  <1>3. TypeOK /\ SomeoneIsInCharge
    BY DEF Inv
  <1>4. CASE UNCHANGED vars
    BY <1>3, <1>4 DEF vars, SomeoneIsInCharge, ActiveSupers
  <1>5. ASSUME NEW c \in Calls, Acts(c)
        PROVE  SomeoneIsInCharge'
    <2>1. ControlOf(c) /\ InChargeFor(c)
      BY DEF Inv, GuardDiscipline
    <2>2. claims' # {} => ActiveSupers' # {}
      <3>1. CASE Issue(c)
        BY <1>1, <1>3, <2>1, <3>1 DEF Issue, InChargeFor, SomeoneIsInCharge
      <3>2. CASE ~Issue(c)
        <4>1. claims' = claims
          BY <1>5, <3>2 DEF Acts, Start, BeginLogin, BeginSeed, BeginEnable, BeginDisable,
             BeginCreate, Begin, Advance, Read, Insert, EnableRow, SetLevel, TakeGuard,
             CheckLast, UpdateStatus, CommitDisable, Fail
        <4>2. QED
          BY <1>1, <1>3, <4>1 DEF SomeoneIsInCharge
      <3>3. QED
        BY <3>1, <3>2
    <2>3. ASSUME NEW d \in Calls, op'[d].kind = "seed", reply'[d] = "ok", d # c
          PROVE  ActiveSupers' # {} /\ account'[op'[d].account].level = "super_admin"
      <3>1. op'[d] = op[d] /\ reply'[d] = reply[d] /\ pc'[d] = pc[d]
        BY <1>3, <1>5, <2>3, Frame
      <3>2. /\ ActiveSupers # {} /\ account[op[d].account].level = "super_admin"
            /\ op[d].account \in Accounts
        BY <1>3, <2>3, <3>1 DEF SomeoneIsInCharge, Inv, GuardDiscipline, ControlOf
      <3>3. QED
        BY <1>1, <1>2, <3>1, <3>2 DEF NoRow
    <2>4. ASSUME op'[c].kind = "seed", reply'[c] = "ok"
          PROVE  ActiveSupers' # {} /\ account'[op'[c].account].level = "super_admin"
      BY <1>3, <1>5, <2>4, SeedSucceeds
    <2>5. QED
      BY <2>2, <2>3, <2>4 DEF SomeoneIsInCharge
  <1>6. QED
    BY <1>4, <1>5, WhoActs

-----------------------------------------------------------------------------
\* All the invariants of AdminGuard hold throughout, for any number of concurrent calls.
THEOREM Safety == Spec => []Inv
  <1>1. Init => Inv
    BY InitInv
  <1>2. Inv /\ [Next]_vars => Inv'
    BY TypeStep, GuardStep, CheckStep, InChargeStep DEF Inv
  <1>3. QED
    BY <1>1, <1>2, PTL DEF Spec

\* The tables and the control state of the back office are well-typed.
THEOREM TypeCorrect == Spec => []TypeOK
  <1>1. Inv => TypeOK
    BY DEF Inv
  <1>2. QED
    BY <1>1, Safety, PTL

\* What a disable has checked under the advisory lock stays true until it commits.
THEOREM CheckHolds == Spec => []CheckStaysTrue
  <1>1. Inv => CheckStaysTrue
    BY DEF Inv
  <1>2. QED
    BY <1>1, Safety, PTL

\* Whoever acts with a super_admin's token, and whoever was told that the seed
\* succeeded, can rely on an active super_admin.
THEOREM InCharge == Spec => []SomeoneIsInCharge
  <1>1. Inv => SomeoneIsInCharge
    BY DEF Inv
  <1>2. QED
    BY <1>1, Safety, PTL

\* The back office never loses its last active super_admin.
THEOREM NotLockedOut == Spec => NeverLockedOut
  <1>1. Inv /\ [Next]_vars => [ActiveSupers # {} => ActiveSupers' # {}]_vars
    BY Steady
  <1>2. QED
    BY <1>1, Safety, PTL DEF Spec, NeverLockedOut

\* Each transaction is one operation of the roster, or no change at all.
LEMMA RosterStep ==
    ASSUME Inv, [Next]_vars
    PROVE  [Roster!Next]_account
  <1>1. ASSUME NEW c \in Calls, Inserts(c) \/ Enables(c) \/ Promotes(c) \/ Disables(c)
        PROVE  Roster!Next
    <2>1. op[c].account \in Accounts /\ op[c].level \in {"admin", "super_admin"}
      BY <1>1 DEF Inv, TypeOK, Op, Levels, GuardDiscipline, ControlOf, Inserts, Enables,
         Promotes, Disables
    <2>2. CASE Inserts(c)
      BY <2>1, <2>2 DEF Inserts, NoRow, Roster!Next, Roster!Create, Roster!NoRow
    <2>3. CASE Enables(c)
      BY <2>1, <2>3 DEF Enables, NoRow, Roster!Next, Roster!Enable, Roster!NoRow
    <2>4. CASE Promotes(c)
      <3>1. account[op[c].account] # NoRow
        BY <2>4 DEF Promotes, Inv, GuardDiscipline, ControlOf
      <3>2. QED
        BY <2>1, <2>4, <3>1 DEF Promotes, NoRow, Roster!Next, Roster!Promote, Roster!NoRow
    <2>5. CASE Disables(c)
      <3>1. account[op[c].account] # NoRow /\ ActiveSupers \ {op[c].account} # {}
        BY <2>5 DEF Disables, Inv, GuardDiscipline, ControlOf, CheckStaysTrue
      <3>2. ActiveSupers = Roster!SupersOf(account)
        BY DEF ActiveSupers, Super, Roster!SupersOf
      <3>3. QED
        BY <2>1, <2>5, <3>1, <3>2 DEF Disables, NoRow, Roster!Next, Roster!Disable, Roster!NoRow
    <2>6. QED
      BY <1>1, <2>2, <2>3, <2>4, <2>5
  <1>2. QED
    BY <1>1, TableChange

\* AdminGuard implements AdminRoster: every disable, whatever runs with it, takes effect
\* as if it had been alone and had looked before it acted.
THEOREM Refinement == Spec => ImplementsRoster
  <1>1. Init => Roster!Init
    BY DEF Init, Roster!Init, Row, Levels, NoRow, Roster!Row, Roster!NoRow
  <1>2. Inv /\ [Next]_vars => [Roster!Next]_account
    BY RosterStep
  <1>3. QED
    BY <1>1, <1>2, Safety, PTL DEF Spec, ImplementsRoster, Roster!Spec
=============================================================================
