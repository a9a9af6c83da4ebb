-------------------------- MODULE CoinLedger_proofs --------------------------
(***************************************************************************)
(* Proofs about CoinLedger, for any number of calls, owners and keys, any  *)
(* amounts and any width of the balance column.                            *)
(***************************************************************************)
EXTENDS CoinLedger, TLAPS

\* A call that returns keeps its locals, its reply and its control state typed.
LEMMA ReturnType ==
    ASSUME TypeOK, NEW c \in Calls, NEW s \in Statuses, NEW e \in Calls \cup {None},
           Return(c, s, e)
    PROVE  /\ pc' \in [Calls -> Running \cup {"new", "done"}]
           /\ req' \in [Calls -> Request]
           /\ work' \in [Calls -> Work]
           /\ reply' \in [Calls -> [status : Statuses, entry : Calls \cup {None}]]
  BY DEF TypeOK, Return, Goto, Work, NoWork

\* The wallet a transaction works on is a wallet once its owner is known.
LEMMA OwnerKnown ==
    ASSUME TypeOK, Control, NEW c \in Calls,
           pc[c] \in {"ensure", "update", "insert", "commit"}
    PROVE  /\ work[c].owner \in Owners /\ work[c].delta \in Int
           /\ wallet[work[c].owner] \in Wallet
           /\ NewBalance(c) \in Int
  <1>1. work[c].owner \in Owners
    <2>1. CASE req[c].kind = "post"
      BY <2>1 DEF Control, ControlOf
    <2>2. CASE req[c].kind = "reverse"
      BY <2>2, CoinAssumption DEF Control, ControlOf, TypeOK, Booked, Row
    <2>3. QED
      BY <2>1, <2>2 DEF TypeOK, Request
  <1>2. work[c].delta \in Int
    BY DEF TypeOK, Work
  <1>3. wallet[work[c].owner] \in Wallet
    BY <1>1 DEF TypeOK
  <1>4. QED
    BY <1>1, <1>2, <1>3 DEF NewBalance, Wallet

LEMMA InitInv == Init => TypeOK /\ Control /\ Exclusion
  <1> SUFFICES ASSUME Init PROVE TypeOK /\ Control /\ Exclusion
    OBVIOUS
  <1>1. TypeOK
    BY CoinAssumption DEF Init, TypeOK, Wallet, NoWallet, Row, NoRow, Request, NoRequest,
       Work, NoWork, Statuses, NoReply, Running
  <1>2. Control
    BY CoinAssumption DEF Init, Control, ControlOf, NoRequest
  <1>3. Exclusion
    BY DEF Init, Exclusion, HoldsWallet
  <1>4. QED
    BY <1>1, <1>2, <1>3

LEMMA TypeStep ==
    ASSUME TypeOK, Control, [Next]_vars
    PROVE  TypeOK'
  <1> USE DEF Goto
  <1>1. ASSUME NEW c \in Calls, NEW o \in Owners, NEW a \in Amounts, NEW k \in Keys \cup {None},
               BeginPost(c, o, a, k)
        PROVE  TypeOK'
    <2>1. a \in Int
      BY CoinAssumption
    <2>2. work' = [work EXCEPT ![c] = [owner |-> o, delta |-> a, created |-> FALSE, bal |-> 0]]
      BY <1>1 DEF BeginPost
    <2>3. work' \in [Calls -> Work]
      BY <2>1, <2>2 DEF TypeOK, Work
    <2>4. req' \in [Calls -> Request]
      BY <1>1, <2>1 DEF TypeOK, BeginPost, Request
    <2>5. pc' \in [Calls -> Running \cup {"new", "done"}]
      BY <1>1 DEF TypeOK, BeginPost, Running
    <2>6. QED
      BY <1>1, <2>3, <2>4, <2>5 DEF TypeOK, BeginPost
  <1>2. ASSUME NEW c \in Calls, NEW t \in Booked \cup {None}, BeginReverse(c, t)
        PROVE  TypeOK'
    BY <1>2 DEF TypeOK, BeginReverse, Request, Running, Booked
  <1>3. ASSUME NEW c \in Calls, LookupHit(c)
        PROVE  TypeOK'
    BY <1>3, ReturnType DEF TypeOK, LookupHit, UsesOf, Booked, Statuses
  <1>4. ASSUME NEW c \in Calls, LookupMiss(c)
        PROVE  TypeOK'
    BY <1>4 DEF TypeOK, LookupMiss, Running
  <1>5. ASSUME NEW c \in Calls, LoadOriginal(c)
        PROVE  TypeOK'
    <2> DEFINE orig == ledger[req[c].target]
    <2>1. CASE orig.reversalOf # None
      BY <1>5, <2>1, ReturnType DEF TypeOK, LoadOriginal, Statuses
    <2>2. CASE orig.reversalOf = None
      <3>1. orig \in Row
        BY <1>5 DEF LoadOriginal, Booked, TypeOK
      <3>2. orig.owner \in Owners /\ -orig.amount \in Int
        BY <3>1 DEF Row
      <3>3. work' = [work EXCEPT ![c].owner = orig.owner, ![c].delta = -orig.amount]
        BY <1>5, <2>2 DEF LoadOriginal
      <3>4. work[c] \in Work
        BY DEF TypeOK
      <3>5. [work[c] EXCEPT !.owner = orig.owner, !.delta = -orig.amount] \in Work
        BY <3>2, <3>4 DEF Work
      <3>6. work' \in [Calls -> Work]
        BY <3>3, <3>5 DEF TypeOK
      <3>7. QED
        BY <1>5, <2>2, <3>6 DEF TypeOK, LoadOriginal, Running
    <2>3. QED
      BY <2>1, <2>2
  <1>6. ASSUME NEW c \in Calls, LoadMissing(c)
        PROVE  TypeOK'
    BY <1>6, ReturnType DEF TypeOK, LoadMissing, Statuses
  <1>7. ASSUME NEW c \in Calls, CheckReversed(c)
        PROVE  TypeOK'
    <2>1. CASE ReversalsOf(req[c].target) # {}
      BY <1>7, <2>1, ReturnType DEF TypeOK, CheckReversed, Statuses
    <2>2. CASE ReversalsOf(req[c].target) = {}
      BY <1>7, <2>2 DEF TypeOK, CheckReversed, Running
    <2>3. QED
      BY <2>1, <2>2
  <1>8. ASSUME NEW c \in Calls, EnsureWallet(c)
        PROVE  TypeOK'
    <2>1. PICK new \in BOOLEAN : work' = [work EXCEPT ![c].created = new]
      BY <1>8 DEF EnsureWallet
    <2>2. work' \in [Calls -> Work]
      BY <2>1 DEF TypeOK, Work
    <2>3. pc' \in [Calls -> Running \cup {"new", "done"}]
      BY <1>8 DEF TypeOK, EnsureWallet, Running
    <2>4. QED
      BY <1>8, <2>2, <2>3 DEF TypeOK, EnsureWallet
  <1>9. ASSUME NEW c \in Calls, ApplyDelta(c)
        PROVE  TypeOK'
    BY <1>9, OwnerKnown DEF TypeOK, ApplyDelta, Work, Running
  <1>10. ASSUME NEW c \in Calls, RefuseDelta(c)
         PROVE  TypeOK'
    BY <1>10, ReturnType DEF TypeOK, RefuseDelta, Statuses
  <1>11. ASSUME NEW c \in Calls, OverflowDelta(c)
         PROVE  TypeOK'
    BY <1>11, ReturnType DEF TypeOK, OverflowDelta, Statuses
  <1>12. ASSUME NEW c \in Calls, InsertRow(c)
         PROVE  TypeOK'
    BY <1>12 DEF TypeOK, InsertRow, Running
  <1>13. ASSUME NEW c \in Calls, InsertConflict(c)
         PROVE  TypeOK'
    <2>1. CASE KeyTaken(c)
      <3>1. /\ pc' = [pc EXCEPT ![c] = "reread"]
            /\ work' = [work EXCEPT ![c] = NoWork]
            /\ UNCHANGED <<wallet, ledger, req, reply>>
        BY <1>13, <2>1 DEF InsertConflict
      <3>2. NoWork \in Work
        BY DEF NoWork, Work
      <3>3. QED
        BY <3>1, <3>2 DEF TypeOK, Running
    <2>2. CASE ~KeyTaken(c)
      BY <1>13, <2>2, ReturnType DEF TypeOK, InsertConflict, Statuses
    <2>3. QED
      BY <2>1, <2>2
  <1>14. ASSUME NEW c \in Calls, RereadKey(c)
         PROVE  TypeOK'
    BY <1>14, ReturnType DEF TypeOK, RereadKey, UsesOf, Booked, Statuses
  <1>15. ASSUME NEW c \in Calls, Commit(c)
         PROVE  TypeOK'
    <2> DEFINE o == work[c].owner
    <2>1. o \in Owners /\ wallet[o] \in Wallet /\ work[c].bal \in 0..MaxBalance
      BY <1>15, OwnerKnown DEF Commit, Control, ControlOf
    <2>2. wallet' \in [Owners -> Wallet]
      BY <1>15, <2>1 DEF Commit, TypeOK, Wallet
    <2>3. NewRow(c) \in Row
      BY <2>1, CoinAssumption DEF NewRow, Row, Wallet, TypeOK, Work, Request
    <2>4. ledger' \in [Calls -> Row \cup {NoRow}]
      BY <1>15, <2>3 DEF Commit, TypeOK
    <2>5. QED
      BY <1>15, <2>2, <2>4, ReturnType DEF Commit, TypeOK, Statuses
  <1>16. ASSUME NEW c \in Calls, Abort(c)
         PROVE  TypeOK'
    BY <1>16, ReturnType DEF TypeOK, Abort, Statuses
  <1>17. CASE UNCHANGED vars
    BY <1>17 DEF TypeOK, vars
  <1>18. QED
    BY <1>1, <1>2, <1>3, <1>4, <1>5, <1>6, <1>7, <1>8, <1>9, <1>10, <1>11, <1>12, <1>13,
       <1>14, <1>15, <1>16, <1>17 DEF Next, Begin, Advance, AllDone

\* A step that leaves the tables alone and changes only call c's own state keeps
\* Control if it keeps it for c.
LEMMA ControlFrame ==
    ASSUME Control, NEW c \in Calls, UNCHANGED <<wallet, ledger>>, ControlOf(c)',
           \A d \in Calls \ {c} :
              pc'[d] = pc[d] /\ req'[d] = req[d] /\ work'[d] = work[d] /\ reply'[d] = reply[d]
    PROVE  Control'
  <1> SUFFICES ASSUME NEW d \in Calls, d # c PROVE ControlOf(d)'
    BY DEF Control
  <1>1. ControlOf(d)
    BY DEF Control
  <1>2. QED
    BY <1>1 DEF ControlOf, NewBalance, KeyTaken, ReversalTaken, UsesOf, ReversalsOf, Booked

\* A call that returns without booking keeps Control.
LEMMA ReturnControl ==
    ASSUME TypeOK, Control, NEW c \in Calls, NEW s, NEW e, pc[c] # "new",
           Return(c, s, e), UNCHANGED <<wallet, ledger>>
    PROVE  Control'
  <1>1. pc'[c] = "done" /\ req'[c] = req[c]
    BY DEF Return, Goto, TypeOK
  <1>2. ControlOf(c)'
    BY <1>1 DEF ControlOf, Control
  <1>3. \A d \in Calls \ {c} :
           pc'[d] = pc[d] /\ req'[d] = req[d] /\ work'[d] = work[d] /\ reply'[d] = reply[d]
    BY DEF Return, Goto, TypeOK
  <1>4. QED
    BY <1>2, <1>3, ControlFrame

\* A call that only moves on to its next statement keeps Control if that
\* statement's precondition holds.
LEMMA GotoControl ==
    ASSUME TypeOK, Control, NEW c \in Calls, NEW label, Goto(c, label),
           UNCHANGED <<wallet, ledger, req, work, reply>>, ControlOf(c)'
    PROVE  Control'
  BY ControlFrame DEF Goto, TypeOK

\* The booking of c changes what other calls rely on only for the wallet and the
\* key or original that c holds, and Exclusion says that no other call holds them.
LEMMA CommitControl ==
    ASSUME TypeOK, Control, Exclusion, NEW c \in Calls, Commit(c)
    PROVE  Control'
  <1> DEFINE o == work[c].owner
  <1>1. /\ pc[c] = "commit"
        /\ wallet' = [wallet EXCEPT ![o] = [exists |-> TRUE, balance |-> work[c].bal,
                                             version |-> @.version + 1]]
        /\ ledger' = [ledger EXCEPT ![c] = NewRow(c)]
        /\ pc' = [pc EXCEPT ![c] = "done"]
        /\ work' = [work EXCEPT ![c] = NoWork]
        /\ req' = req
    BY DEF Commit, Return, Goto
  <1>2. ControlOf(c)'
    BY <1>1 DEF ControlOf, Control, TypeOK
  <1>3. ASSUME NEW d \in Calls, d # c
        PROVE  ControlOf(d)'
    <2>1. /\ pc'[d] = pc[d] /\ req'[d] = req[d] /\ work'[d] = work[d]
          /\ reply'[d] = reply[d] /\ ledger'[d] = ledger[d]
      BY <1>1, <1>3 DEF TypeOK, Commit, Return
    <2>2. ControlOf(d) /\ ControlOf(c)
      BY DEF Control
    <2>3. ledger[c] = NoRow /\ o \in Owners
      BY <1>1, <2>2, OwnerKnown DEF ControlOf
    <2>4. \A t \in Booked : t # c /\ t \in Booked' /\ ledger'[t] = ledger[t]
      BY <1>1, <2>3 DEF Booked, TypeOK
    <2>5. Booked' \subseteq Booked \cup {c}
      BY <1>1 DEF Booked, TypeOK
    <2>6. ASSUME pc[d] \in {"insert", "commit"}
          PROVE  NewBalance(d)' = NewBalance(d)
      <3>1. work[d].owner \in Owners /\ work[d].owner # o
        BY <1>1, <1>3, <2>3, <2>6, OwnerKnown DEF Exclusion, HoldsWallet
      <3>2. wallet'[work[d].owner] = wallet[work[d].owner]
        BY <1>1, <3>1 DEF TypeOK
      <3>3. QED
        BY <2>1, <3>2 DEF NewBalance
    <2>7. ASSUME pc[d] = "commit"
          PROVE  ~KeyTaken(d)' /\ ~ReversalTaken(d)'
      <3>1. ~KeyTaken(d) /\ ~ReversalTaken(d)
        BY <2>2, <2>7 DEF ControlOf
      <3>2. /\ req[d].key # None => req[c].key # req[d].key
            /\ req[d].target # None => req[c].target # req[d].target
        BY <1>1, <1>3, <2>7 DEF Exclusion
      <3>3. ledger'[c].key = req[c].key /\ ledger'[c].reversalOf = req[c].target
        BY <1>1 DEF TypeOK, NewRow
      <3>4. QED
        BY <2>1, <2>4, <2>5, <3>1, <3>2, <3>3
           DEF KeyTaken, ReversalTaken, UsesOf, ReversalsOf
    <2>8. QED
      BY <2>1, <2>2, <2>4, <2>6, <2>7 DEF ControlOf
  <1>4. QED
    BY <1>2, <1>3 DEF Control

LEMMA ControlStep ==
    ASSUME TypeOK, Control, Exclusion, [Next]_vars
    PROVE  Control'
  <1>1. ASSUME NEW c \in Calls, NEW o \in Owners, NEW a \in Amounts, NEW k \in Keys \cup {None},
               BeginPost(c, o, a, k)
        PROVE  Control'
    <2>1. ControlOf(c)'
      BY <1>1 DEF BeginPost, Goto, ControlOf, Control, TypeOK
    <2>2. QED
      BY <1>1, <2>1, ControlFrame DEF BeginPost, Goto, TypeOK
  <1>2. ASSUME NEW c \in Calls, NEW t \in Booked \cup {None}, BeginReverse(c, t)
        PROVE  Control'
    <2>1. ControlOf(c)'
      BY <1>2 DEF BeginReverse, Goto, ControlOf, Control, TypeOK
    <2>2. QED
      BY <1>2, <2>1, ControlFrame DEF BeginReverse, Goto, TypeOK
  <1>3. ASSUME NEW c \in Calls, LookupHit(c)
        PROVE  Control'
    BY <1>3, ReturnControl DEF LookupHit
  <1>4. ASSUME NEW c \in Calls, LookupMiss(c)
        PROVE  Control'
    <2>1. ControlOf(c)'
      BY <1>4 DEF LookupMiss, Goto, ControlOf, Control, TypeOK, Request
    <2>2. QED
      BY <1>4, <2>1, GotoControl DEF LookupMiss
  <1>5. ASSUME NEW c \in Calls, LoadOriginal(c)
        PROVE  Control'
    <2> DEFINE orig == ledger[req[c].target]
    <2>1. CASE orig.reversalOf # None
      BY <1>5, <2>1, ReturnControl DEF LoadOriginal
    <2>2. CASE orig.reversalOf = None
      <3>1. /\ work' = [work EXCEPT ![c].owner = orig.owner, ![c].delta = -orig.amount]
            /\ pc' = [pc EXCEPT ![c] = "checkReversed"]
            /\ UNCHANGED <<wallet, ledger, req, reply>>
        BY <1>5, <2>2 DEF LoadOriginal, Goto
      <3>2. work'[c].owner = orig.owner /\ work'[c].delta = -orig.amount
        BY <3>1 DEF TypeOK, Work
      <3>3. ControlOf(c)'
        BY <1>5, <2>2, <3>1, <3>2 DEF LoadOriginal, ControlOf, Control, TypeOK, Booked
      <3>4. QED
        BY <3>1, <3>3, ControlFrame DEF TypeOK
    <2>3. QED
      BY <2>1, <2>2
  <1>6. ASSUME NEW c \in Calls, LoadMissing(c)
        PROVE  Control'
    BY <1>6, ReturnControl DEF LoadMissing
  <1>7. ASSUME NEW c \in Calls, CheckReversed(c)
        PROVE  Control'
    <2>1. CASE ReversalsOf(req[c].target) # {}
      BY <1>7, <2>1, ReturnControl DEF CheckReversed
    <2>2. CASE ReversalsOf(req[c].target) = {}
      <3>1. Goto(c, "ensure") /\ UNCHANGED <<wallet, ledger, req, work, reply>>
        BY <1>7, <2>2 DEF CheckReversed
      <3>2. ControlOf(c)'
        BY <1>7, <3>1 DEF CheckReversed, Goto, ControlOf, Control, TypeOK, Booked
      <3>3. QED
        BY <3>1, <3>2, GotoControl
    <2>3. QED
      BY <2>1, <2>2
  <1>8. ASSUME NEW c \in Calls, EnsureWallet(c)
        PROVE  Control'
    <2>1. /\ pc[c] = "ensure"
          /\ pc' = [pc EXCEPT ![c] = "update"]
          /\ work'[c].owner = work[c].owner /\ work'[c].delta = work[c].delta
          /\ \A d \in Calls \ {c} : work'[d] = work[d]
          /\ UNCHANGED <<wallet, ledger, req, reply>>
      BY <1>8 DEF EnsureWallet, Goto, TypeOK, Work
    <2>2. ControlOf(c)'
      BY <2>1 DEF ControlOf, Control, TypeOK, Booked
    <2>3. QED
      BY <2>1, <2>2, ControlFrame DEF TypeOK
  <1>9. ASSUME NEW c \in Calls, ApplyDelta(c)
        PROVE  Control'
    <2>1. /\ pc[c] = "update"
          /\ pc' = [pc EXCEPT ![c] = "insert"]
          /\ work'[c].owner = work[c].owner /\ work'[c].delta = work[c].delta
          /\ work'[c].bal = NewBalance(c) /\ NewBalance(c) \in 0..MaxBalance
          /\ \A d \in Calls \ {c} : work'[d] = work[d]
          /\ UNCHANGED <<wallet, ledger, req, reply>>
      BY <1>9 DEF ApplyDelta, Goto, TypeOK, Work
    <2>2. NewBalance(c)' = NewBalance(c)
      BY <2>1 DEF NewBalance
    <2>3. ControlOf(c)'
      BY <2>1, <2>2 DEF ControlOf, Control, TypeOK, Booked
    <2>4. QED
      BY <2>1, <2>3, ControlFrame DEF TypeOK
  <1>10. ASSUME NEW c \in Calls, RefuseDelta(c)
         PROVE  Control'
    BY <1>10, ReturnControl DEF RefuseDelta
  <1>11. ASSUME NEW c \in Calls, OverflowDelta(c)
         PROVE  Control'
    BY <1>11, ReturnControl DEF OverflowDelta
  <1>12. ASSUME NEW c \in Calls, InsertRow(c)
         PROVE  Control'
    <2>1. ControlOf(c)'
      BY <1>12 DEF InsertRow, Goto, ControlOf, Control, TypeOK, Booked, NewBalance,
         KeyTaken, ReversalTaken, UsesOf, ReversalsOf
    <2>2. QED
      BY <1>12, <2>1, GotoControl DEF InsertRow
  <1>13. ASSUME NEW c \in Calls, InsertConflict(c)
         PROVE  Control'
    <2>1. CASE KeyTaken(c)
      <3>1. /\ pc[c] = "insert"
            /\ pc' = [pc EXCEPT ![c] = "reread"]
            /\ work' = [work EXCEPT ![c] = NoWork]
            /\ UNCHANGED <<wallet, ledger, req, reply>>
        BY <1>13, <2>1 DEF InsertConflict, Goto
      <3>2. ControlOf(c)'
        BY <2>1, <3>1 DEF ControlOf, Control, TypeOK, KeyTaken
      <3>3. QED
        BY <3>1, <3>2, ControlFrame DEF TypeOK
    <2>2. CASE ~KeyTaken(c)
      BY <1>13, <2>2, ReturnControl DEF InsertConflict
    <2>3. QED
      BY <2>1, <2>2
  <1>14. ASSUME NEW c \in Calls, RereadKey(c)
         PROVE  Control'
    BY <1>14, ReturnControl DEF RereadKey
  <1>15. ASSUME NEW c \in Calls, Commit(c)
         PROVE  Control'
    BY <1>15, CommitControl
  <1>16. ASSUME NEW c \in Calls, Abort(c)
         PROVE  Control'
    BY <1>16, ReturnControl DEF Abort, Running
  <1>17. CASE UNCHANGED vars
    BY <1>17 DEF vars, Control, ControlOf, NewBalance, KeyTaken, ReversalTaken, UsesOf,
       ReversalsOf, Booked
  <1>18. QED
    BY <1>1, <1>2, <1>3, <1>4, <1>5, <1>6, <1>7, <1>8, <1>9, <1>10, <1>11, <1>12, <1>13,
       <1>14, <1>15, <1>16, <1>17 DEF Next, Begin, Advance, AllDone

\* A step that changes only call c's own state keeps Exclusion if the wallet c then
\* holds was free and, when c is then about to commit, no rival is.
LEMMA ExclusionFrame ==
    ASSUME Exclusion, NEW c \in Calls,
           \A d \in Calls \ {c} : pc'[d] = pc[d] /\ req'[d] = req[d] /\ work'[d] = work[d],
           \A o \in Owners : HoldsWallet(c, o)' => WalletFree(c, o),
           pc'[c] = "commit" => req'[c] = req[c] /\ ~IndexBusy(c)
    PROVE  Exclusion'
  <1> SUFFICES ASSUME NEW d \in Calls, NEW e \in Calls, d # e
               PROVE  /\ \A o \in Owners : ~(HoldsWallet(d, o)' /\ HoldsWallet(e, o)')
                      /\ pc'[d] = "commit" /\ pc'[e] = "commit" =>
                           /\ req'[d].key = req'[e].key => req'[d].key = None
                           /\ req'[d].target = req'[e].target => req'[d].target = None
    BY DEF Exclusion
  <1>1. CASE d # c /\ e # c
    BY <1>1 DEF Exclusion, HoldsWallet
  <1>2. CASE d = c \/ e = c
    BY <1>2 DEF HoldsWallet, WalletFree, IndexBusy
  <1>3. QED
    BY <1>1, <1>2

\* A call that returns, or is in no statement that holds a wallet, holds none.
LEMMA IdleExclusion ==
    ASSUME Exclusion, NEW c \in Calls, pc'[c] \notin {"update", "insert", "commit"},
           \A d \in Calls \ {c} : pc'[d] = pc[d] /\ req'[d] = req[d] /\ work'[d] = work[d]
    PROVE  Exclusion'
  BY ExclusionFrame DEF HoldsWallet

LEMMA ExclusionStep ==
    ASSUME TypeOK, Control, Exclusion, [Next]_vars
    PROVE  Exclusion'
  <1>1. ASSUME NEW c \in Calls, Begin(c)
        PROVE  Exclusion'
    BY <1>1, IdleExclusion DEF Begin, BeginPost, BeginReverse, Goto, TypeOK
  <1>2. ASSUME NEW c \in Calls, NEW s, NEW e, Return(c, s, e)
        PROVE  Exclusion'
    BY <1>2, IdleExclusion DEF Return, Goto, TypeOK
  <1>3. ASSUME NEW c \in Calls, LookupMiss(c) \/ LoadOriginal(c) \/ CheckReversed(c)
        PROVE  Exclusion'
    <2>1. CASE \E s, e : Return(c, s, e)
      BY <2>1, <1>2
    <2>2. CASE ~ \E s, e : Return(c, s, e)
      <3>1. /\ pc' = [pc EXCEPT ![c] = "ensure"] \/ pc' = [pc EXCEPT ![c] = "checkReversed"]
            /\ req' = req
            /\ \A d \in Calls \ {c} : work'[d] = work[d]
        BY <1>3, <2>2 DEF LookupMiss, LoadOriginal, CheckReversed, Goto, TypeOK
      <3>2. QED
        BY <3>1, IdleExclusion DEF TypeOK
    <2>3. QED
      BY <2>1, <2>2
  <1>4. ASSUME NEW c \in Calls, EnsureWallet(c)
        PROVE  Exclusion'
    <2>1. /\ pc' = [pc EXCEPT ![c] = "update"]
          /\ work'[c].owner = work[c].owner
          /\ work'[c].created => WalletFree(c, work[c].owner)
          /\ \A d \in Calls \ {c} : work'[d] = work[d]
          /\ req' = req
      BY <1>4 DEF EnsureWallet, Goto, TypeOK, Work
    <2>2. \A o \in Owners : HoldsWallet(c, o)' => WalletFree(c, o)
      BY <2>1 DEF HoldsWallet, TypeOK
    <2>3. QED
      BY <2>1, <2>2, ExclusionFrame DEF TypeOK
  <1>5. ASSUME NEW c \in Calls, ApplyDelta(c)
        PROVE  Exclusion'
    <2>1. /\ pc' = [pc EXCEPT ![c] = "insert"]
          /\ work'[c].owner = work[c].owner
          /\ WalletFree(c, work[c].owner)
          /\ \A d \in Calls \ {c} : work'[d] = work[d]
          /\ req' = req
      BY <1>5 DEF ApplyDelta, Goto, TypeOK, Work
    <2>2. \A o \in Owners : HoldsWallet(c, o)' => WalletFree(c, o)
      BY <2>1 DEF HoldsWallet
    <2>3. QED
      BY <2>1, <2>2, ExclusionFrame DEF TypeOK
  <1>6. ASSUME NEW c \in Calls, InsertRow(c)
        PROVE  Exclusion'
    <2>1. /\ pc[c] = "insert" /\ ~IndexBusy(c)
          /\ pc' = [pc EXCEPT ![c] = "commit"]
          /\ UNCHANGED <<req, work>>
      BY <1>6 DEF InsertRow, Goto
    <2>2. \A o \in Owners : HoldsWallet(c, o)' => WalletFree(c, o)
      BY <2>1 DEF HoldsWallet, WalletFree, Exclusion
    <2>3. QED
      BY <2>1, <2>2, ExclusionFrame DEF TypeOK
  <1>7. ASSUME NEW c \in Calls, InsertConflict(c)
        PROVE  Exclusion'
    <2>1. CASE KeyTaken(c)
      BY <1>7, <2>1, IdleExclusion DEF InsertConflict, Goto, TypeOK
    <2>2. CASE ~KeyTaken(c)
      BY <1>7, <2>2, <1>2 DEF InsertConflict
    <2>3. QED
      BY <2>1, <2>2
  <1>8. ASSUME NEW c \in Calls,
               \/ LookupHit(c) \/ LoadMissing(c) \/ RefuseDelta(c) \/ OverflowDelta(c)
               \/ RereadKey(c) \/ Commit(c) \/ Abort(c)
        PROVE  Exclusion'
    BY <1>8, <1>2 DEF LookupHit, LoadMissing, RefuseDelta, OverflowDelta, RereadKey, Commit, Abort
  <1>9. CASE UNCHANGED vars
    BY <1>9 DEF vars, Exclusion, HoldsWallet
  <1>10. QED
    BY <1>1, <1>3, <1>4, <1>5, <1>6, <1>7, <1>8, <1>9 DEF Next, Advance, AllDone

\* The control state, the locks and the unique index entries of open transactions are
\* what LockDiscipline says, in every reachable state.
THEOREM LocksHold == Spec => [](TypeOK /\ LockDiscipline)
  <1>1. Init => TypeOK /\ LockDiscipline
    BY InitInv DEF LockDiscipline
  <1>2. TypeOK /\ LockDiscipline /\ [Next]_vars => (TypeOK /\ LockDiscipline)'
    BY TypeStep, ControlStep, ExclusionStep DEF LockDiscipline
  <1>3. QED
    BY <1>1, <1>2, PTL DEF Spec

\* Every variable keeps its type; in particular no committed balance is negative or
\* beyond the column's range.
THEOREM TypeCorrect == Spec => []TypeOK
  BY LocksHold, PTL

-----------------------------------------------------------------------------
(* The committed tables change in a Commit only, and what a Commit does.   *)

LEMMA TablesChange ==
    ASSUME [Next]_vars
    PROVE  UNCHANGED <<wallet, ledger>> \/ \E c \in Calls : Commit(c)
  BY DEF Next, vars, Begin, Advance, AllDone, BeginPost, BeginReverse, LookupHit, LookupMiss,
     LoadOriginal, LoadMissing, CheckReversed, EnsureWallet, ApplyDelta, RefuseDelta,
     OverflowDelta, InsertRow, InsertConflict, RereadKey, Abort

\* What a Commit does to the tables, under the locks it holds.
LEMMA CommitEffect ==
    ASSUME TypeOK, LockDiscipline, NEW c \in Calls, Commit(c)
    PROVE  /\ work[c].owner \in Owners
           /\ c \notin Booked
           /\ Booked' = Booked \cup {c}
           /\ \A d \in Booked : ledger'[d] = ledger[d]
           /\ ledger'[c] = NewRow(c)
           /\ \A o \in Owners \ {work[c].owner} : wallet'[o] = wallet[o]
           /\ wallet'[work[c].owner] =
                [exists |-> TRUE, balance |-> wallet[work[c].owner].balance + work[c].delta,
                 version |-> wallet[work[c].owner].version + 1]
           /\ wallet[work[c].owner].balance + work[c].delta \in 0..MaxBalance
           /\ work[c].bal = wallet[work[c].owner].balance + work[c].delta
           /\ ~KeyTaken(c) /\ ~ReversalTaken(c)
  <1>1. pc[c] = "commit" /\ ControlOf(c)
    BY DEF Commit, LockDiscipline, Control
  <1>2. work[c].owner \in Owners
    BY <1>1, OwnerKnown DEF LockDiscipline
  <1>3. NewRow(c) # NoRow
    BY <1>2, CoinAssumption DEF NewRow, NoRow
  <1>4. QED
    BY <1>1, <1>2, <1>3 DEF Commit, TypeOK, ControlOf, Booked, NewBalance

LEMMA BalanceChainStep ==
    ASSUME TypeOK, LockDiscipline, BalanceChain, [Next]_vars
    PROVE  BalanceChain'
  <1>1. CASE UNCHANGED <<wallet, ledger>>
    BY <1>1 DEF BalanceChain, RowsOf, Booked
  <1>2. ASSUME NEW c \in Calls, Commit(c)
        PROVE  BalanceChain'
    <2>0. PICK w \in Owners : w = work[c].owner
      BY <1>2, CommitEffect
    <2>1. /\ w \in Owners /\ c \notin Booked
          /\ \A o \in Owners \ {w} : RowsOf(o)' = RowsOf(o) /\ wallet'[o] = wallet[o]
          /\ RowsOf(w)' = RowsOf(w) \cup {c}
          /\ \A d \in Booked : ledger'[d] = ledger[d]
      <3>1. /\ c \notin Booked /\ Booked' = Booked \cup {c}
            /\ \A d \in Booked : ledger'[d] = ledger[d]
            /\ ledger'[c] = NewRow(c)
            /\ \A o \in Owners \ {w} : wallet'[o] = wallet[o]
        BY <1>2, <2>0, CommitEffect
      <3>2. ledger'[c].owner = w
        BY <2>0, <3>1 DEF NewRow
      <3>3. QED
        BY <3>1, <3>2 DEF RowsOf
    <2>2. /\ wallet[w].version \in Nat /\ wallet[w].balance \in Nat
          /\ \A d \in Booked : ledger[d].balanceAfter \in Int /\ ledger[d].amount \in Int
      BY <2>1, CoinAssumption DEF TypeOK, Wallet, Booked, Row
    <2>3. /\ wallet'[w].exists /\ wallet'[w].version = wallet[w].version + 1
          /\ wallet'[w].balance = wallet[w].balance + work[c].delta
          /\ wallet'[w].balance \in 0..MaxBalance
          /\ ledger'[c].owner = w /\ ledger'[c].amount = work[c].delta
          /\ ledger'[c].seq = wallet[w].version + 1
          /\ ledger'[c].balanceAfter = wallet'[w].balance
          /\ work[c].delta \in Int
      <3>1. /\ ledger'[c] = NewRow(c)
            /\ wallet'[w] = [exists |-> TRUE, balance |-> wallet[w].balance + work[c].delta,
                              version |-> wallet[w].version + 1]
            /\ wallet[w].balance + work[c].delta \in 0..MaxBalance
            /\ work[c].bal = wallet[w].balance + work[c].delta
        BY <1>2, <2>0, CommitEffect
      <3>2. work[c].delta \in Int
        BY DEF TypeOK, Work
      <3>3. QED
        BY <2>0, <3>1, <3>2 DEF NewRow
    <2>4. ASSUME NEW o \in Owners \ {w}
          PROVE  /\ RowsOf(o) \subseteq Booked
                 /\ \A d \in RowsOf(o) : ledger'[d] = ledger[d]
      BY <2>1 DEF RowsOf
    <2>5. /\ wallet[w].version = 0 => wallet[w].balance = 0
          /\ \A d \in RowsOf(w) :
                /\ d \in Booked /\ ledger'[d] = ledger[d]
                /\ ledger[d].seq \in 1..wallet[w].version
                /\ ledger[d].balanceAfter >= 0
                /\ ledger[d].seq = 1 => ledger[d].balanceAfter = ledger[d].amount
                /\ ledger[d].seq = wallet[w].version => wallet[w].balance = ledger[d].balanceAfter
                /\ \A e \in RowsOf(w) :
                      /\ ledger[e].seq = ledger[d].seq => e = d
                      /\ ledger[e].seq = ledger[d].seq + 1 =>
                           ledger[e].balanceAfter = ledger[d].balanceAfter + ledger[e].amount
          /\ \A n \in 1..wallet[w].version : \E d \in RowsOf(w) : ledger[d].seq = n
      BY <2>1 DEF BalanceChain, RowsOf
    <2>6. \A d \in RowsOf(w)' :
             /\ ledger'[d].seq \in 1..wallet'[w].version
             /\ ledger'[d].balanceAfter >= 0
             /\ ledger'[d].seq = 1 => ledger'[d].balanceAfter = ledger'[d].amount
             /\ ledger'[d].seq = wallet'[w].version => wallet'[w].balance = ledger'[d].balanceAfter
      BY <2>1, <2>2, <2>3, <2>5
    <2>7. \A d, e \in RowsOf(w)' :
             /\ ledger'[e].seq = ledger'[d].seq => e = d
             /\ ledger'[e].seq = ledger'[d].seq + 1 =>
                  ledger'[e].balanceAfter = ledger'[d].balanceAfter + ledger'[e].amount
      BY <2>1, <2>2, <2>3, <2>5
    <2>8. \A n \in 1..wallet'[w].version : \E d \in RowsOf(w)' : ledger'[d].seq = n
      BY <2>1, <2>2, <2>3, <2>5
    <2>9. ASSUME NEW o \in Owners
          PROVE  /\ wallet'[o].exists <=> wallet'[o].version > 0
                 /\ wallet'[o].version = 0 => wallet'[o].balance = 0
                 /\ \A d \in RowsOf(o)' :
                       /\ ledger'[d].seq \in 1..wallet'[o].version
                       /\ ledger'[d].balanceAfter >= 0
                       /\ ledger'[d].seq = 1 => ledger'[d].balanceAfter = ledger'[d].amount
                       /\ ledger'[d].seq = wallet'[o].version
                            => wallet'[o].balance = ledger'[d].balanceAfter
                       /\ \A e \in RowsOf(o)' :
                             /\ ledger'[e].seq = ledger'[d].seq => e = d
                             /\ ledger'[e].seq = ledger'[d].seq + 1 =>
                                  ledger'[e].balanceAfter
                                    = ledger'[d].balanceAfter + ledger'[e].amount
                 /\ \A n \in 1..wallet'[o].version : \E d \in RowsOf(o)' : ledger'[d].seq = n
      <3>1. CASE o = w
        BY <3>1, <2>2, <2>3, <2>6, <2>7, <2>8
      <3>2. CASE o # w
        BY <3>2, <2>1, <2>4 DEF BalanceChain
      <3>3. QED
        BY <3>1, <3>2
    <2>10. QED
      BY <2>9 DEF BalanceChain
  <1>3. QED
    BY <1>1, <1>2, TablesChange

LEMMA KeyStep ==
    ASSUME TypeOK, LockDiscipline, BookedOncePerKey, [Next]_vars
    PROVE  BookedOncePerKey'
  <1>1. CASE UNCHANGED <<wallet, ledger>>
    BY <1>1 DEF BookedOncePerKey, Booked
  <1>2. ASSUME NEW c \in Calls, Commit(c)
        PROVE  BookedOncePerKey'
    <2>1. /\ Booked' = Booked \cup {c}
          /\ \A d \in Booked : ledger'[d] = ledger[d]
          /\ ledger'[c].key = req[c].key
          /\ req[c].key # None => \A d \in Booked : ledger[d].key # req[c].key
      <3>1. /\ Booked' = Booked \cup {c}
            /\ \A d \in Booked : ledger'[d] = ledger[d]
            /\ ledger'[c] = NewRow(c)
            /\ ~KeyTaken(c)
        BY <1>2, CommitEffect
      <3>2. QED
        BY <3>1 DEF NewRow, KeyTaken, UsesOf
    <2>2. QED
      BY <2>1 DEF BookedOncePerKey
  <1>3. QED
    BY <1>1, <1>2, TablesChange

LEMMA ReversalStep ==
    ASSUME TypeOK, LockDiscipline, BalanceChain, ReversalsNetToZero, [Next]_vars
    PROVE  ReversalsNetToZero'
  <1>1. CASE UNCHANGED <<wallet, ledger>>
    BY <1>1 DEF ReversalsNetToZero, Booked, ReversalsOf
  <1>2. ASSUME NEW c \in Calls, Commit(c)
        PROVE  ReversalsNetToZero'
    <2>1. /\ Booked' = Booked \cup {c} /\ c \notin Booked
          /\ \A d \in Booked : ledger'[d] = ledger[d]
          /\ ledger'[c] = NewRow(c)
          /\ ~ReversalTaken(c)
          /\ work[c].owner \in Owners
      BY <1>2, CommitEffect
    <2>2. ControlOf(c) /\ pc[c] = "commit"
      BY <1>2 DEF LockDiscipline, Control, Commit
    <2>3. SUFFICES ASSUME NEW d \in Booked', NEW t, t = ledger'[d].reversalOf, t # None
                   PROVE  /\ t \in Booked'
                          /\ ledger'[t].reversalOf = None
                          /\ ledger'[t].owner = ledger'[d].owner
                          /\ ledger'[t].amount + ledger'[d].amount = 0
                          /\ ledger'[t].seq < ledger'[d].seq
                          /\ ReversalsOf(t)' = {d}
      BY DEF ReversalsNetToZero
    <2>4. CASE d = c
      <3>1. t = req[c].target /\ req[c].kind = "reverse"
        BY <2>1, <2>2, <2>3, <2>4 DEF NewRow, ControlOf, TypeOK, Request
      <3>2. /\ t \in Booked /\ ledger[t].reversalOf = None
            /\ work[c].owner = ledger[t].owner /\ work[c].delta = -ledger[t].amount
        BY <2>2, <3>1 DEF ControlOf
      <3>3. ledger[t].amount \in Int /\ wallet[ledger[t].owner].version \in Nat
        BY <2>1, <3>2 DEF TypeOK, Booked, Row, Wallet
      <3>4. ledger[t].seq \in 1..wallet[ledger[t].owner].version
        BY <2>1, <3>2 DEF BalanceChain, RowsOf
      <3>5. ReversalsOf(t)' = {c}
        BY <2>1, <2>3, <2>4, <3>1 DEF ReversalsOf, ReversalTaken
      <3>6. QED
        BY <2>1, <2>4, <3>2, <3>3, <3>4, <3>5 DEF NewRow
    <2>5. CASE d # c
      <3>1. d \in Booked /\ ledger'[d] = ledger[d]
        BY <2>1, <2>5
      <3>2. /\ t \in Booked /\ ledger'[t] = ledger[t]
            /\ ReversalsOf(t) = {d}
        BY <2>1, <2>3, <3>1 DEF ReversalsNetToZero
      <3>3. ledger'[c].reversalOf # t
        BY <2>1, <2>3, <3>1, <3>2 DEF NewRow, ReversalTaken
      <3>4. ReversalsOf(t)' = {d}
        BY <2>1, <3>2, <3>3 DEF ReversalsOf
      <3>5. QED
        BY <2>1, <2>3, <3>1, <3>2, <3>4 DEF ReversalsNetToZero
    <2>6. QED
      BY <2>4, <2>5
  <1>3. QED
    BY <1>1, <1>2, TablesChange

-----------------------------------------------------------------------------
(* Replies.                                                                *)

\* A reply, once true, stays true as the tables grow by rows of calls that have not
\* replied yet.
LEMMA ReplyPersists ==
    ASSUME NEW d \in Calls, ReplyTrue(d), reply'[d] = reply[d], req'[d] = req[d],
           Booked \subseteq Booked', \A e \in Booked : ledger'[e] = ledger[e],
           d \in Booked' => d \in Booked \/ reply[d] = NoReply
    PROVE  ReplyTrue(d)'
  BY DEF ReplyTrue, ReversalsOf, NoReply

\* A refusal is told while no row of the call exists and the tables stand still.
LEMMA ReplyOfRefusal ==
    ASSUME TypeOK, LockDiscipline, NEW c \in Calls, NEW s \in Statuses \ {"booked", "replayed"},
           pc[c] # "done", Return(c, s, None), UNCHANGED <<wallet, ledger>>,
           s = "alreadyReversed" => ReversalsOf(req[c].target) # {}
    PROVE  ReplyTrue(c)'
  <1>1. reply'[c] = [status |-> s, entry |-> None] /\ req' = req /\ ledger[c] = NoRow
    BY DEF Return, TypeOK, LockDiscipline, Control, ControlOf
  <1>2. QED
    BY <1>1 DEF ReplyTrue, ReversalsOf, Booked, Statuses

LEMMA ReplyOfReplay ==
    ASSUME TypeOK, LockDiscipline, NEW c \in Calls, pc[c] \in {"lookup", "reread"},
           NEW d \in UsesOf(req[c].key), Return(c, "replayed", d), UNCHANGED <<wallet, ledger>>
    PROVE  ReplyTrue(c)'
  <1>1. reply'[c] = [status |-> "replayed", entry |-> d] /\ req' = req
    BY DEF Return, TypeOK
  <1>2. ledger[c] = NoRow /\ req[c].key # None
    BY DEF LockDiscipline, Control, ControlOf
  <1>3. QED
    BY <1>1, <1>2 DEF ReplyTrue, UsesOf, Booked

LEMMA RepliesStep ==
    ASSUME TypeOK, LockDiscipline, RepliesAreTrue, [Next]_vars
    PROVE  RepliesAreTrue'
  <1>1. \A d \in Calls : ReplyTrue(d)
    BY DEF RepliesAreTrue
  <1>2. SUFFICES ASSUME NEW d \in Calls PROVE ReplyTrue(d)'
    BY DEF RepliesAreTrue
  <1>3. /\ Booked \subseteq Booked' /\ \A e \in Booked : ledger'[e] = ledger[e]
        /\ d \in Booked' => d \in Booked \/ reply[d] = NoReply
    <2>1. CASE UNCHANGED <<wallet, ledger>>
      BY <2>1 DEF Booked
    <2>2. ASSUME NEW c \in Calls, Commit(c)
          PROVE  /\ Booked \subseteq Booked' /\ \A e \in Booked : ledger'[e] = ledger[e]
                 /\ d \in Booked' => d \in Booked \/ reply[d] = NoReply
      <3>1. /\ Booked' = Booked \cup {c}
            /\ \A e \in Booked : ledger'[e] = ledger[e]
        BY <2>2, CommitEffect
      <3>2. reply[c] = NoReply
        BY <2>2 DEF Commit, LockDiscipline, Control, ControlOf
      <3>3. QED
        BY <3>1, <3>2
    <2>3. QED
      BY <2>1, <2>2, TablesChange
  <1>4. CASE reply'[d] = reply[d] /\ req'[d] = req[d]
    BY <1>1, <1>3, <1>4, ReplyPersists
  <1>5. ASSUME NEW c \in Calls, Begin(c)
        PROVE  ReplyTrue(d)'
    <2>1. CASE d = c
      <3>1. reply[c] = NoReply /\ ledger[c] = NoRow /\ reply' = reply
        BY <1>5 DEF Begin, BeginPost, BeginReverse, LockDiscipline, Control, ControlOf
      <3>2. QED
        BY <2>1, <3>1 DEF ReplyTrue, NoReply
    <2>2. CASE d # c
      BY <1>4, <1>5, <2>2 DEF Begin, BeginPost, BeginReverse, TypeOK
    <2>3. QED
      BY <2>1, <2>2
  <1>6. ASSUME NEW c \in Calls, UNCHANGED <<req, reply>>
        PROVE  ReplyTrue(d)'
    BY <1>4, <1>6
  <1>7. ASSUME NEW c \in Calls, NEW s, NEW e, Return(c, s, e), d # c
        PROVE  ReplyTrue(d)'
    BY <1>4, <1>7 DEF Return, TypeOK
  <1>8. ASSUME NEW c \in Calls, LookupHit(c) \/ RereadKey(c)
        PROVE  ReplyTrue(d)'
    BY <1>7, <1>8, ReplyOfReplay DEF LookupHit, RereadKey
  <1>9. ASSUME NEW c \in Calls, NEW s \in Statuses \ {"booked", "replayed"}, pc[c] # "done",
               Return(c, s, None), UNCHANGED <<wallet, ledger>>,
               s = "alreadyReversed" => ReversalsOf(req[c].target) # {}
        PROVE  ReplyTrue(d)'
    BY <1>7, <1>9, ReplyOfRefusal
  <1>10. ASSUME NEW c \in Calls, LoadMissing(c) \/ RefuseDelta(c) \/ OverflowDelta(c) \/ Abort(c)
         PROVE  ReplyTrue(d)'
    BY <1>9, <1>10 DEF LoadMissing, RefuseDelta, OverflowDelta, Abort, Statuses, Running
  <1>11. ASSUME NEW c \in Calls, LoadOriginal(c) \/ CheckReversed(c) \/ InsertConflict(c)
         PROVE  ReplyTrue(d)'
    BY <1>6, <1>9, <1>11 DEF LoadOriginal, CheckReversed, InsertConflict, ReversalTaken, Statuses
  <1>12. ASSUME NEW c \in Calls,
                LookupMiss(c) \/ EnsureWallet(c) \/ ApplyDelta(c) \/ InsertRow(c)
         PROVE  ReplyTrue(d)'
    BY <1>6, <1>12 DEF LookupMiss, EnsureWallet, ApplyDelta, InsertRow
  <1>13. ASSUME NEW c \in Calls, Commit(c)
         PROVE  ReplyTrue(d)'
    <2>1. CASE d = c
      <3>1. c \in Booked' /\ req' = req
        BY <1>13, CommitEffect DEF Commit, Return
      <3>2. \/ reply'[c] = [status |-> "booked", entry |-> c]
            \/ reply'[c] = [status |-> "failed", entry |-> None]
        BY <1>13 DEF Commit, Return, TypeOK
      <3>3. QED
        BY <2>1, <3>1, <3>2 DEF ReplyTrue
    <2>2. CASE d # c
      BY <1>7, <1>13, <2>2 DEF Commit
    <2>3. QED
      BY <2>1, <2>2
  <1>14. CASE UNCHANGED vars
    BY <1>4, <1>14 DEF vars
  <1>15. QED
    BY <1>5, <1>8, <1>10, <1>11, <1>12, <1>13, <1>14 DEF Next, Advance, AllDone

-----------------------------------------------------------------------------
(* The theorems.                                                           *)

Inv == TypeOK /\ LockDiscipline /\ BalanceChain /\ BookedOncePerKey /\ ReversalsNetToZero
         /\ RepliesAreTrue

LEMMA InvInit == Init => Inv
  <1> SUFFICES ASSUME Init PROVE Inv
    OBVIOUS
  <1>1. TypeOK /\ LockDiscipline
    BY InitInv DEF LockDiscipline
  <1>2. Booked = {}
    BY DEF Init, Booked
  <1>3. BalanceChain
    BY <1>2 DEF Init, BalanceChain, RowsOf, NoWallet
  <1>4. BookedOncePerKey /\ ReversalsNetToZero
    BY <1>2 DEF BookedOncePerKey, ReversalsNetToZero
  <1>5. RepliesAreTrue
    BY <1>2 DEF Init, RepliesAreTrue, ReplyTrue, NoReply
  <1>6. QED
    BY <1>1, <1>3, <1>4, <1>5 DEF Inv

\* In every reachable state the balances are what the rows add up to, no key is booked
\* twice, reversals net to zero, and every reply is true of the books.
THEOREM Safety == Spec => []Inv
  <1>1. Inv /\ [Next]_vars => Inv'
    BY TypeStep, ControlStep, ExclusionStep, BalanceChainStep, KeyStep, ReversalStep, RepliesStep
       DEF Inv, LockDiscipline
  <1>2. QED
    BY InvInit, <1>1, PTL DEF Spec

\* The wallet's balance is explained row by row by its ledger: no concurrent post or
\* reversal is ever lost, and none makes a balance negative.
THEOREM BalanceExplained == Spec => []BalanceChain
  BY Safety, PTL DEF Inv

\* An idempotency key is booked at most once.
THEOREM ExactlyOnce == Spec => []BookedOncePerKey
  BY Safety, PTL DEF Inv

\* A row is cancelled at most once, in full, and a cancellation is final.
THEOREM ReversedOnce == Spec => []ReversalsNetToZero
  BY Safety, PTL DEF Inv

\* Acknowledgements and refusals are true of the books for ever.
THEOREM RepliesCorrect == Spec => []RepliesAreTrue
  BY Safety, PTL DEF Inv

\* One Commit books one row and moves one wallet by its amount.
LEMMA AppendStep ==
    ASSUME TypeOK, LockDiscipline, [Next]_vars
    PROVE  /\ \A d \in Booked : ledger'[d] = ledger[d]
           /\ \A o \in Owners :
                 IF \E c \in Calls \ Booked : ledger'[c] # NoRow /\ ledger'[c].owner = o
                 THEN \E c \in Calls \ Booked :
                         /\ ledger'[c] # NoRow /\ ledger'[c].owner = o
                         /\ wallet'[o].balance = wallet[o].balance + ledger'[c].amount
                         /\ wallet'[o].version = wallet[o].version + 1
                 ELSE wallet'[o] = wallet[o]
  <1>1. CASE UNCHANGED <<wallet, ledger>>
    BY <1>1 DEF Booked
  <1>2. ASSUME NEW c \in Calls, Commit(c)
        PROVE  /\ \A d \in Booked : ledger'[d] = ledger[d]
               /\ \A o \in Owners :
                     IF \E e \in Calls \ Booked : ledger'[e] # NoRow /\ ledger'[e].owner = o
                     THEN \E e \in Calls \ Booked :
                             /\ ledger'[e] # NoRow /\ ledger'[e].owner = o
                             /\ wallet'[o].balance = wallet[o].balance + ledger'[e].amount
                             /\ wallet'[o].version = wallet[o].version + 1
                     ELSE wallet'[o] = wallet[o]
    <2>1. /\ c \notin Booked /\ Booked' = Booked \cup {c}
          /\ \A d \in Booked : ledger'[d] = ledger[d]
          /\ ledger'[c] = NewRow(c)
          /\ \A o \in Owners \ {work[c].owner} : wallet'[o] = wallet[o]
          /\ wallet'[work[c].owner] =
               [exists |-> TRUE, balance |-> wallet[work[c].owner].balance + work[c].delta,
                version |-> wallet[work[c].owner].version + 1]
      BY <1>2, CommitEffect
    <2>2. ledger'[c].owner = work[c].owner /\ ledger'[c].amount = work[c].delta
      BY <2>1 DEF NewRow
    <2>3. \A e \in Calls \ Booked : ledger'[e] # NoRow => e = c
      BY <2>1 DEF Booked
    <2>4. c \in Calls \ Booked /\ ledger'[c] # NoRow
      BY <2>1 DEF Booked
    <2>5. QED
      BY <2>1, <2>2, <2>3, <2>4
  <1>3. QED
    BY <1>1, <1>2, TablesChange

\* Rows are immutable, and the wallets move only with them.
THEOREM LedgerAppendOnly == Spec => AppendOnly
  <1>1. TypeOK /\ LockDiscipline /\ [Next]_vars =>
          [ /\ \A d \in Booked : ledger'[d] = ledger[d]
            /\ \A o \in Owners :
                  IF \E c \in Calls \ Booked : ledger'[c] # NoRow /\ ledger'[c].owner = o
                  THEN \E c \in Calls \ Booked :
                          /\ ledger'[c] # NoRow /\ ledger'[c].owner = o
                          /\ wallet'[o].balance = wallet[o].balance + ledger'[c].amount
                          /\ wallet'[o].version = wallet[o].version + 1
                  ELSE wallet'[o] = wallet[o] ]_vars
    BY AppendStep
  <1>2. QED
    BY <1>1, LocksHold, PTL DEF Spec, AppendOnly

-----------------------------------------------------------------------------
(* Refinement.                                                             *)

\* The abstract book holds the same entries.
LEMMA AbstractTables ==
    ASSUME TypeOK
    PROVE  /\ Abstract!Booked = Booked
           /\ \A k : Abstract!UsesOf(k) = UsesOf(k)
           /\ \A t : Abstract!ReversalsOf(t) = ReversalsOf(t)
  <1>1. \A d \in Calls : BookEntry(d) # Abstract!NoEntry <=> ledger[d] # NoRow
    BY CoinAssumption DEF TypeOK, Row, NoRow, BookEntry, Abstract!NoEntry
  <1>2. Abstract!Booked = Booked
    BY <1>1 DEF Abstract!Booked, Booked
  <1>3. QED
    BY <1>2 DEF Abstract!UsesOf, Abstract!ReversalsOf, UsesOf, ReversalsOf, BookEntry, Booked

LEMMA AbstractInit == Init => Abstract!Init
  BY DEF Init, Abstract!Init, NoWallet, NoRow, BookEntry, Abstract!NoEntry

\* A Commit is one abstract booking or one abstract reversal.
LEMMA CommitRefines ==
    ASSUME TypeOK, LockDiscipline, NEW c \in Calls, Commit(c)
    PROVE  Abstract!Next
  <1> DEFINE balance == [o \in Owners |-> wallet[o].balance]
             book == [d \in Calls |-> BookEntry(d)]
             a == work[c].delta
  <1>1. PICK w \in Owners : w = work[c].owner
    BY CommitEffect
  <1>2. /\ c \notin Booked /\ Booked' = Booked \cup {c}
        /\ \A d \in Booked : ledger'[d] = ledger[d]
        /\ ledger'[c] = NewRow(c)
        /\ \A o \in Owners \ {w} : wallet'[o] = wallet[o]
        /\ wallet'[w] = [exists |-> TRUE, balance |-> wallet[w].balance + a,
                          version |-> wallet[w].version + 1]
        /\ wallet[w].balance + a \in 0..MaxBalance
        /\ ~KeyTaken(c) /\ ~ReversalTaken(c)
    BY <1>1, CommitEffect
  <1>3. balance' = [balance EXCEPT ![w] = @ + a]
    <2>1. wallet'[w].balance = balance[w] + a
      BY <1>2
    <2>2. \A o \in Owners \ {w} : wallet'[o].balance = balance[o]
      BY <1>2
    <2>3. QED
      BY <2>1, <2>2
  <1>4. ledger' = [ledger EXCEPT ![c] = NewRow(c)]
    BY DEF Commit
  <1>5. book' = [book EXCEPT ![c] = [owner |-> w, amount |-> a,
                                     key |-> req[c].key, reversalOf |-> req[c].target]]
    BY <1>1, <1>4 DEF BookEntry, NewRow, TypeOK
  <1>6. Abstract!Enter(c, w, a, req[c].key, req[c].target)
    BY <1>2, <1>3, <1>5, AbstractTables DEF Abstract!Enter
  <1>7. ControlOf(c) /\ pc[c] = "commit" /\ req[c] \in Request
    BY DEF Commit, LockDiscipline, Control, TypeOK
  <1>8. CASE req[c].kind = "post"
    <2>1. req[c].target = None /\ a \in Amounts /\ req[c].key \in Keys \cup {None}
      BY <1>7, <1>8 DEF ControlOf, Request
    <2>2. Abstract!Book(c, w, a, req[c].key)
      <3>1. Abstract!Enter(c, w, a, req[c].key, None)
        BY <1>2, <1>3, <1>5, <2>1, AbstractTables DEF Abstract!Enter
      <3>2. req[c].key = None \/ Abstract!UsesOf(req[c].key) = {}
        <4>1. req[c].key = None \/ UsesOf(req[c].key) = {}
          BY <1>2 DEF KeyTaken
        <4>2. QED
          BY <4>1, AbstractTables
      <3>3. QED
        BY <3>1, <3>2 DEF Abstract!Book
    <2>3. QED
      BY <2>1, <2>2 DEF Abstract!Next
  <1>9. CASE req[c].kind = "reverse"
    <2> DEFINE t == req[c].target
    <2>1. /\ t \in Booked /\ req[c].key = None /\ ledger[t].reversalOf = None
          /\ w = ledger[t].owner /\ a = -ledger[t].amount
      BY <1>1, <1>7, <1>9 DEF ControlOf
    <2>2. t \in Calls /\ t # None
      BY <2>1, CoinAssumption DEF Booked
    <2>3. book[t].reversalOf = None /\ book[t].owner = w /\ -book[t].amount = a
      BY <2>1, <2>2 DEF BookEntry
    <2>4. t \in Abstract!Booked /\ Abstract!ReversalsOf(t) = {}
      BY <1>2, <2>1, <2>2, AbstractTables DEF ReversalTaken
    <2>5. Abstract!Reverse(c, t)
      BY <1>6, <2>1, <2>3, <2>4 DEF Abstract!Reverse
    <2>6. QED
      BY <2>2, <2>5 DEF Abstract!Next
  <1>10. QED
    BY <1>7, <1>8, <1>9 DEF Request

\* The SQL transactions implement the abstract book.
THEOREM Refinement == Spec => ImplementsBook
  <1>1. TypeOK /\ LockDiscipline /\ [Next]_vars => [Abstract!Next]_(Abstract!vars)
    <2> SUFFICES ASSUME TypeOK, LockDiscipline, [Next]_vars
                 PROVE  [Abstract!Next]_(Abstract!vars)
      OBVIOUS
    <2>1. CASE UNCHANGED <<wallet, ledger>>
      BY <2>1 DEF Abstract!vars, BookEntry
    <2>2. ASSUME NEW c \in Calls, Commit(c)
          PROVE  Abstract!Next
      BY <2>2, CommitRefines
    <2>3. QED
      BY <2>1, <2>2, TablesChange
  <1>2. QED
    BY AbstractInit, <1>1, LocksHold, PTL DEF Spec, ImplementsBook, Abstract!Spec
=============================================================================
