----------------------------- MODULE CoinLedger -----------------------------
(***************************************************************************)
(* The coin ledger of internal/coin/repository.go on the tables of         *)
(* migration 000019: Repository.Post and Repository.Reverse as Postgres    *)
(* transactions at READ COMMITTED, one action per SQL statement.           *)
(*                                                                         *)
(* Every call runs in a transaction of its own.  What it has written but   *)
(* not committed is seen only through the locks it holds: the wallet row   *)
(* (from its INSERT or UPDATE on), the original entry (from its SELECT ... *)
(* FOR UPDATE on), and its entries in the two partial unique indexes (from *)
(* its INSERT into coin_ledger on).  All are released together when the    *)
(* transaction ends, so they are functions of the control state pc.        *)
(*                                                                         *)
(* A row's id is a fresh UUID made by the call that inserts it, so the     *)
(* call's own name stands for it.                                          *)
(***************************************************************************)
EXTENDS Integers

CONSTANTS
    Calls,       \* calls of Post and Reverse, each made once; a retry is another call
    Owners,      \* wallet holders: (owner_realm, owner_id)
    Keys,        \* idempotency keys
    Amounts,     \* signed amounts a Post is called with
    MaxBalance,  \* largest value of the BIGINT balance column
    None         \* SQL NULL / Go nil

\* The service only posts a positive magnitude with the sign of its biz type.
ASSUME CoinAssumption ==
    /\ MaxBalance \in Nat
    /\ Amounts \subseteq (-MaxBalance..MaxBalance) \ {0}
    /\ None \notin Calls \cup Keys \cup Owners

VARIABLES
    wallet,      \* coin_wallet, committed rows
    ledger,      \* coin_ledger, committed rows by id
    pc,          \* the statement each call executes next
    req,         \* what each call was asked: the arguments of Post and Reverse
    work,        \* local variables and uncommitted writes of each transaction
    reply        \* what each call returned

vars == <<wallet, ledger, pc, req, work, reply>>

-----------------------------------------------------------------------------
(* Rows, requests and the states of a transaction.                         *)

Wallet == [exists : BOOLEAN, balance : 0..MaxBalance, version : Nat]

NoWallet == [exists |-> FALSE, balance |-> 0, version |-> 0]

Row == [owner : Owners, amount : Int, balanceAfter : Int, seq : Nat,
        key : Keys \cup {None}, reversalOf : Calls \cup {None}]

NoRow == [owner |-> None, amount |-> 0, balanceAfter |-> 0, seq |-> 0,
          key |-> None, reversalOf |-> None]

Request == [kind : {"post", "reverse"}, owner : Owners \cup {None},
            amount : Int, key : Keys \cup {None}, target : Calls \cup {None}]

NoRequest == [kind |-> "post", owner |-> None, amount |-> 0, key |-> None, target |-> None]

\* owner, delta: the arguments of applyDeltaTx.  created: this transaction has
\* inserted the wallet row.  bal: the balance returned by the UPDATE.
Work == [owner : Owners \cup {None}, delta : Int, created : BOOLEAN, bal : Int]

NoWork == [owner |-> None, delta |-> 0, created |-> FALSE, bal |-> 0]

Statuses == {"none", "booked", "replayed", "insufficient", "notFound",
             "alreadyReversed", "cannotReverseReversal", "failed"}

NoReply == [status |-> "none", entry |-> None]

Running == {"lookup", "load", "checkReversed", "ensure", "update", "insert", "commit", "reread"}

Booked == {d \in Calls : ledger[d] # NoRow}

\* The committed rows that carry key k, and those that reverse entry t.
UsesOf(k) == {d \in Booked : ledger[d].key = k}
ReversalsOf(t) == {d \in Booked : ledger[d].reversalOf = t}

-----------------------------------------------------------------------------
(* Locks held by open transactions.                                        *)

\* Broken: the UPDATE commits by itself, before the row is inserted.
HoldsWallet_Autocommit(d, o) == work[d].owner = o /\ pc[d] = "insert"

HoldsWallet(d, o) ==
    /\ work[d].owner = o
    /\ \/ pc[d] \in {"insert", "commit"}
       \/ pc[d] = "update" /\ work[d].created

\* Broken: an early return leaves the transaction open.
HoldsEntry_Leaked(d, t) ==
    /\ req[d].kind = "reverse" /\ req[d].target = t
    /\ pc[d] \in {"checkReversed", "ensure", "update", "insert", "commit", "done"}

HoldsEntry(d, t) ==
    /\ req[d].kind = "reverse"
    /\ req[d].target = t
    /\ pc[d] \in {"checkReversed", "ensure", "update", "insert", "commit"}

\* Broken: the balance is read, added to and written back without a lock.
WalletFree_Unlocked(c, o) == TRUE

WalletFree(c, o) == \A d \in Calls \ {c} : ~HoldsWallet(d, o)
EntryFree(c, t) == \A d \in Calls \ {c} : ~HoldsEntry(d, t)

\* Broken: no unique index, only the look-up before the INSERT.
IndexBusy_NoWait(c) == FALSE

\* Another open transaction has inserted the same idempotency key or the same
\* reversal_of: an INSERT waits for it to end before it can tell a duplicate.
IndexBusy(c) ==
    \E d \in Calls \ {c} :
        /\ pc[d] = "commit"
        /\ \/ req[c].key # None /\ req[d].key = req[c].key
           \/ req[c].target # None /\ req[d].target = req[c].target

KeyTaken(c) == req[c].key # None /\ UsesOf(req[c].key) # {}
ReversalTaken(c) == req[c].target # None /\ ReversalsOf(req[c].target) # {}

-----------------------------------------------------------------------------
Init ==
    /\ wallet = [o \in Owners |-> NoWallet]
    /\ ledger = [c \in Calls |-> NoRow]
    /\ pc = [c \in Calls |-> "new"]
    /\ req = [c \in Calls |-> NoRequest]
    /\ work = [c \in Calls |-> NoWork]
    /\ reply = [c \in Calls |-> NoReply]

Goto(c, label) == pc' = [pc EXCEPT ![c] = label]

\* The call returns; its transaction has been committed or rolled back, and with
\* it end its locks and its uncommitted writes.
Return(c, status, entry) ==
    /\ Goto(c, "done")
    /\ work' = [work EXCEPT ![c] = NoWork]
    /\ reply' = [reply EXCEPT ![c] = [status |-> status, entry |-> entry]]
    /\ UNCHANGED req

\* Post(e, idem) opens its transaction; idem = nil skips the short-circuit.
BeginPost(c, o, a, k) ==
    /\ pc[c] = "new"
    /\ req' = [req EXCEPT ![c] =
                 [kind |-> "post", owner |-> o, amount |-> a, key |-> k, target |-> None]]
    /\ work' = [work EXCEPT ![c] =
                  [owner |-> o, delta |-> a, created |-> FALSE, bal |-> 0]]
    /\ Goto(c, IF k = None THEN "ensure" ELSE "lookup")
    /\ UNCHANGED <<wallet, ledger, reply>>

\* Reverse(ledgerID) opens its transaction; None stands for an id no row has.
BeginReverse(c, t) ==
    /\ pc[c] = "new"
    /\ req' = [req EXCEPT ![c] =
                 [kind |-> "reverse", owner |-> None, amount |-> 0, key |-> None, target |-> t]]
    /\ Goto(c, "load")
    /\ UNCHANGED <<wallet, ledger, work, reply>>

\* getByIdemTx finds the key already booked: that entry is the answer.
LookupHit(c) ==
    /\ pc[c] = "lookup"
    /\ \E d \in UsesOf(req[c].key) : Return(c, "replayed", d)
    /\ UNCHANGED <<wallet, ledger>>

LookupMiss(c) ==
    /\ pc[c] = "lookup"
    /\ UsesOf(req[c].key) = {}
    /\ Goto(c, "ensure")
    /\ UNCHANGED <<wallet, ledger, req, work, reply>>

\* Broken: a reversal may be reversed.
LoadOriginal_AnyEntry(c) ==
    /\ pc[c] = "load"
    /\ req[c].target \in Booked
    /\ EntryFree(c, req[c].target)
    /\ LET orig == ledger[req[c].target] IN
         work' = [work EXCEPT ![c].owner = orig.owner, ![c].delta = -orig.amount]
    /\ Goto(c, "checkReversed")
    /\ UNCHANGED <<wallet, ledger, req, reply>>

\* SELECT ... FOR UPDATE of the original waits for a transaction that holds it.
LoadOriginal(c) ==
    /\ pc[c] = "load"
    /\ req[c].target \in Booked
    /\ EntryFree(c, req[c].target)
    /\ LET orig == ledger[req[c].target] IN
         IF orig.reversalOf # None
         THEN Return(c, "cannotReverseReversal", None)
         ELSE /\ work' = [work EXCEPT ![c].owner = orig.owner, ![c].delta = -orig.amount]
              /\ Goto(c, "checkReversed")
              /\ UNCHANGED <<req, reply>>
    /\ UNCHANGED <<wallet, ledger>>

LoadMissing(c) ==
    /\ pc[c] = "load"
    /\ req[c].target \notin Booked
    /\ Return(c, "notFound", None)
    /\ UNCHANGED <<wallet, ledger>>

CheckReversed(c) ==
    /\ pc[c] = "checkReversed"
    /\ IF ReversalsOf(req[c].target) # {}
       THEN Return(c, "alreadyReversed", None)
       ELSE Goto(c, "ensure") /\ UNCHANGED <<req, work, reply>>
    /\ UNCHANGED <<wallet, ledger>>

\* INSERT INTO coin_wallet ... ON CONFLICT DO NOTHING: a committed row is left
\* alone and not locked; the uncommitted row of another transaction is waited for.
\* (That it may also wait for an uncommitted UPDATE of the row is covered: a call
\* that stays here for a while does the same.)
EnsureWallet(c) ==
    LET o == work[c].owner IN
    /\ pc[c] = "ensure"
    /\ wallet[o].exists \/ WalletFree(c, o)
    /\ work' = [work EXCEPT ![c].created = ~wallet[o].exists]
    /\ Goto(c, "update")
    /\ UNCHANGED <<wallet, ledger, req, reply>>

NewBalance(c) == wallet[work[c].owner].balance + work[c].delta

\* Broken: the UPDATE has lost its WHERE balance + delta >= 0.
ApplyDelta_Unconditional(c) ==
    /\ pc[c] = "update"
    /\ WalletFree(c, work[c].owner)
    /\ work' = [work EXCEPT ![c].bal = NewBalance(c)]
    /\ Goto(c, "insert")
    /\ UNCHANGED <<wallet, ledger, req, reply>>

\* The conditional UPDATE takes the row lock and re-reads the row under it.
ApplyDelta(c) ==
    /\ pc[c] = "update"
    /\ WalletFree(c, work[c].owner)
    /\ NewBalance(c) \in 0..MaxBalance
    /\ work' = [work EXCEPT ![c].bal = NewBalance(c)]
    /\ Goto(c, "insert")
    /\ UNCHANGED <<wallet, ledger, req, reply>>

\* No row satisfies balance + delta >= 0.  The condition is read on the committed
\* row, so a row locked by another transaction is no reason to wait.
RefuseDelta(c) ==
    /\ pc[c] = "update"
    /\ NewBalance(c) < 0
    /\ Return(c, "insufficient", None)
    /\ UNCHANGED <<wallet, ledger>>

\* The sum leaves the range of BIGINT: Postgres raises an error (22003).
OverflowDelta(c) ==
    /\ pc[c] = "update"
    /\ NewBalance(c) > MaxBalance
    /\ Return(c, "failed", None)
    /\ UNCHANGED <<wallet, ledger>>

\* insertLedgerTx adds the row and its index entries to the open transaction.
InsertRow(c) ==
    /\ pc[c] = "insert"
    /\ ~IndexBusy(c)
    /\ ~KeyTaken(c) /\ ~ReversalTaken(c)
    /\ Goto(c, "commit")
    /\ UNCHANGED <<wallet, ledger, req, work, reply>>

\* Broken: a unique violation is taken for success.
InsertConflict_Swallowed(c) ==
    /\ pc[c] = "insert"
    /\ KeyTaken(c) \/ ReversalTaken(c)
    /\ Return(c, "booked", c)
    /\ UNCHANGED <<wallet, ledger>>

\* unique_violation.  Post rolls back and re-reads the winner's row outside the
\* transaction; Reverse reports that the entry is already reversed.
InsertConflict(c) ==
    /\ pc[c] = "insert"
    /\ KeyTaken(c) \/ ReversalTaken(c)
    /\ IF KeyTaken(c)
       THEN /\ Goto(c, "reread")
            /\ work' = [work EXCEPT ![c] = NoWork]
            /\ UNCHANGED <<req, reply>>
       ELSE Return(c, "alreadyReversed", None)
    /\ UNCHANGED <<wallet, ledger>>

RereadKey(c) ==
    /\ pc[c] = "reread"
    /\ \E d \in UsesOf(req[c].key) : Return(c, "replayed", d)
    /\ UNCHANGED <<wallet, ledger>>

\* The coin_ledger row c inserts.  seq, the wallet version it was booked at, is
\* not a column: it records the order in which the wallet's row lock was held.
NewRow(c) ==
    [owner |-> work[c].owner, amount |-> work[c].delta, balanceAfter |-> work[c].bal,
     seq |-> wallet[work[c].owner].version + 1,
     key |-> req[c].key, reversalOf |-> req[c].target]

\* COMMIT makes the wallet's new balance and the row visible together.  When the
\* acknowledgement is lost the caller sees an error for a booking that is done.
Commit(c) ==
    LET o == work[c].owner IN
    /\ pc[c] = "commit"
    /\ wallet' = [wallet EXCEPT ![o] =
                    [exists |-> TRUE, balance |-> work[c].bal, version |-> @.version + 1]]
    /\ ledger' = [ledger EXCEPT ![c] = NewRow(c)]
    /\ Return(c, "booked", c) \/ Return(c, "failed", None)

\* A statement fails, the context is cancelled, the connection or the process is
\* lost: the deferred Rollback, or the server, undoes the transaction.
Abort(c) ==
    /\ pc[c] \in Running
    /\ Return(c, "failed", None)
    /\ UNCHANGED <<wallet, ledger>>

Begin(c) ==
    \/ \E o \in Owners, a \in Amounts, k \in Keys \cup {None} : BeginPost(c, o, a, k)
    \/ \E t \in Booked \cup {None} : BeginReverse(c, t)

\* One statement of call c, other than its first and its failure.
Advance(c) ==
    \/ LookupHit(c) \/ LookupMiss(c)
    \/ LoadOriginal(c) \/ LoadMissing(c) \/ CheckReversed(c)
    \/ EnsureWallet(c)
    \/ ApplyDelta(c) \/ RefuseDelta(c) \/ OverflowDelta(c)
    \/ InsertRow(c) \/ InsertConflict(c) \/ RereadKey(c)
    \/ Commit(c)

\* Every call has returned.
AllDone == (\A c \in Calls : pc[c] = "done") /\ UNCHANGED vars

Next == (\E c \in Calls : Begin(c) \/ Advance(c) \/ Abort(c)) \/ AllDone

Spec == Init /\ [][Next]_vars

\* Postgres runs the statement of a transaction that is not waiting for a lock.
FairSpec == Spec /\ \A c \in Calls : WF_vars(Advance(c))

-----------------------------------------------------------------------------
(* Properties.                                                             *)

TypeOK ==
    /\ wallet \in [Owners -> Wallet]
    /\ ledger \in [Calls -> Row \cup {NoRow}]
    /\ pc \in [Calls -> Running \cup {"new", "done"}]
    /\ req \in [Calls -> Request]
    /\ work \in [Calls -> Work]
    /\ reply \in [Calls -> [status : Statuses, entry : Calls \cup {None}]]

(* What the control state says of a call: it has no row before its COMMIT, its
   locals are what its request and the rows it has read make them, and once its
   UPDATE has run the balance it will commit is non-negative. *)
ControlOf(c) ==
    /\ pc[c] # "done" => ledger[c] = NoRow /\ reply[c] = NoReply
    /\ pc[c] = "new" => req[c] = NoRequest
    /\ req[c].kind = "post" => req[c].target = None
    /\ req[c].kind = "reverse" => req[c].key = None
    /\ pc[c] \in {"load", "checkReversed"} => req[c].kind = "reverse"
    /\ pc[c] \in {"lookup", "reread"} => req[c].key # None
    /\ pc[c] \in {"lookup", "ensure", "update", "insert", "commit"} /\ req[c].kind = "post" =>
         /\ work[c].owner = req[c].owner /\ work[c].owner \in Owners
         /\ work[c].delta = req[c].amount /\ work[c].delta \in Amounts
    /\ pc[c] \in {"checkReversed", "ensure", "update", "insert", "commit"}
         /\ req[c].kind = "reverse" =>
         /\ req[c].target \in Booked
         /\ ledger[req[c].target].reversalOf = None
         /\ work[c].owner = ledger[req[c].target].owner
         /\ work[c].delta = -ledger[req[c].target].amount
    /\ pc[c] \in {"insert", "commit"} =>
         work[c].bal \in 0..MaxBalance /\ work[c].bal = NewBalance(c)
    /\ pc[c] = "commit" => ~KeyTaken(c) /\ ~ReversalTaken(c)

Control == \A c \in Calls : ControlOf(c)

\* No two open transactions hold the same wallet, and no two that are about to
\* commit carry the same key or cancel the same row.
Exclusion ==
    \A c, d \in Calls : c # d =>
        /\ \A o \in Owners : ~(HoldsWallet(c, o) /\ HoldsWallet(d, o))
        /\ pc[c] = "commit" /\ pc[d] = "commit" =>
             /\ req[c].key = req[d].key => req[c].key = None
             /\ req[c].target = req[d].target => req[c].target = None

\* The row locks and the unique indexes do their work: what an open transaction has
\* computed under its locks is still right when it commits.
LockDiscipline == Control /\ Exclusion

RowsOf(o) == {d \in Booked : ledger[d].owner = o}

\* The rows of a wallet form an unbroken chain: they are numbered from 1 to the
\* wallet's version, each balance_after is the previous one plus the amount, none is
\* negative, and the wallet shows the last one.  Hence balance = sum of the amounts
\* (docs/coin-module-design.md 5.1): no concurrent post is lost or counted twice.
BalanceChain ==
    \A o \in Owners :
        /\ wallet[o].exists <=> wallet[o].version > 0
        /\ wallet[o].version = 0 => wallet[o].balance = 0
        /\ \A d \in RowsOf(o) :
              /\ ledger[d].seq \in 1..wallet[o].version
              /\ ledger[d].balanceAfter >= 0
              /\ ledger[d].seq = 1 => ledger[d].balanceAfter = ledger[d].amount
              /\ ledger[d].seq = wallet[o].version => wallet[o].balance = ledger[d].balanceAfter
              /\ \A e \in RowsOf(o) :
                    /\ ledger[e].seq = ledger[d].seq => e = d
                    /\ ledger[e].seq = ledger[d].seq + 1 =>
                         ledger[e].balanceAfter = ledger[d].balanceAfter + ledger[e].amount
        /\ \A n \in 1..wallet[o].version : \E d \in RowsOf(o) : ledger[d].seq = n

\* An idempotency key books at most one row, whoever's name it is in, however many
\* calls carry it and whatever acknowledgement was lost.
BookedOncePerKey ==
    \A d, e \in Booked : ledger[d].key # None /\ ledger[d].key = ledger[e].key => d = e

\* A reversal cancels, in full and on the same wallet, a row that is not itself a
\* reversal, and no row is cancelled twice.
ReversalsNetToZero ==
    \A d \in Booked : ledger[d].reversalOf # None =>
        LET t == ledger[d].reversalOf IN
        /\ t \in Booked
        /\ ledger[t].reversalOf = None
        /\ ledger[t].owner = ledger[d].owner
        /\ ledger[t].amount + ledger[d].amount = 0
        /\ ledger[t].seq < ledger[d].seq
        /\ ReversalsOf(t) = {d}

\* What a call was told is true of the books, then and ever after: a booking that was
\* acknowledged is there, a replay names a row booked by another call with the same
\* key, and a refusal left no row behind.
ReplyTrue(c) ==
    LET r == reply[c] IN
    /\ r.status = "booked" => r.entry = c /\ c \in Booked
    /\ r.status = "replayed" =>
         /\ r.entry \in Booked \ {c}
         /\ c \notin Booked
         /\ req[c].key # None /\ ledger[r.entry].key = req[c].key
    /\ r.status \in {"insufficient", "notFound", "alreadyReversed", "cannotReverseReversal"}
         => c \notin Booked
    /\ r.status = "alreadyReversed" => ReversalsOf(req[c].target) # {}

RepliesAreTrue == \A c \in Calls : ReplyTrue(c)

\* Rows are never changed or removed, and a step that adds one moves exactly the
\* wallet of its owner, by its amount; no step moves a wallet without adding a row.
AppendOnly ==
    [][ /\ \A d \in Booked : ledger'[d] = ledger[d]
        /\ \A o \in Owners :
              IF \E c \in Calls \ Booked : ledger'[c] # NoRow /\ ledger'[c].owner = o
              THEN \E c \in Calls \ Booked :
                      /\ ledger'[c] # NoRow /\ ledger'[c].owner = o
                      /\ wallet'[o].balance = wallet[o].balance + ledger'[c].amount
                      /\ wallet'[o].version = wallet[o].version + 1
              ELSE wallet'[o] = wallet[o] ]_vars

\* Every call that was made returns: waits for wallets, entries and index entries
\* always end, whatever mix of posts and reversals runs at once.
CallsReturn == \A c \in Calls : (pc[c] # "new") ~> (pc[c] = "done")

\* The comment on Repository.Post (repository.go:44): a second call with the same key
\* "performs no balance change and returns the original entry".  So no call is told
\* that the balance is insufficient when the very same request is already booked.
RetryReturnsOriginal ==
    [][ \A c \in Calls :
          (reply'[c].status = "insufficient" /\ reply[c].status = "none" /\ req[c].key # None)
            => \A d \in UsesOf(req[c].key) : req[d] # req[c] ]_vars

\* The committed tables, seen as the abstract book.
BookEntry(d) == [owner |-> ledger[d].owner, amount |-> ledger[d].amount,
                 key |-> ledger[d].key, reversalOf |-> ledger[d].reversalOf]

Abstract == INSTANCE CoinBook WITH
    balance <- [o \in Owners |-> wallet[o].balance],
    book <- [d \in Calls |-> BookEntry(d)]

\* The transactions implement the abstract book: all that other calls can ever see of
\* them is one atomic booking, or one atomic reversal, or nothing.
ImplementsBook == Abstract!Spec
=============================================================================
