------------------------------ MODULE CoinBook ------------------------------
(***************************************************************************)
(* What the coin ledger promises, with no transactions, locks or retries:  *)
(* a balance per owner and a book of immutable entries, changed together   *)
(* and in one step by a booking or by the reversal of a booking            *)
(* (docs/coin-module-design.md section 5).  CoinLedger, which models the   *)
(* SQL statements of internal/coin/repository.go, implements it.           *)
(***************************************************************************)
EXTENDS Integers

CONSTANTS
    Calls,       \* the calls that may book; the entry a call books bears its name
    Owners,      \* the wallet holders, (realm, owner id) pairs
    Keys,        \* the idempotency keys
    Amounts,     \* the signed amounts that are posted
    MaxBalance,  \* the largest value of the balance column
    None         \* no owner, no key, no entry

VARIABLES
    balance,     \* balance[o]: the coins of owner o
    book         \* book[c]: the entry booked by call c, or NoEntry

vars == <<balance, book>>

NoEntry == [owner |-> None, amount |-> 0, key |-> None, reversalOf |-> None]

Booked == {c \in Calls : book[c] # NoEntry}

\* Every entry that has been booked with key k, in any owner's name.
UsesOf(k) == {d \in Booked : book[d].key = k}

\* The reversals of entry t.
ReversalsOf(t) == {d \in Booked : book[d].reversalOf = t}

Init ==
    /\ balance = [o \in Owners |-> 0]
    /\ book = [c \in Calls |-> NoEntry]

\* Owner o's balance and the book change together, or not at all.
Enter(c, o, a, k, t) ==
    /\ c \notin Booked
    /\ balance[o] + a \in 0..MaxBalance
    /\ balance' = [balance EXCEPT ![o] = @ + a]
    /\ book' = [book EXCEPT ![c] =
                  [owner |-> o, amount |-> a, key |-> k, reversalOf |-> t]]

\* An amount is booked, at most once for a key.
Book(c, o, a, k) ==
    /\ k = None \/ UsesOf(k) = {}
    /\ Enter(c, o, a, k, None)

\* An entry that is no reversal is cancelled by the opposite amount, once.
Reverse(c, t) ==
    /\ t \in Booked
    /\ book[t].reversalOf = None
    /\ ReversalsOf(t) = {}
    /\ Enter(c, book[t].owner, -book[t].amount, None, t)

Next ==
    \E c \in Calls :
        \/ \E o \in Owners, a \in Amounts, k \in Keys \cup {None} : Book(c, o, a, k)
        \/ \E t \in Calls : Reverse(c, t)

Spec == Init /\ [][Next]_vars
=============================================================================
