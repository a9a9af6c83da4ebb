------------------------------ MODULE Throttle ------------------------------
(***************************************************************************)
(* What the limiter of the public auth routes promises: every address has  *)
(* a budget of its own that nothing but time gives back.                   *)
(*                                                                         *)
(* debt[a] is the number of ticks after which the budget of a is whole     *)
(* again.  It grows by Interval with a grant and shrinks by one with a     *)
(* tick, so it is the largest, over all windows that end now, of Interval  *)
(* times the grants in the window less its length: debt <= Burst*Interval  *)
(* says that no window of w ticks, wherever it begins, has more than       *)
(* Burst + w \div Interval grants.                                         *)
(***************************************************************************)
EXTENDS Integers

CONSTANTS
    Slots,      \* requests that are in the limiter at one time
    Addresses,  \* client addresses
    None,       \* no request
    Interval,   \* ticks in which one token is earned
    Burst       \* tokens an address may save up

VARIABLES
    from,       \* the address whose request is in a slot
    answer,     \* what the request that was in a slot last was told
    debt        \* ticks until the budget is whole

vars == <<from, answer, debt>>

Init ==
    /\ from = [s \in Slots |-> None]
    /\ answer = [s \in Slots |-> "none"]
    /\ debt = [a \in Addresses |-> 0]

Ask(s, a) ==
    /\ from[s] = None
    /\ from' = [from EXCEPT ![s] = a]
    /\ answer' = [answer EXCEPT ![s] = "none"]
    /\ UNCHANGED debt

Told(s, verdict) ==
    /\ from' = [from EXCEPT ![s] = None]
    /\ answer' = [answer EXCEPT ![s] = verdict]

Affordable(a) == debt[a] + Interval <= Burst * Interval

Grant(s, a) ==
    /\ from[s] = a /\ Affordable(a)
    /\ debt' = [debt EXCEPT ![a] = @ + Interval]
    /\ Told(s, "granted")

Refuse(s, a) ==
    /\ from[s] = a /\ ~Affordable(a)
    /\ UNCHANGED debt
    /\ Told(s, "refused")

Tick ==
    /\ debt' = [a \in Addresses |-> IF debt[a] > 0 THEN debt[a] - 1 ELSE 0]
    /\ UNCHANGED <<from, answer>>

\* The budgets live in the process; what it had not answered it never will.
Restart == from' = [s \in Slots |-> None]
        /\ answer' = [s \in Slots |-> "none"]
        /\ debt' = [a \in Addresses |-> 0]

Next ==
    \/ \E s \in Slots, a \in Addresses : Ask(s, a) \/ Grant(s, a) \/ Refuse(s, a)
    \/ Tick
    \/ Restart

Spec == Init /\ [][Next]_vars
=============================================================================
