------------------------- MODULE RateLimiter_proofs -------------------------
(***************************************************************************)
(* Theorems about RateLimiter: for every number of requests and addresses, *)
(* every rate, burst, idle time and wait that satisfy LimiterAssumption.   *)
(***************************************************************************)
EXTENDS RateLimiter, TLAPS

\* The inductive invariant: types, and what the ages say of tokens and of sweeps.
IInv == TypeOK /\ Earned /\ Aged

-----------------------------------------------------------------------------
(* Arithmetic.                                                             *)

\* The constants, with the product of burst and interval as one number.
LEMMA Constants ==
    /\ Full \in Nat /\ Interval \in Nat /\ 0 < Interval /\ Interval <= Full
    /\ IdleTTL \in Nat /\ 0 < IdleTTL /\ Patience \in Nat
    /\ Full + Patience <= IdleTTL + 1
    /\ Patience <= IdleTTL
    /\ Ancient \in Nat /\ Ancient = 2 * IdleTTL + Patience + 1
    /\ None \notin Addresses
<1>1. /\ Interval \in Nat /\ 0 < Interval /\ Burst \in Nat /\ 0 < Burst
      /\ IdleTTL \in Nat /\ 0 < IdleTTL /\ Patience \in Nat
      /\ Full + Patience <= IdleTTL + 1
      /\ None \notin Addresses
  BY LimiterAssumption
<1>2. /\ Burst * Interval \in Nat /\ Interval <= Burst * Interval
  <2>1. Burst - 1 \in Nat /\ Burst * Interval = (Burst - 1) * Interval + Interval
    BY <1>1
  <2>2. \A m, n \in Nat : m * n \in Nat
    OBVIOUS
  <2>3. (Burst - 1) * Interval \in Nat
    BY <1>1, <2>1, <2>2
  <2> QED
    BY <1>1, <2>1, <2>3
<1>3. Full \in Nat /\ Interval <= Full
  BY <1>2 DEF Full
<1> QED
  BY <1>1, <1>3 DEF Ancient

\* Ages and fill levels stay in their ranges as time passes.
LEMMA SmallerFacts ==
    ASSUME NEW m \in Nat, NEW n \in Nat
    PROVE  /\ Smaller(m + 1, n) \in 0..n
           /\ Smaller(m + 1, n) <= m + 1
           /\ Smaller(m + 1, n) = m + 1 \/ Smaller(m + 1, n) = n
BY DEF Smaller

-----------------------------------------------------------------------------
(* The steps.                                                              *)

LEMMA InitInv == Init => IInv
<1> USE Constants
<1> SUFFICES ASSUME Init PROVE IInv
  OBVIOUS
<1>1. TypeOK
  BY DEF Init, TypeOK, Verdicts
<1> QED
  BY <1>1 DEF Init, IInv, Earned, Aged

LEMMA ArriveInv ==
    ASSUME IInv, NEW s \in Slots, NEW a \in Addresses, Arrive(s, a)
    PROVE  IInv'
<1> USE Constants
<1>1. TypeOK'
  BY DEF Arrive, IInv, TypeOK, Verdicts
<1> QED
  BY <1>1 DEF Arrive, IInv, Earned, Aged

\* What is in the bucket of a request, and what a sweep leaves.
LEMMA AvailableFacts ==
    ASSUME TypeOK, NEW s \in Slots, from[s] # None
    PROVE  /\ from[s] \in Addresses /\ wait[s] \in 0..Patience
           /\ Kept(s) \subseteq buckets
           /\ Available(s) \in 0..Full
           /\ SweepDue(s) => \A b \in Kept(s) : idle[b] - wait[s] <= IdleTTL
BY Constants DEF TypeOK, Kept, Available, Idle

\* The state after a request has been served, by its parts.
LEMMA ServeState ==
    ASSUME TypeOK, NEW s \in Slots, NEW ok \in BOOLEAN, Serve(s, ok)
    PROVE  /\ from[s] # None
           /\ ok = (Available(s) >= Interval)
           /\ buckets' = Kept(s) \cup {from[s]}
           /\ tokens'[from[s]] = IF ok THEN Available(s) - Interval ELSE Available(s)
           /\ idle'[from[s]] = wait[s]
           /\ \A b \in Addresses \ {from[s]} :
                 /\ tokens'[b] = IF b \in Kept(s) THEN tokens[b] ELSE 0
                 /\ idle'[b] = IF b \in Kept(s) THEN idle[b] ELSE 0
           /\ sinceSweep' = IF SweepDue(s) THEN wait[s] ELSE sinceSweep
<1>1. from[s] # None
  BY DEF Serve
<1>2. from[s] \in Addresses /\ Available(s) \in 0..Full
  BY <1>1, AvailableFacts
<1> QED
  BY <1>1, <1>2, Constants DEF Serve

LEMMA ServeType ==
    ASSUME TypeOK, NEW s \in Slots, NEW ok \in BOOLEAN, Serve(s, ok)
    PROVE  TypeOK'
<1> USE Constants
<1>1. from[s] # None /\ ok = (Available(s) >= Interval)
  BY DEF Serve
<1>2. /\ from[s] \in Addresses /\ wait[s] \in 0..Patience
      /\ Kept(s) \subseteq buckets /\ Available(s) \in 0..Full
  BY <1>1, AvailableFacts
<1>3. tokens' \in [Addresses -> 0..Full]
  <2> DEFINE left(a) == IF a = from[s] THEN Available(s) - (IF ok THEN Interval ELSE 0)
                        ELSE IF a \in Kept(s) THEN tokens[a] ELSE 0
  <2>1. \A a \in Addresses : left(a) \in 0..Full
    <3>0. ok => Available(s) >= Interval
      BY <1>1, Zenon
    <3>1. ok => Available(s) - Interval \in 0..Full
      BY <1>2, <3>0
    <3>2. tokens \in [Addresses -> 0..Full] /\ Kept(s) \subseteq Addresses
      BY <1>2 DEF TypeOK
    <3> QED
      BY <1>1, <1>2, <3>1, <3>2
  <2>2. tokens' = [a \in Addresses |-> left(a)]
    BY DEF Serve
  <2> QED
    BY <2>1, <2>2
<1>4. idle' \in [Addresses -> 0..Ancient] /\ sinceSweep' \in 0..Ancient
  BY <1>1, <1>2 DEF Serve, TypeOK
<1>5. buckets' \subseteq Addresses
  BY <1>2 DEF Serve, TypeOK
<1>6. /\ from' \in [Slots -> Addresses \cup {None}]
      /\ wait' \in [Slots -> 0..Patience]
      /\ answer' \in [Slots -> Verdicts]
  BY DEF Serve, TypeOK, Verdicts
<1> QED
  BY <1>3, <1>4, <1>5, <1>6 DEF TypeOK

LEMMA ServeInv ==
    ASSUME IInv, NEW s \in Slots, NEW ok \in BOOLEAN, Serve(s, ok)
    PROVE  IInv'
<1> USE Constants
<1>0. TypeOK /\ Earned /\ Aged /\ TypeOK'
  BY ServeType DEF IInv
<1>1. /\ from[s] # None
      /\ buckets' = Kept(s) \cup {from[s]}
      /\ idle'[from[s]] = wait[s]
      /\ \A b \in Addresses \ {from[s]} :
            /\ tokens'[b] = IF b \in Kept(s) THEN tokens[b] ELSE 0
            /\ idle'[b] = IF b \in Kept(s) THEN idle[b] ELSE 0
      /\ sinceSweep' = IF SweepDue(s) THEN wait[s] ELSE sinceSweep
  BY <1>0, ServeState
<1>2. /\ from[s] \in Addresses /\ wait[s] \in 0..Patience
      /\ Kept(s) \subseteq buckets
      /\ SweepDue(s) => \A b \in Kept(s) : idle[b] - wait[s] <= IdleTTL
  BY <1>0, <1>1, AvailableFacts
<1>3. Earned'
  <2> SUFFICES ASSUME NEW b \in buckets'
               PROVE  tokens'[b] = Full \/ idle'[b] - Patience <= tokens'[b]
    BY DEF Earned
  <2>1. tokens'[b] \in 0..Full
    BY <1>0 DEF TypeOK
  <2>2. CASE b = from[s]
    BY <1>1, <1>2, <2>1, <2>2
  <2>3. CASE b # from[s]
    <3>1. b \in Kept(s) /\ b \in buckets /\ b \in Addresses
      BY <1>0, <1>1, <1>2, <2>3 DEF TypeOK
    <3>2. tokens'[b] = tokens[b] /\ idle'[b] = idle[b]
      BY <1>1, <2>3, <3>1
    <3> QED
      BY <1>0, <3>1, <3>2 DEF Earned
  <2> QED
    BY <2>2, <2>3
<1>4. Aged'
  <2> SUFFICES ASSUME NEW b \in buckets'
               PROVE  idle'[b] <= IdleTTL + sinceSweep'
    BY DEF Aged
  <2>1. sinceSweep \in Nat /\ idle \in [Addresses -> Nat] /\ buckets \subseteq Addresses
    BY <1>0 DEF TypeOK
  <2>2. sinceSweep' \in Nat
    BY <1>1, <1>2, <2>1
  <2>3. CASE b = from[s]
    BY <1>1, <1>2, <2>2, <2>3
  <2>4. CASE b # from[s]
    <3>1. b \in Kept(s) /\ b \in buckets /\ b \in Addresses
      BY <1>1, <1>2, <2>1, <2>4
    <3>2. idle'[b] = idle[b] /\ idle[b] \in Nat
      BY <1>1, <2>1, <2>4, <3>1
    <3>3. CASE SweepDue(s)
      BY <1>1, <1>2, <3>1, <3>2, <3>3
    <3>4. CASE ~SweepDue(s)
      BY <1>0, <1>1, <2>1, <3>1, <3>2, <3>4 DEF Aged
    <3> QED
      BY <3>3, <3>4
  <2> QED
    BY <2>3, <2>4
<1> QED
  BY <1>0, <1>3, <1>4 DEF IInv

LEMMA TickInv ==
    ASSUME IInv, Tick
    PROVE  IInv'
<1> USE Constants
<1>0. TypeOK /\ Earned /\ Aged
  BY DEF IInv
<1>1. /\ buckets' = buckets /\ from' = from /\ answer' = answer
      /\ \A a \in buckets : /\ a \in Addresses
                            /\ tokens[a] \in 0..Full /\ idle[a] \in 0..Ancient
                            /\ tokens'[a] = Smaller(tokens[a] + 1, Full)
                            /\ idle'[a] = Smaller(idle[a] + 1, Ancient)
      /\ sinceSweep \in 0..Ancient
      /\ sinceSweep' = Smaller(sinceSweep + 1, Ancient)
  BY <1>0 DEF TypeOK, Tick, Refill, Older
<1>2. TypeOK'
  <2>1. wait' \in [Slots -> 0..Patience]
    BY <1>0 DEF TypeOK, Tick
  <2>2. tokens' \in [Addresses -> 0..Full]
    BY <1>0 DEF TypeOK, Tick, Refill, Smaller
  <2>3. idle' \in [Addresses -> 0..Ancient] /\ sinceSweep' \in 0..Ancient
    BY <1>0 DEF TypeOK, Tick, Older, Smaller
  <2> QED
    BY <1>0, <1>1, <2>1, <2>2, <2>3 DEF TypeOK
<1>3. Earned'
  <2> SUFFICES ASSUME NEW a \in buckets
               PROVE  tokens'[a] = Full \/ idle'[a] - Patience <= tokens'[a]
    BY <1>1 DEF Earned
  <2>1. tokens[a] = Full \/ idle[a] - Patience <= tokens[a]
    BY <1>0 DEF Earned
  <2> QED
    BY <1>1, <2>1 DEF Smaller
<1>4. Aged'
  <2> SUFFICES ASSUME NEW a \in buckets
               PROVE  idle'[a] <= IdleTTL + sinceSweep'
    BY <1>1 DEF Aged
  <2>1. idle[a] <= IdleTTL + sinceSweep
    BY <1>0 DEF Aged
  <2> QED
    BY <1>1, <2>1 DEF Smaller
<1> QED
  BY <1>2, <1>3, <1>4 DEF IInv

LEMMA RestartInv ==
    ASSUME IInv, Restart
    PROVE  IInv'
<1> USE Constants
<1>1. TypeOK'
  BY DEF Restart, IInv, TypeOK, Verdicts
<1> QED
  BY <1>1 DEF Restart, IInv, Earned, Aged

LEMMA NextInv == IInv /\ [Next]_vars => IInv'
<1> SUFFICES ASSUME IInv, [Next]_vars PROVE IInv'
  OBVIOUS
<1>1. CASE \E s \in Slots, a \in Addresses : Arrive(s, a)
  BY <1>1, ArriveInv
<1>2. CASE \E s \in Slots : Grant(s) \/ Refuse(s)
  BY <1>2, ServeInv DEF Grant, Refuse
<1>3. CASE Tick
  BY <1>3, TickInv
<1>4. CASE Restart
  BY <1>4, RestartInv
<1>5. CASE UNCHANGED vars
  BY <1>5 DEF vars, IInv, TypeOK, Earned, Aged
<1> QED
  BY <1>1, <1>2, <1>3, <1>4, <1>5 DEF Next

-----------------------------------------------------------------------------
(* Theorems.                                                               *)

\* The inductive invariant holds in every reachable state.
THEOREM Invariance == Spec => []IInv
BY InitInv, NextInv, PTL DEF Spec

\* Buckets, ages and requests stay well formed; no bucket holds more than the burst.
THEOREM TypeCorrect == Spec => []TypeOK
<1>1. IInv => TypeOK
  BY DEF IInv
<1> QED
  BY Invariance, <1>1, PTL

\* When a request has been served, no bucket is left that is older than a sweep can leave
\* it and the time to the next sweep add up to.
LEMMA ServeYoung ==
    ASSUME IInv, NEW s \in Slots, NEW ok \in BOOLEAN, Serve(s, ok)
    PROVE  \A a \in buckets' : idle'[a] < 2 * IdleTTL + Patience
<1> USE Constants
<1>0. TypeOK /\ TypeOK' /\ Aged'
  BY ServeInv DEF IInv
<1>1. from[s] # None /\ sinceSweep' = IF SweepDue(s) THEN wait[s] ELSE sinceSweep
  BY <1>0, ServeState
<1>2. wait[s] \in 0..Patience /\ sinceSweep \in 0..Ancient
  BY <1>0, <1>1, AvailableFacts DEF TypeOK
<1>3. sinceSweep' \in Nat /\ sinceSweep' < IdleTTL + Patience
  BY <1>1, <1>2 DEF SweepDue
<1> SUFFICES ASSUME NEW a \in buckets'
             PROVE  idle'[a] < 2 * IdleTTL + Patience
  OBVIOUS
<1>4. idle'[a] \in Nat /\ idle'[a] <= IdleTTL + sinceSweep'
  BY <1>0 DEF TypeOK, Aged
<1> QED
  BY <1>3, <1>4

\* Memory stays bounded: after any request, only addresses seen within two idle times and
\* a wait have buckets.
THEOREM MemoryIsBounded == Spec => MemoryBounded
<1>1. IInv /\ [Next]_vars =>
         [ServedAny => \A a \in buckets' : idle'[a] < 2 * IdleTTL + Patience]_vars
  <2> SUFFICES ASSUME IInv, Next, ServedAny
               PROVE  \A a \in buckets' : idle'[a] < 2 * IdleTTL + Patience
    OBVIOUS
  <2>1. PICK s \in Slots : from[s] # None /\ from'[s] = None /\ answer'[s] # "none"
    BY DEF ServedAny
  <2>2. CASE \E t \in Slots : Grant(t) \/ Refuse(t)
    BY <2>2, ServeYoung DEF Grant, Refuse
  <2>3. CASE \E t \in Slots, a \in Addresses : Arrive(t, a)
    <3>1. PICK t \in Slots, a \in Addresses : Arrive(t, a)
      BY <2>3
    <3>2. from' = [from EXCEPT ![t] = a] /\ from[t] = None /\ a # None
      BY <3>1, Constants DEF Arrive
    <3> QED
      BY <2>1, <3>2 DEF IInv, TypeOK
  <2>4. CASE Tick
    BY <2>1, <2>4 DEF Tick
  <2>5. CASE Restart
    BY <2>1, <2>5 DEF Restart
  <2> QED
    BY <2>2, <2>3, <2>4, <2>5 DEF Next
<1> QED
  BY Invariance, <1>1, PTL DEF Spec, MemoryBounded

-----------------------------------------------------------------------------
(* Refinement.                                                             *)

\* What an address owes when it has a bucket, and nothing when it has none.
Debt == [a \in Addresses |-> IF a \in buckets THEN Full - tokens[a] ELSE 0]

\* A bucket that a sweep takes away is full.
LEMMA SweptIsFull ==
    ASSUME TypeOK, Earned, NEW s \in Slots, from[s] # None,
           NEW b \in buckets, b \notin Kept(s)
    PROVE  tokens[b] = Full
<1> USE Constants
<1>1. wait[s] \in 0..Patience /\ b \in Addresses /\ idle[b] \in 0..Ancient /\ tokens[b] \in 0..Full
  BY AvailableFacts DEF TypeOK
<1>2. idle[b] - wait[s] > IdleTTL
  BY <1>1 DEF Kept, Idle
<1>3. tokens[b] = Full \/ idle[b] - Patience <= tokens[b]
  BY DEF Earned
<1> QED
  BY <1>1, <1>2, <1>3

\* Serving a request changes the debt of its own address only, by what it is granted.
LEMMA ServeDebt ==
    ASSUME TypeOK, Earned, NEW s \in Slots, NEW ok \in BOOLEAN, Serve(s, ok)
    PROVE  /\ Debt[from[s]] = Full - Available(s)
           /\ Debt' = [Debt EXCEPT ![from[s]] = IF ok THEN @ + Interval ELSE @]
<1> USE Constants
<1>1. /\ from[s] # None
      /\ buckets' = Kept(s) \cup {from[s]}
      /\ tokens'[from[s]] = IF ok THEN Available(s) - Interval ELSE Available(s)
      /\ \A b \in Addresses \ {from[s]} :
            tokens'[b] = IF b \in Kept(s) THEN tokens[b] ELSE 0
  BY ServeState
<1>2. /\ from[s] \in Addresses /\ Kept(s) \subseteq buckets
      /\ buckets \subseteq Addresses /\ Available(s) \in 0..Full
  BY <1>1, AvailableFacts DEF TypeOK
<1>3. \A b \in buckets \ Kept(s) : tokens[b] = Full
  BY <1>1, SweptIsFull
<1>4. Debt[from[s]] = Full - Available(s)
  <2>1. CASE from[s] \in Kept(s)
    BY <1>2, <2>1 DEF Debt, Available
  <2>2. CASE from[s] \notin Kept(s)
    BY <1>2, <1>3, <2>2 DEF Debt, Available
  <2> QED
    BY <2>1, <2>2
<1>5. ASSUME NEW b \in Addresses, b # from[s]
      PROVE  (IF b \in buckets' THEN Full - tokens'[b] ELSE 0) = Debt[b]
  <2>1. CASE b \in Kept(s)
    BY <1>1, <1>2, <1>5, <2>1 DEF Debt
  <2>2. CASE b \notin Kept(s)
    BY <1>1, <1>2, <1>3, <1>5, <2>2 DEF Debt
  <2> QED
    BY <2>1, <2>2
<1>6. (IF from[s] \in buckets' THEN Full - tokens'[from[s]] ELSE 0)
         = IF ok THEN Debt[from[s]] + Interval ELSE Debt[from[s]]
  BY <1>1, <1>2, <1>4
<1>7. Debt' = [a \in Addresses |-> IF a \in buckets' THEN Full - tokens'[a] ELSE 0]
  BY DEF Debt
<1>8. Debt = [a \in Addresses |-> Debt[a]]
  BY DEF Debt
<1>9. \A a \in Addresses : Debt'[a] = [Debt EXCEPT ![from[s]] = IF ok THEN @ + Interval ELSE @][a]
  BY <1>2, <1>5, <1>6, <1>7, <1>8
<1> QED
  BY <1>2, <1>4, <1>7, <1>8, <1>9

\* Time passes for debts as it does for buckets.
LEMMA TickDebt ==
    ASSUME TypeOK, Tick
    PROVE  Debt' = [a \in Addresses |-> IF Debt[a] > 0 THEN Debt[a] - 1 ELSE 0]
<1> USE Constants
<1>1. \A a \in Addresses : (IF a \in buckets' THEN Full - tokens'[a] ELSE 0)
                              = IF Debt[a] > 0 THEN Debt[a] - 1 ELSE 0
  BY DEF TypeOK, Tick, Refill, Smaller, Debt
<1>2. Debt' = [a \in Addresses |-> IF a \in buckets' THEN Full - tokens'[a] ELSE 0]
  BY DEF Debt
<1> QED
  BY <1>1, <1>2

LEMMA BookInit == Init => Book!Init
BY DEF Init, Book!Init

LEMMA ArriveStep ==
    ASSUME NEW s \in Slots, NEW a \in Addresses, Arrive(s, a)
    PROVE  Book!Ask(s, a)
BY DEF Arrive, Book!Ask

LEMMA ServeStep ==
    ASSUME TypeOK, Earned, NEW s \in Slots, NEW ok \in BOOLEAN, Serve(s, ok),
           NEW a \in Addresses, from[s] = a
    PROVE  Book!Grant(s, a) \/ Book!Refuse(s, a)
<1> USE Constants
<1>1. /\ from' = [from EXCEPT ![s] = None]
      /\ answer' = [answer EXCEPT ![s] = IF ok THEN "granted" ELSE "refused"]
      /\ from[s] # None /\ ok = (Available(s) >= Interval)
  BY DEF Serve
<1>2. Available(s) \in 0..Full
  BY <1>1, AvailableFacts
<1>3. /\ Debt[a] = Full - Available(s)
      /\ Debt' = [Debt EXCEPT ![a] = IF ok THEN @ + Interval ELSE @]
  BY ServeDebt
<1>4. Book!Affordable(a) <=> Debt[a] + Interval <= Full
  BY DEF Book!Affordable, Debt, Full
<1>5. CASE ok
  <2>1. Available(s) >= Interval
    BY <1>1, <1>5, Zenon
  <2>2. Book!Affordable(a)
    BY <1>2, <1>3, <1>4, <2>1
  <2>3. Book!Told(s, "granted")
    BY <1>1, <1>5 DEF Book!Told
  <2>4. Debt' = [Debt EXCEPT ![a] = @ + Interval]
    BY <1>3, <1>5
  <2> QED
    BY <2>2, <2>3, <2>4 DEF Book!Grant, Debt
<1>6. CASE ~ok
  <2>1. ~(Available(s) >= Interval)
    BY <1>1, <1>6, Zenon
  <2>2. ~Book!Affordable(a)
    BY <1>2, <1>3, <1>4, <2>1
  <2>3. Book!Told(s, "refused")
    BY <1>1, <1>6 DEF Book!Told
  <2>4. Debt' = Debt
    BY <1>2, <1>3, <1>6 DEF Debt
  <2> QED
    BY <2>2, <2>3, <2>4 DEF Book!Refuse, Debt
<1> QED
  BY <1>5, <1>6

LEMMA TickStep == ASSUME TypeOK, Tick PROVE Book!Tick
<1>1. Debt' = [a \in Addresses |-> IF Debt[a] > 0 THEN Debt[a] - 1 ELSE 0]
  BY TickDebt
<1>2. UNCHANGED <<from, answer>>
  BY DEF Tick
<1> QED
  BY <1>1, <1>2 DEF Book!Tick, Debt

LEMMA RestartStep == ASSUME Restart PROVE Book!Restart
BY DEF Restart, Book!Restart

\* Sweeping buckets, making them on demand and reading the clock before the lock are not
\* seen in what requests are told: the limiter is the one that forgets nothing.
THEOREM Refinement == Spec => ImplementsThrottle
<1>1. Init => Book!Init
  BY BookInit
<1>2. IInv /\ [Next]_vars => [Book!Next]_(Book!vars)
  <2> SUFFICES ASSUME IInv, [Next]_vars PROVE [Book!Next]_(Book!vars)
    OBVIOUS
  <2>0. TypeOK /\ Earned
    BY DEF IInv
  <2>1. CASE \E s \in Slots, a \in Addresses : Arrive(s, a)
    BY <2>1, ArriveStep DEF Book!Next
  <2>2. CASE \E s \in Slots : Grant(s) \/ Refuse(s)
    <3>1. PICK s \in Slots, ok \in BOOLEAN : Serve(s, ok)
      BY <2>2 DEF Grant, Refuse
    <3>2. from[s] # None /\ from[s] \in Addresses
      BY <2>0, <3>1, AvailableFacts DEF Serve
    <3>3. PICK a \in Addresses : from[s] = a
      BY <3>2
    <3>4. Book!Grant(s, a) \/ Book!Refuse(s, a)
      BY <2>0, <3>1, <3>3, ServeStep
    <3> QED
      BY <3>4 DEF Book!Next
  <2>3. CASE Tick
    BY <2>0, <2>3, TickStep DEF Book!Next
  <2>4. CASE Restart
    BY <2>4, RestartStep DEF Book!Next
  <2>5. CASE UNCHANGED vars
    BY <2>5 DEF vars, Book!vars
  <2> QED
    BY <2>1, <2>2, <2>3, <2>4, <2>5 DEF Next
<1> QED
  BY Invariance, <1>1, <1>2, PTL DEF Spec, ImplementsThrottle, Book!Spec
=============================================================================
