---------------------------- MODULE RateLimiter ----------------------------
(***************************************************************************)
(* The per-IP limiter of the public auth routes:                           *)
(* internal/platform/httpserver/ratelimit.go.                              *)
(*                                                                         *)
(* A request reads the clock, then waits for the mutex, then does all the  *)
(* rest under it: so the time it works with is as old as its wait, and     *)
(* requests may get the mutex in another order than they read the clock.   *)
(* The token bucket itself (golang.org/x/time/rate) reads the clock again, *)
(* under the mutex.                                                        *)
(*                                                                         *)
(* Time is kept as ages, which grow with Tick and stop at Ancient: what is *)
(* compared is only ever a difference.  Tokens are counted in ticks, with  *)
(* Interval of them to a token.                                            *)
(***************************************************************************)
EXTENDS Integers

CONSTANTS
    Slots,      \* goroutines that serve requests at one time
    Addresses,  \* client addresses (gin's ClientIP)
    None,       \* no request
    Interval,   \* ticks in which one token is earned (60 s / perMinute)
    Burst,      \* the bucket's size
    IdleTTL,    \* ticks after which a bucket is idle
    Patience    \* ticks a request waits for the mutex at most

Full == Burst * Interval

\* An idle bucket has been refilled, even for a request that reads an old clock.  The
\* server's values are 20 s, 600 s and whatever a goroutine may wait for a mutex.
ASSUME LimiterAssumption ==
    /\ Interval \in Nat \ {0} /\ Burst \in Nat \ {0}
    /\ IdleTTL \in Nat \ {0} /\ Patience \in Nat
    /\ Full + Patience <= IdleTTL + 1
    /\ None \notin Addresses

VARIABLES
    from,       \* the address whose request is in a slot
    wait,       \* the age of the time the request in a slot has read
    answer,     \* what the request that was in a slot last was told
    buckets,    \* the addresses that have a bucket
    tokens,     \* what is in each bucket
    idle,       \* the age of each bucket's lastSeen
    sinceSweep  \* the age of lastedAt

vars == <<from, wait, answer, buckets, tokens, idle, sinceSweep>>

-----------------------------------------------------------------------------
Verdicts == {"none", "granted", "refused"}

Smaller(m, n) == IF m < n THEN m ELSE n

\* An age at which every comparison has the outcome it will have from then on.
Ancient == 2 * IdleTTL + Patience + 1
Older(age) == Smaller(age + 1, Ancient)

\* NewIPRateLimiter.
Init ==
    /\ from = [s \in Slots |-> None]
    /\ wait = [s \in Slots |-> 0]
    /\ answer = [s \in Slots |-> "none"]
    /\ buckets = {}
    /\ tokens = [a \in Addresses |-> 0]
    /\ idle = [a \in Addresses |-> 0]
    /\ sinceSweep = 0

-----------------------------------------------------------------------------
\* now := time.Now(), before the lock.
Arrive(s, a) ==
    /\ from[s] = None
    /\ from' = [from EXCEPT ![s] = a]
    /\ wait' = [wait EXCEPT ![s] = 0]
    /\ answer' = [answer EXCEPT ![s] = "none"]
    /\ UNCHANGED <<buckets, tokens, idle, sinceSweep>>

SweepDue(s) == sinceSweep - wait[s] >= IdleTTL

\* Broken: a bucket counts as idle after half the time.
Idle_Half(s, a) == 2 * (idle[a] - wait[s]) > IdleTTL

Idle(s, a) == idle[a] - wait[s] > IdleTTL

\* Broken: it is the request's own bucket that is looked at, not all of them.
Kept_OwnOnly(s) == IF SweepDue(s) /\ Idle(s, from[s]) THEN buckets \ {from[s]} ELSE buckets

\* sweep: the buckets that are left when the request in slot s has the mutex.
Kept(s) == IF SweepDue(s) THEN {a \in buckets : ~Idle(s, a)} ELSE buckets

\* What the request finds in its bucket, which is made full when there is none.
Available(s) == IF from[s] \in Kept(s) THEN tokens[from[s]] ELSE Full

\* Everything allow does under the mutex: sweep, find or make the bucket, set lastSeen to
\* the time read before, and take a token if there is one.  A bucket that is gone
\* leaves nothing behind.
Serve(s, ok) ==
    LET left(a) == IF a = from[s] THEN Available(s) - (IF ok THEN Interval ELSE 0)
                   ELSE IF a \in Kept(s) THEN tokens[a] ELSE 0
        seen(a) == IF a = from[s] THEN wait[s]
                   ELSE IF a \in Kept(s) THEN idle[a] ELSE 0 IN
    /\ from[s] # None
    /\ ok = (Available(s) >= Interval)
    /\ buckets' = Kept(s) \cup {from[s]}
    /\ tokens' = [a \in Addresses |-> left(a)]
    /\ idle' = [a \in Addresses |-> seen(a)]
    /\ sinceSweep' = IF SweepDue(s) THEN wait[s] ELSE sinceSweep
    /\ from' = [from EXCEPT ![s] = None]
    /\ wait' = [wait EXCEPT ![s] = 0]
    /\ answer' = [answer EXCEPT ![s] = IF ok THEN "granted" ELSE "refused"]

\* The handler runs.
Grant(s) == Serve(s, TRUE)

\* 429, with Retry-After.
Refuse(s) == Serve(s, FALSE)

\* Broken: a bucket fills without end.
Refill_Unbounded(a) == IF a \in buckets THEN tokens[a] + 1 ELSE 0

\* The library's advance: one tick's worth, up to the burst.
Refill(a) == IF a \in buckets THEN Smaller(tokens[a] + 1, Full) ELSE 0

\* Time passes, unless some request would wait longer for the mutex than any does.
Tick ==
    /\ \A s \in Slots : from[s] # None => wait[s] < Patience
    /\ wait' = [s \in Slots |-> IF from[s] = None THEN 0 ELSE wait[s] + 1]
    /\ tokens' = [a \in Addresses |-> Refill(a)]
    /\ idle' = [a \in Addresses |-> IF a \in buckets THEN Older(idle[a]) ELSE 0]
    /\ sinceSweep' = Older(sinceSweep)
    /\ UNCHANGED <<from, answer, buckets>>

\* The server stops and is started again: buckets are in its memory only.
Restart ==
    /\ from' = [s \in Slots |-> None]
    /\ wait' = [s \in Slots |-> 0]
    /\ answer' = [s \in Slots |-> "none"]
    /\ buckets' = {}
    /\ tokens' = [a \in Addresses |-> 0]
    /\ idle' = [a \in Addresses |-> 0]
    /\ sinceSweep' = 0

Next ==
    \/ \E s \in Slots, a \in Addresses : Arrive(s, a)
    \/ \E s \in Slots : Grant(s) \/ Refuse(s)
    \/ Tick
    \/ Restart

Spec == Init /\ [][Next]_vars

-----------------------------------------------------------------------------
(* Properties.                                                             *)

\* A bucket holds no more than the burst and never less than nothing, and the times
\* requests and buckets carry are as old as they can be.
TypeOK ==
    /\ from \in [Slots -> Addresses \cup {None}]
    /\ wait \in [Slots -> 0..Patience]
    /\ answer \in [Slots -> Verdicts]
    /\ buckets \subseteq Addresses
    /\ tokens \in [Addresses -> 0..Full]
    /\ idle \in [Addresses -> 0..Ancient]
    /\ sinceSweep \in 0..Ancient

\* "Memory stays bounded under a churn of distinct IPs" (ratelimit.go:20): once a
\* request has been served, every bucket is of an address whose last request read the clock
\* less than 2*IdleTTL + Patience ago, however requests overtook each other at the mutex.
ServedAny == \E s \in Slots : from[s] # None /\ from'[s] = None /\ answer'[s] # "none"
MemoryBounded ==
    [][ServedAny => \A a \in buckets' : idle'[a] < 2 * IdleTTL + Patience]_vars

\* A bucket that has not been seen for long has been filled since: at least by what was
\* earned in the time no request of its address can have been waiting.
Earned == \A a \in buckets : tokens[a] = Full \/ idle[a] - Patience <= tokens[a]

\* No bucket is older than what the last sweep left.
Aged == \A a \in buckets : idle[a] <= IdleTTL + sinceSweep

\* The budget an address has is that of a bucket that is never thrown away: sweeping,
\* late clocks and the making of buckets on demand give no address a token more or less.
Book == INSTANCE Throttle WITH
    debt <- [a \in Addresses |-> IF a \in buckets THEN Full - tokens[a] ELSE 0]
ImplementsThrottle == Book!Spec
=============================================================================
