---------------------------- MODULE RateLimiter ----------------------------
(***************************************************************************)
(* The per-tenant rate limiter of parcus.quota: one token bucket per key,  *)
(* held in memory by one process on a single-threaded event loop, so that  *)
(* a check is one step.  A restart of the process loses the buckets.       *)
(***************************************************************************)
EXTENDS TokenBucket

CONSTANTS
    Tenants,      \* the keys: tenant ids
    MaxTime,      \* bound on the monotonic clock
    MaxRestarts   \* bound on process restarts

ASSUME LimiterAssumption == MaxTime \in Nat /\ MaxRestarts \in Nat

VARIABLES
    now,        \* the monotonic clock (time_source)
    buckets,    \* RateLimiter._buckets
    decision,   \* the last RateDecision, with the key it was for
    \* History variables, read by no action: they state the properties.
    from,       \* start of an observation window, chosen once and for all
    used,       \* requests allowed per tenant since the window opened
    restarts,   \* restarts since the window opened
    promise     \* per tenant: the time its last denial said to retry at

vars == <<now, buckets, decision, from, used, restarts, promise>>
window == <<from, used, restarts>>

NoDecision == [key |-> "none", allowed |-> FALSE]
NoPromise == -1

Decision == {NoDecision} \union [key : Tenants, allowed : BOOLEAN]

TypeOK ==
    /\ now \in Nat
    /\ DOMAIN buckets \subseteq Tenants
    /\ buckets \in [DOMAIN buckets -> Bucket]
    /\ \A k \in DOMAIN buckets : buckets[k].updated <= now
    /\ decision \in Decision
    /\ from \in Nat
    /\ used \in [Tenants -> Nat]
    /\ restarts \in Nat
    /\ promise \in [Tenants -> Nat \union {NoPromise}]

Init ==
    /\ now = 0
    /\ buckets = NoBuckets
    /\ decision = NoDecision
    /\ from \in 0..MaxTime
    /\ used = [k \in Tenants |-> 0]
    /\ restarts = 0
    /\ promise = [k \in Tenants |-> NoPromise]

Tick ==
    /\ now < MaxTime
    /\ now' = now + 1
    /\ UNCHANGED <<buckets, decision, window, promise>>

\* check(key) when a whole token is there: consume it.
Allow(k) ==
    LET b == AtCheck(buckets, k, now) IN
    /\ Holds(b)
    /\ buckets' = WithBucket(buckets, k, Consumed(b))
    /\ decision' = [key |-> k, allowed |-> TRUE]
    /\ used' = IF now >= from THEN [used EXCEPT ![k] = @ + 1] ELSE used
    /\ promise' = [promise EXCEPT ![k] = NoPromise]
    /\ UNCHANGED <<now, from, restarts>>

\* check(key) when there is none: the refill stays, and the caller is told
\* how long to wait.
Deny(k) ==
    LET b == AtCheck(buckets, k, now) IN
    /\ ~Holds(b)
    /\ buckets' = WithBucket(buckets, k, b)
    /\ decision' = [key |-> k, allowed |-> FALSE]
    /\ promise' = [promise EXCEPT ![k] = now + RetryAfter(b)]
    /\ UNCHANGED <<now, window>>

\* The process dies and comes back: the buckets lived in its memory.
Restart ==
    /\ restarts < MaxRestarts
    /\ buckets' = NoBuckets
    /\ decision' = NoDecision
    /\ restarts' = IF now >= from THEN restarts + 1 ELSE restarts
    /\ promise' = [k \in Tenants |-> NoPromise]
    /\ UNCHANGED <<now, from, used>>

Next == Tick \/ Restart \/ \E k \in Tenants : Allow(k) \/ Deny(k)

Spec == Init /\ [][Next]_vars

-----------------------------------------------------------------------------
(***************************************************************************)
(* Properties.                                                             *)
(***************************************************************************)

\* The rate law: in every window, whenever it starts, a tenant gets at most
\* one burst (one more for every restart of the process in it) plus what the
\* refill rate grants for the time elapsed.  No sequence of checks, denials
\* and idle periods earns a tenant more.
RateLaw ==
    now >= from =>
        \A k \in Tenants :
            Token * used[k] <= Capacity * (1 + restarts) + Refill * (now - from)

\* What makes the rate law inductive: the tokens a bucket would hold now
\* have not been granted yet, and count.
TokensNow(k) == AtCheck(buckets, k, now).tokens

Account ==
    /\ now >= from =>
        \A k \in Tenants :
            Token * used[k] + TokensNow(k)
                <= Capacity * (1 + restarts) + Refill * (now - from)
    /\ now < from => restarts = 0 /\ used = [k \in Tenants |-> 0]

\* A denied caller that waits the retry_after it was given finds its token:
\* nothing but its own requests can take it away.
RetryHonoured ==
    \A k \in Tenants :
        promise[k] # NoPromise /\ promise[k] <= now => TokensNow(k) >= Token

\* ... and the hint is no longer than necessary: before it, still no token.
RetryNotEarly ==
    \A k \in Tenants : now < promise[k] => TokensNow(k) < Token

-----------------------------------------------------------------------------
\* A bucket is determined by the instant it will be full again, which is all
\* the state the abstract limiter keeps.
Schedule ==
    INSTANCE VirtualSchedule WITH
        tat <- [k \in Tenants |->
                    IF k \in DOMAIN buckets
                    THEN buckets[k].updated * Refill + Capacity - buckets[k].tokens
                    ELSE 0]

\* The limiter implements virtual scheduling, tenant by tenant: lazy
\* creation, lazy refill and the cap are invisible in its decisions.
ImplementsSchedule == Schedule!Spec
=============================================================================
