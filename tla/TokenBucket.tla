---------------------------- MODULE TokenBucket ----------------------------
(***************************************************************************)
(* The arithmetic of one token bucket of parcus.quota: refill for the time *)
(* elapsed, capped at the burst capacity, then compare with one token.     *)
(*                                                                         *)
(* The code counts tokens in floats.  Here they are integers in a unit     *)
(* small enough for the refill of one clock tick to be a whole number, so  *)
(* one request costs Token units.  (What float rounding could add to this  *)
(* is not modelled.)                                                       *)
(***************************************************************************)
EXTENDS Integers

CONSTANTS
    Capacity,   \* RateLimit.capacity, in units: the burst of one key
    Refill,     \* RateLimit.refill_per_sec, in units per clock tick
    Token       \* what one request consumes: 1.0 in the code

\* capacity is burst or rate, whichever is set, and the limiter is built for
\* a rate above zero only: nothing makes the capacity as large as one Token.
ASSUME BucketAssumption ==
    /\ Capacity \in Nat \ {0}
    /\ Refill \in Nat
    /\ Token \in Nat \ {0}

\* RateLimit.per_minute: the burst defaults to one minute's worth of requests.
\* The unit is a request per minute and tick, with minute ticks to a minute,
\* so rate is refilled in a tick and one request costs minute units.
PerMinute(rate, burst, minute) ==
    [capacity |-> (IF burst > 0 THEN burst ELSE rate) * minute, refill |-> rate]

Lesser(a, b) == IF a <= b THEN a ELSE b
Greater(a, b) == IF a >= b THEN a ELSE b

Bucket == [tokens : 0..Capacity, updated : Nat]

\* Mutant: a new bucket starts empty.
EmptyBucket(t) == [tokens |-> 0, updated |-> t]

\* The bucket check() creates for a key it has not seen.
FreshBucket(t) == [tokens |-> Capacity, updated |-> t]

\* Mutant: the time of the refill is not recorded.
RefilledAgain(b, t) ==
    [tokens  |-> Lesser(Capacity, b.tokens + Greater(0, t - b.updated) * Refill),
     updated |-> b.updated]

\* The refill at time t; a clock that went backwards adds nothing.
Refilled(b, t) ==
    [tokens  |-> Lesser(Capacity, b.tokens + Greater(0, t - b.updated) * Refill),
     updated |-> t]

\* Mutant: any remainder will do.
HoldsAny(b) == b.tokens > 0

Holds(b) == b.tokens >= Token
Consumed(b) == [b EXCEPT !.tokens = @ - Token]

\* Mutants: the hint rounded down; the hint for a whole token.
RetryAfterFloor(b) == IF Refill > 0 THEN (Token - b.tokens) \div Refill ELSE 0
RetryAfterWhole(b) == IF Refill > 0 THEN (Token + Refill - 1) \div Refill ELSE 0

\* retry_after in whole ticks: the engine sends its ceiling as Retry-After.
RetryAfter(b) ==
    IF Refill > 0 THEN (Token - b.tokens + Refill - 1) \div Refill ELSE 0

(***************************************************************************)
(* The buckets of a limiter are a dictionary: a function whose domain is   *)
(* the keys checked so far.                                                *)
(***************************************************************************)
NoBuckets == [k \in {} |-> FreshBucket(0)]

AtCheck(bs, k, t) == Refilled(IF k \in DOMAIN bs THEN bs[k] ELSE FreshBucket(t), t)

WithBucket(bs, k, b) ==
    [x \in DOMAIN bs \union {k} |-> IF x = k THEN b ELSE bs[x]]
=============================================================================
