------------------------- MODULE RateLimiterProofs -------------------------
(***************************************************************************)
(* Proofs about the rate limiter, for every capacity, refill rate, set of  *)
(* tenants and bound of the clock.                                         *)
(***************************************************************************)
EXTENDS RateLimiter, TokenBucketProofs

-----------------------------------------------------------------------------
(* The operators on one bucket.                                            *)

\* The bucket a check looks at, whether it was there or not.
LEMMA AtCheckIsBucket ==
    ASSUME TypeOK, NEW k \in Tenants
    PROVE  /\ AtCheck(buckets, k, now) \in Bucket
           /\ AtCheck(buckets, k, now).updated = now
BY AtCheckType DEF TypeOK, BucketsOK

\* Updating one key of the dictionary.
LEMMA WithBucketType ==
    ASSUME TypeOK, NEW k \in Tenants, NEW b \in Bucket, b.updated = now
    PROVE  LET bs == WithBucket(buckets, k, b) IN
           /\ DOMAIN bs \subseteq Tenants
           /\ bs \in [DOMAIN bs -> Bucket]
           /\ \A x \in DOMAIN bs : bs[x].updated <= now
BY DEF WithBucket, TypeOK

-----------------------------------------------------------------------------
\* The limiter's state is well formed: every bucket holds between nothing
\* and its capacity and was last refilled in the past.
THEOREM TypeCorrect == Spec => []TypeOK
<1>1. Init => TypeOK
  BY BucketAssumption, LimiterAssumption
  DEF Init, TypeOK, NoBuckets, NoDecision, Decision, NoPromise
<1>2. TypeOK /\ [Next]_vars => TypeOK'
  <2> SUFFICES ASSUME TypeOK, [Next]_vars
               PROVE  TypeOK'
    OBVIOUS
  <2>1. CASE Tick
    BY <2>1 DEF Tick, TypeOK, window, Bucket
  <2>2. CASE Restart
    BY <2>2 DEF Restart, TypeOK, NoBuckets, NoDecision, Decision, NoPromise
  <2>3. ASSUME NEW k \in Tenants, Allow(k)
        PROVE  TypeOK'
    <3> DEFINE b == AtCheck(buckets, k, now)
    <3>1. b \in Bucket /\ b.updated = now /\ Holds(b)
      BY <2>3, AtCheckIsBucket DEF Allow
    <3> HIDE DEF b
    <3>2. Consumed(b) \in Bucket /\ Consumed(b).updated = now
      BY <3>1, ConsumedIsBucket
    <3>3. /\ DOMAIN buckets' \subseteq Tenants
          /\ buckets' \in [DOMAIN buckets' -> Bucket]
          /\ \A x \in DOMAIN buckets' : buckets'[x].updated <= now
      BY <2>3, <3>2, WithBucketType DEF Allow, b
    <3>4. used' \in [Tenants -> Nat]
      BY <2>3 DEF Allow, TypeOK
    <3> QED
      BY <2>3, <3>3, <3>4 DEF Allow, TypeOK, Decision, NoPromise
  <2>4. ASSUME NEW k \in Tenants, Deny(k)
        PROVE  TypeOK'
    <3> DEFINE b == AtCheck(buckets, k, now)
    <3>1. b \in Bucket /\ b.updated = now /\ ~Holds(b)
      BY <2>4, AtCheckIsBucket DEF Deny
    <3> HIDE DEF b
    <3>2. RetryAfter(b) \in Nat
      BY <3>1, RetryAfterType
    <3>3. /\ DOMAIN buckets' \subseteq Tenants
          /\ buckets' \in [DOMAIN buckets' -> Bucket]
          /\ \A x \in DOMAIN buckets' : buckets'[x].updated <= now
      BY <2>4, <3>1, WithBucketType DEF Deny, b
    <3>4. promise' \in [Tenants -> Nat \union {NoPromise}]
      BY <2>4, <3>2 DEF Deny, b, TypeOK
    <3> QED
      BY <2>4, <3>3, <3>4 DEF Deny, window, TypeOK, Decision
  <2>5. CASE UNCHANGED vars
    BY <2>5 DEF vars, window, TypeOK
  <2> QED
    BY <2>1, <2>2, <2>3, <2>4, <2>5 DEF Next
<1> QED
  BY <1>1, <1>2, PTL DEF Spec

-----------------------------------------------------------------------------
(* How the tokens a bucket would hold now change.                          *)

\* The tokens a bucket would hold now lie between nothing and the capacity.
LEMMA TokensNowType ==
    ASSUME TypeOK, NEW k \in Tenants
    PROVE  TokensNow(k) \in 0..Capacity
BY AtCheckIsBucket DEF TokensNow, Bucket

\* A tick adds at most the refill of one tick.
LEMMA TickTokens ==
    ASSUME TypeOK, Tick, NEW k \in Tenants
    PROVE  /\ TokensNow(k)' <= TokensNow(k) + Refill
           /\ TokensNow(k)' \in 0..Capacity
<1> DEFINE next == now + 1
<1>1. now \in Nat /\ next \in Nat /\ now' = next /\ buckets' = buckets
  BY DEF Tick, TypeOK
<1>2. BucketsOK(buckets, now) /\ BucketsOK(buckets, next)
  BY <1>1 DEF TypeOK, BucketsOK, Bucket
<1>3. AtCheck(buckets, k, next).tokens <= AtCheck(buckets, k, now).tokens + Refill
  BY <1>1, <1>2, TickGain
<1> HIDE DEF next
<1>4. AtCheck(buckets, k, next) \in Bucket
  BY <1>1, <1>2, AtCheckType
<1> QED
  BY <1>1, <1>3, <1>4 DEF TokensNow, Bucket

\* Once a bucket has been written at the time now, it holds what was written.
LEMMA WrittenTokens ==
    ASSUME TypeOK, NEW k \in Tenants, NEW b \in Bucket, b.updated = now,
           buckets' = WithBucket(buckets, k, b), now' = now
    PROVE  /\ TokensNow(k)' = b.tokens
           /\ \A x \in Tenants \ {k} : TokensNow(x)' = TokensNow(x)
<1>1. now \in Nat
  BY DEF TypeOK
<1> QED
  BY <1>1, WithBucketTokens DEF TokensNow

-----------------------------------------------------------------------------
\* No step loses or creates tokens beyond the refill: what a tenant has been
\* granted and what its bucket still holds stay within the account.
LEMMA AccountStep ==
    TypeOK /\ Account /\ [Next]_vars => Account'
<1> SUFFICES ASSUME TypeOK, Account, [Next]_vars
             PROVE  Account'
  OBVIOUS
<1> USE BucketAssumption
<1>0. now \in Nat /\ from \in Nat /\ restarts \in Nat /\ used \in [Tenants -> Nat]
  BY DEF TypeOK
<1>1. CASE Tick
  <2>1. /\ now' = now + 1 /\ from' = from /\ used' = used /\ restarts' = restarts
    BY <1>1 DEF Tick, window
  <2>2. CASE now < from
    <3>1. restarts = 0 /\ used = [k \in Tenants |-> 0]
      BY <2>2 DEF Account
    <3>2. ASSUME now' >= from', NEW k \in Tenants
          PROVE  Token * used'[k] + TokensNow(k)'
                    <= Capacity * (1 + restarts') + Refill * (now' - from')
      <4>1. now' = from'
        BY <1>0, <2>1, <2>2, <3>2
      <4>2. TokensNow(k)' <= Capacity
        BY <1>1, TickTokens
      <4>3. Token * used'[k] = 0
        BY <3>1, <2>1
      <4>4. Capacity * (1 + restarts') = Capacity /\ Refill * (now' - from') = 0
        BY <1>0, <2>1, <3>1, <4>1
      <4>5. TokensNow(k)' \in Int
        BY <2>1, <1>0, <1>1, TickTokens
      <4> QED
        BY <4>2, <4>3, <4>4, <4>5
    <3> QED
      BY <2>1, <3>1, <3>2 DEF Account
  <2>3. CASE now >= from
    <3>1. ASSUME NEW k \in Tenants
          PROVE  Token * used'[k] + TokensNow(k)'
                    <= Capacity * (1 + restarts') + Refill * (now' - from')
      <4>1. Token * used[k] + TokensNow(k)
                <= Capacity * (1 + restarts) + Refill * (now - from)
        BY <2>3 DEF Account
      <4>2. TokensNow(k)' <= TokensNow(k) + Refill
        BY <1>1, TickTokens
      <4>3. Refill * (now' - from') = Refill * (now - from) + Refill
        BY <1>0, <2>1
      <4>4. TokensNow(k) \in Nat /\ TokensNow(k)' \in Int
        BY <1>1, TokensNowType, TickTokens
      <4>5. /\ Token * used[k] \in Nat
            /\ Capacity * (1 + restarts) \in Nat
            /\ Refill * (now - from) \in Int
        BY <1>0
      <4> HIDE DEF TokensNow
      <4> QED
        BY <2>1, <4>1, <4>2, <4>3, <4>4, <4>5
    <3> QED
      BY <1>0, <2>1, <2>3, <3>1 DEF Account
  <2> QED
    BY <1>0, <2>2, <2>3
<1>2. CASE Restart
  <2>1. /\ now' = now /\ from' = from /\ used' = used
        /\ restarts' = IF now >= from THEN restarts + 1 ELSE restarts
    BY <1>2 DEF Restart
  <2>2. ASSUME now >= from, NEW k \in Tenants
        PROVE  Token * used'[k] + TokensNow(k)'
                    <= Capacity * (1 + restarts') + Refill * (now' - from')
    <3>1. Token * used[k] + TokensNow(k)
              <= Capacity * (1 + restarts) + Refill * (now - from)
      BY <2>2 DEF Account
    <3>2. TokensNow(k)' = Capacity
      BY <1>0, <1>2, <2>1
      DEF Restart, NoBuckets, TokensNow, AtCheck, Refilled, FreshBucket, Lesser, Greater
    <3>3. Capacity * (1 + restarts') = Capacity * (1 + restarts) + Capacity
      BY <1>0, <2>1, <2>2
    <3>4. TokensNow(k) \in Nat
      BY TokensNowType
    <3>5. /\ Token * used[k] \in Nat
          /\ Capacity * (1 + restarts) \in Nat
          /\ Refill * (now - from) \in Int
      BY <1>0
    <3> QED
      BY <2>1, <3>1, <3>2, <3>3, <3>4, <3>5
  <2> QED
    BY <1>0, <2>1, <2>2 DEF Account
<1>3. ASSUME NEW k \in Tenants, Allow(k)
      PROVE  Account'
  <2> DEFINE b == AtCheck(buckets, k, now)
  <2>1. b \in Bucket /\ b.updated = now /\ Holds(b) /\ b.tokens = TokensNow(k)
    BY <1>3, AtCheckIsBucket DEF Allow, TokensNow
  <2>2. buckets' = WithBucket(buckets, k, Consumed(b))
    BY <1>3 DEF Allow
  <2>3. /\ now' = now /\ from' = from /\ restarts' = restarts
        /\ used' = IF now >= from THEN [used EXCEPT ![k] = @ + 1] ELSE used
    BY <1>3 DEF Allow
  <2> HIDE DEF b
  <2>4. /\ TokensNow(k)' = TokensNow(k) - Token
        /\ \A x \in Tenants \ {k} : TokensNow(x)' = TokensNow(x)
    BY <2>1, <2>2, <2>3, ConsumedIsBucket, WrittenTokens
  <2>5. ASSUME now >= from, NEW x \in Tenants
        PROVE  Token * used'[x] + TokensNow(x)'
                    <= Capacity * (1 + restarts) + Refill * (now - from)
    <3>1. Token * used[x] + TokensNow(x)
              <= Capacity * (1 + restarts) + Refill * (now - from)
      BY <2>5 DEF Account
    <3>2. TokensNow(x) \in Nat
      BY TokensNowType
    <3>3. CASE x = k
      <4>1. used'[x] = used[x] + 1
        BY <1>0, <2>3, <2>5, <3>3
      <4>2. Token * used'[x] = Token * used[x] + Token /\ Token * used[x] \in Nat
        BY <1>0, <4>1
      <4>3. TokensNow(x)' = TokensNow(x) - Token
        BY <2>4, <3>3
      <4> QED
        BY <3>1, <3>2, <4>2, <4>3
    <3>4. CASE x # k
      BY <1>0, <2>3, <2>4, <2>5, <3>1, <3>4
    <3> QED
      BY <3>3, <3>4
  <2> QED
    BY <1>0, <2>3, <2>5 DEF Account
<1>4. ASSUME NEW k \in Tenants, Deny(k)
      PROVE  Account'
  <2> DEFINE b == AtCheck(buckets, k, now)
  <2>1. b \in Bucket /\ b.updated = now /\ b.tokens = TokensNow(k)
    BY AtCheckIsBucket DEF TokensNow
  <2>2. buckets' = WithBucket(buckets, k, b)
    BY <1>4 DEF Deny
  <2>3. now' = now /\ from' = from /\ restarts' = restarts /\ used' = used
    BY <1>4 DEF Deny, window
  <2> HIDE DEF b
  <2>4. \A x \in Tenants : TokensNow(x)' = TokensNow(x)
    BY <2>1, <2>2, <2>3, WrittenTokens
  <2> QED
    BY <2>3, <2>4 DEF Account
<1>5. CASE UNCHANGED vars
  BY <1>5 DEF vars, window, Account, TokensNow
<1> QED
  BY <1>1, <1>2, <1>3, <1>4, <1>5 DEF Next

\* In every window a tenant is granted at most one burst per life of the
\* process plus the refill of the time elapsed.
THEOREM RateLawHolds == Spec => []RateLaw
<1>1. Init => Account
  <2> SUFFICES ASSUME Init PROVE Account
    OBVIOUS
  <2> USE BucketAssumption
  <2>1. now = 0 /\ restarts = 0 /\ used = [k \in Tenants |-> 0] /\ from \in Nat
    BY LimiterAssumption DEF Init
  <2>2. \A k \in Tenants : TokensNow(k) = Capacity
    BY DEF Init, NoBuckets, TokensNow, AtCheck, Refilled, FreshBucket, Lesser, Greater
  <2> QED
    BY <2>1, <2>2 DEF Account
<1>2. TypeOK /\ Account => RateLaw
  <2> SUFFICES ASSUME TypeOK, Account, now >= from, NEW k \in Tenants
               PROVE  Token * used[k] <= Capacity * (1 + restarts) + Refill * (now - from)
    BY DEF RateLaw
  <2>1. Token * used[k] + TokensNow(k) <= Capacity * (1 + restarts) + Refill * (now - from)
    BY DEF Account
  <2>2. TokensNow(k) \in Nat
    BY TokensNowType, BucketAssumption
  <2>3. /\ Token * used[k] \in Nat
        /\ Capacity * (1 + restarts) \in Nat
        /\ Refill * (now - from) \in Int
    BY BucketAssumption DEF TypeOK
  <2> QED
    BY <2>1, <2>2, <2>3
<1> QED
  BY <1>1, <1>2, AccountStep, TypeCorrect, PTL DEF Spec

-----------------------------------------------------------------------------
(* The promise made to a denied caller.                                    *)

\* A promise outstanding is the one its bucket still calls for: only a check
\* for the same key, which renews or redeems it, touches the bucket.
PromiseInv ==
    \A k \in Tenants :
        promise[k] # NoPromise =>
            /\ k \in DOMAIN buckets
            /\ ~Holds(buckets[k])
            /\ promise[k] = buckets[k].updated + RetryAfter(buckets[k])

\* Multiplication by a natural number is monotone.
LEMMA TimesMonotone ==
    ASSUME NEW a \in Nat, NEW b \in Nat, a <= b, NEW r \in Nat
    PROVE  a * r <= b * r
<1>1. PICK d \in Nat : b = a + d
  <2>1. b - a \in Nat /\ b = a + (b - a)
    OBVIOUS
  <2> QED
    BY <2>1
<1>2. b * r = a * r + d * r
  BY <1>1
<1>3. a * r \in Nat /\ d * r \in Nat
  BY <1>1
<1> QED
  BY <1>2, <1>3

\* The ceiling of a division: the least number of refills that makes up for
\* the deficit.
LEMMA CeilingIsLeast ==
    ASSUME NEW r \in Nat, r > 0, NEW deficit \in Nat, deficit > 0, NEW n \in Nat
    PROVE  n >= (deficit + r - 1) \div r <=> n * r >= deficit
<1> DEFINE q == (deficit + r - 1) \div r
           x == deficit + r - 1
<1>1. x \in Nat
  OBVIOUS
<1>2. q \in Nat /\ r * q <= x /\ x < r * (q + 1)
  BY <1>1
<1> HIDE DEF q
<1>3. r * (q + 1) = q * r + r /\ r * q = q * r /\ q * r \in Nat /\ n * r \in Nat
  BY <1>2
<1>4. q * r >= deficit /\ q * r <= deficit + r - 1
  BY <1>2, <1>3
<1>5. ASSUME n >= q PROVE n * r >= deficit
  <2>1. n * r >= q * r
    BY <1>2, <1>5, TimesMonotone
  <2> QED
    BY <1>3, <1>4, <2>1
<1>6. ASSUME ~(n >= q) PROVE ~(n * r >= deficit)
  <2>1. (n + 1) * r <= q * r
    BY <1>2, <1>6, TimesMonotone
  <2>2. (n + 1) * r = n * r + r
    OBVIOUS
  <2> QED
    BY <1>3, <1>4, <2>1, <2>2
<1> QED
  BY <1>5, <1>6 DEF q

\* A promise is made and kept only for a bucket too poor for a request, and
\* every step keeps it that way.
LEMMA PromiseStep ==
    TypeOK /\ PromiseInv /\ [Next]_vars => PromiseInv'
<1> SUFFICES ASSUME TypeOK, PromiseInv, [Next]_vars
             PROVE  PromiseInv'
  OBVIOUS
<1>1. CASE Tick
  BY <1>1 DEF Tick, PromiseInv
<1>2. CASE Restart
  BY <1>2 DEF Restart, PromiseInv
<1>3. ASSUME NEW k \in Tenants, Allow(k)
      PROVE  PromiseInv'
  BY <1>3 DEF Allow, PromiseInv, WithBucket, TypeOK
<1>4. ASSUME NEW k \in Tenants, Deny(k)
      PROVE  PromiseInv'
  <2> DEFINE b == AtCheck(buckets, k, now)
  <2>1. b.updated = now /\ ~Holds(b)
    BY <1>4, AtCheckIsBucket DEF Deny
  <2> HIDE DEF b
  <2>2. buckets' = WithBucket(buckets, k, b) /\ promise' = [promise EXCEPT ![k] = now + RetryAfter(b)]
    BY <1>4 DEF Deny, b
  <2> QED
    BY <2>1, <2>2 DEF PromiseInv, WithBucket, TypeOK
<1>5. CASE UNCHANGED vars
  BY <1>5 DEF vars, window, PromiseInv
<1> QED
  BY <1>1, <1>2, <1>3, <1>4, <1>5 DEF Next

\* When the bucket is as large as one request and refills at all, a denied
\* caller finds its token exactly from the retry time on, not before.
LEMMA RetryHintExact ==
    ASSUME Refill > 0, Capacity >= Token
    PROVE  Spec => [](RetryHonoured /\ RetryNotEarly)
<1>1. Init => PromiseInv
  BY DEF Init, PromiseInv
<1>2. ASSUME TypeOK, PromiseInv, NEW k \in Tenants, promise[k] # NoPromise
      PROVE  promise[k] <= now <=> TokensNow(k) >= Token
  <2> USE BucketAssumption
  <2> DEFINE b == buckets[k]
             n == now - b.updated
             deficit == Token - b.tokens
  <2>1. b \in Bucket /\ ~Holds(b) /\ promise[k] = b.updated + RetryAfter(b)
    BY <1>2 DEF PromiseInv, TypeOK
  <2>2. n \in Nat /\ deficit \in Nat \ {0}
    BY <1>2, <2>1 DEF TypeOK, Bucket, PromiseInv, Holds
  <2>3. RetryAfter(b) = (deficit + Refill - 1) \div Refill
    BY DEF RetryAfter
  <2>4. TokensNow(k) = Lesser(Capacity, b.tokens + n * Refill)
    BY <1>2, RefilledTokens DEF TokensNow, AtCheck, PromiseInv, TypeOK
  <2>5. promise[k] <= now <=> n >= RetryAfter(b)
    <3>1. RetryAfter(b) \in Nat
      BY <2>1, RetryAfterType
    <3> QED
      BY <1>2, <2>1, <3>1 DEF TypeOK, Bucket
  <2>6. n >= RetryAfter(b) <=> n * Refill >= deficit
    <3> HIDE DEF n, deficit
    <3>1. deficit \in Nat /\ deficit > 0 /\ Refill > 0
      BY <2>2
    <3> QED
      BY <2>2, <2>3, <3>1, CeilingIsLeast
  <2>7. n * Refill >= deficit <=> TokensNow(k) >= Token
    <3>1. n * Refill \in Nat /\ b.tokens \in Nat /\ deficit = Token - b.tokens
      BY <2>1, <2>2 DEF Bucket
    <3> HIDE DEF n, deficit
    <3> QED
      BY <2>4, <3>1 DEF Lesser
  <2> QED
    BY <2>5, <2>6, <2>7
<1>3. TypeOK /\ PromiseInv => RetryHonoured /\ RetryNotEarly
  <2> SUFFICES ASSUME TypeOK, PromiseInv, NEW k \in Tenants
               PROVE  /\ promise[k] # NoPromise /\ promise[k] <= now => TokensNow(k) >= Token
                      /\ now < promise[k] => TokensNow(k) < Token
    BY DEF RetryHonoured, RetryNotEarly
  <2>1. CASE promise[k] = NoPromise
    BY <2>1 DEF NoPromise, TypeOK
  <2>2. CASE promise[k] # NoPromise
    <3>1. promise[k] \in Nat /\ now \in Nat /\ TokensNow(k) \in Nat
      BY <2>2, TokensNowType, BucketAssumption DEF TypeOK
    <3> QED
      BY <1>2, <2>2, <3>1, BucketAssumption
  <2> QED
    BY <2>1, <2>2
<1> QED
  BY <1>1, <1>3, PromiseStep, TypeCorrect, PTL DEF Spec

\* A denied caller that waits as long as it was told finds its token.
THEOREM RetryAlwaysHonoured ==
    ASSUME Refill > 0, Capacity >= Token PROVE Spec => []RetryHonoured
<1>1. RetryHonoured /\ RetryNotEarly => RetryHonoured
  OBVIOUS
<1> QED
  BY <1>1, RetryHintExact, PTL

\* ... and would not have found it any earlier.
THEOREM RetryNeverEarly ==
    ASSUME Refill > 0, Capacity >= Token PROVE Spec => []RetryNotEarly
<1>1. RetryHonoured /\ RetryNotEarly => RetryNotEarly
  OBVIOUS
<1> QED
  BY <1>1, RetryHintExact, PTL

-----------------------------------------------------------------------------
(* The refinement of the abstract schedule.                                *)

Tat == [k \in Tenants |->
            IF k \in DOMAIN buckets
            THEN buckets[k].updated * Refill + Capacity - buckets[k].tokens
            ELSE 0]

\* Refilling a bucket moves the instant it is full again to the present if
\* it had passed, and leaves it alone otherwise.
LEMMA RefillIsDue ==
    ASSUME TypeOK, NEW k \in Tenants
    PROVE  Schedule!Due(k) = now * Refill + Capacity - AtCheck(buckets, k, now).tokens
<1> USE BucketAssumption
<1> DEFINE R == now * Refill
<1>0. now \in Nat /\ R \in Nat
  BY DEF TypeOK
<1>1. CASE k \notin DOMAIN buckets
  <2>1. AtCheck(buckets, k, now).tokens = Capacity
    BY <1>0, <1>1 DEF AtCheck, Refilled, FreshBucket, Lesser, Greater
  <2>2. Schedule!Due(k) = R
    BY <1>0, <1>1 DEF Schedule!Due
  <2> HIDE DEF R
  <2> QED
    BY <1>0, <2>1, <2>2 DEF R
<1>2. CASE k \in DOMAIN buckets
  <2> DEFINE b == buckets[k]
             U == b.updated * Refill
             E == (now - b.updated) * Refill
  <2>1. /\ b \in Bucket /\ b.updated \in Nat /\ b.updated <= now
        /\ b.tokens \in Nat /\ b.tokens <= Capacity
    BY <1>2 DEF TypeOK, Bucket
  <2>2. AtCheck(buckets, k, now).tokens = Lesser(Capacity, b.tokens + E)
    BY <1>0, <1>2, <2>1, RefilledTokens DEF AtCheck
  <2>3. Schedule!Due(k) = IF U + Capacity - b.tokens >= R THEN U + Capacity - b.tokens ELSE R
    BY <1>2 DEF Schedule!Due
  <2>4. R = U + E /\ U \in Nat /\ E \in Int
    BY <1>0, <2>1
  <2> HIDE DEF R, U, E, b
  <2>5. Schedule!Due(k) = R + Capacity - AtCheck(buckets, k, now).tokens
    BY <1>0, <2>1, <2>2, <2>3, <2>4 DEF Lesser
  <2> QED
    BY <2>5 DEF R
<1> QED
  BY <1>1, <1>2

\* The instant the bucket written by a check is full again.
LEMMA WrittenTat ==
    ASSUME TypeOK, NEW k \in Tenants, NEW b \in Bucket, b.updated = now,
           buckets' = WithBucket(buckets, k, b)
    PROVE  Tat' = [Tat EXCEPT ![k] = now * Refill + Capacity - b.tokens]
<1>1. DOMAIN buckets' = DOMAIN buckets \union {k} /\ buckets'[k] = b
  BY DEF WithBucket
<1>2. \A x \in Tenants \ {k} :
        /\ x \in DOMAIN buckets' <=> x \in DOMAIN buckets
        /\ x \in DOMAIN buckets => buckets'[x] = buckets[x]
  BY DEF WithBucket
<1> QED
  BY <1>1, <1>2 DEF Tat

\* Every check, tick and restart of the limiter is a step of the schedule.
LEMMA ScheduleStep ==
    TypeOK /\ [Next]_vars => [Schedule!Next]_(Schedule!svars)
<1> SUFFICES ASSUME TypeOK, [Next]_vars
             PROVE  Schedule!Next \/ UNCHANGED Schedule!svars
  OBVIOUS
<1> USE BucketAssumption
<1>1. CASE Tick
  BY <1>1 DEF Tick, Schedule!Next, Schedule!Tick
<1>2. CASE Restart
  BY <1>2 DEF Restart, NoBuckets, NoDecision, Schedule!NoDecision, Schedule!Next, Schedule!Forget
<1>3. ASSUME NEW k \in Tenants, Allow(k) \/ Deny(k)
      PROVE  Schedule!Request(k)
  <2> DEFINE b == AtCheck(buckets, k, now)
             R == now * Refill
  <2>0. R \in Nat
    BY DEF TypeOK
  <2>1. b \in Bucket /\ b.updated = now /\ b.tokens \in Nat
    BY AtCheckIsBucket DEF Bucket
  <2>2. Schedule!Due(k) = R + Capacity - b.tokens
    BY RefillIsDue
  <2>3. Schedule!Conforms(k) <=> Holds(b)
    <3>1. Schedule!Conforms(k) <=> Schedule!Due(k) + Token <= R + Capacity
      BY DEF Schedule!Conforms
    <3>2. Holds(b) <=> b.tokens >= Token
      BY DEF Holds
    <3> HIDE DEF R, b
    <3> QED
      BY <2>0, <2>1, <2>2, <3>1, <3>2
  <2>4. CASE Allow(k)
    <3>1. /\ Holds(b)
          /\ buckets' = WithBucket(buckets, k, Consumed(b))
          /\ decision' = [key |-> k, allowed |-> TRUE] /\ now' = now
      BY <2>4 DEF Allow
    <3>2. Tat' = [Tat EXCEPT ![k] = R + Capacity - Consumed(b).tokens]
      BY <2>1, <3>1, ConsumedIsBucket, WrittenTat
    <3>3. R + Capacity - Consumed(b).tokens = Schedule!Due(k) + Token
      <4>1. Consumed(b).tokens = b.tokens - Token
        BY <2>1, <3>1, ConsumedIsBucket
      <4> HIDE DEF R, b
      <4> QED
        BY <2>0, <2>1, <2>2, <4>1
    <3>4. Tat' = [Tat EXCEPT ![k] = Schedule!Due(k) + Token]
      BY <3>2, <3>3
    <3> QED
      BY <2>3, <3>1, <3>4 DEF Schedule!Request, Tat
  <2>5. CASE Deny(k)
    <3>1. /\ ~Holds(b)
          /\ buckets' = WithBucket(buckets, k, b)
          /\ decision' = [key |-> k, allowed |-> FALSE] /\ now' = now
      BY <2>5 DEF Deny
    <3>2. Tat' = [Tat EXCEPT ![k] = Schedule!Due(k)]
      BY <2>1, <2>2, <3>1, WrittenTat
    <3>3. Schedule!Conforms(k) = FALSE
      BY <2>3, <3>1 DEF Schedule!Conforms
    <3> QED
      BY <3>1, <3>2, <3>3 DEF Schedule!Request, Tat
  <2> QED
    BY <1>3, <2>4, <2>5
<1>4. CASE UNCHANGED vars
  BY <1>4 DEF vars, Schedule!svars
<1> QED
  BY <1>1, <1>2, <1>3, <1>4 DEF Next, Schedule!Next

\* The limiter decides as the schedule does, tenant by tenant, for every
\* capacity and rate: also for a capacity below one request.
THEOREM LimiterImplementsSchedule == Spec => ImplementsSchedule
<1>1. Init => Schedule!Init
  BY DEF Init, NoBuckets, NoDecision, Schedule!Init, Schedule!NoDecision
<1> QED
  BY <1>1, ScheduleStep, TypeCorrect, PTL DEF Spec, ImplementsSchedule, Schedule!Spec
=============================================================================
