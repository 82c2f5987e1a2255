-------------------------- MODULE TokenBucketProofs --------------------------
(***************************************************************************)
(* Lemmas about one token bucket and about a dictionary of buckets, for    *)
(* whoever keeps one: the limiter and the engine.                          *)
(***************************************************************************)
EXTENDS TokenBucket, TLAPS

\* Refilling gives a bucket again: never negative, never above the capacity.
LEMMA RefilledIsBucket ==
    ASSUME NEW b \in Bucket, NEW t \in Nat
    PROVE  /\ Refilled(b, t) \in Bucket
           /\ Refilled(b, t).updated = t
           /\ Refilled(b, t).tokens >= b.tokens
<1> DEFINE earned == Greater(0, t - b.updated) * Refill
<1>1. Greater(0, t - b.updated) \in Nat
  BY DEF Greater, Bucket
<1>2. earned \in Nat
  BY <1>1, BucketAssumption
<1> HIDE DEF earned
<1>3. Lesser(Capacity, b.tokens + earned) \in 0..Capacity
  BY <1>2, BucketAssumption DEF Lesser, Bucket
<1>4. Lesser(Capacity, b.tokens + earned) >= b.tokens
  BY <1>2, BucketAssumption DEF Lesser, Bucket
<1>5. Refilled(b, t) = [tokens |-> Lesser(Capacity, b.tokens + earned), updated |-> t]
  BY DEF Refilled, earned
<1> QED
  BY <1>3, <1>4, <1>5 DEF Bucket

\* What a refill of one bucket leaves, as the lesser of two numbers.
LEMMA RefilledTokens ==
    ASSUME NEW b \in Bucket, NEW t \in Nat, b.updated <= t
    PROVE  Refilled(b, t).tokens = Lesser(Capacity, b.tokens + (t - b.updated) * Refill)
<1>1. Greater(0, t - b.updated) = t - b.updated
  BY DEF Greater, Bucket
<1> QED
  BY <1>1 DEF Refilled

\* Consuming a token the bucket holds leaves a bucket.
LEMMA ConsumedIsBucket ==
    ASSUME NEW b \in Bucket, Holds(b)
    PROVE  /\ Consumed(b) \in Bucket
           /\ Consumed(b).tokens = b.tokens - Token
           /\ Consumed(b).updated = b.updated
BY BucketAssumption DEF Consumed, Bucket, Holds

\* retry_after is a whole number of ticks, and it is not negative when the
\* bucket holds less than a token.
LEMMA RetryAfterType ==
    ASSUME NEW b \in Bucket, ~Holds(b)
    PROVE  RetryAfter(b) \in Nat
<1>1. CASE Refill > 0
  <2>1. Token - b.tokens + Refill - 1 \in Nat
    BY <1>1, BucketAssumption DEF Bucket, Holds
  <2>2. (Token - b.tokens + Refill - 1) \div Refill \in Nat
    BY <1>1, <2>1, BucketAssumption
  <2> QED
    BY <1>1, <2>2 DEF RetryAfter
<1>2. CASE ~(Refill > 0)
  BY <1>2 DEF RetryAfter
<1> QED
  BY <1>1, <1>2

-----------------------------------------------------------------------------
(* A dictionary of buckets.                                                *)

BucketsOK(bs, t) ==
    bs \in [DOMAIN bs -> Bucket] /\ \A k \in DOMAIN bs : bs[k].updated <= t

\* A dictionary without buckets is one.
LEMMA NoBucketsOK ==
    ASSUME NEW t \in Nat
    PROVE  BucketsOK(NoBuckets, t) /\ DOMAIN NoBuckets = {}
BY DEF BucketsOK, NoBuckets

\* The bucket a check looks at, whether it was there or not.
LEMMA AtCheckType ==
    ASSUME NEW bs, NEW t \in Nat, BucketsOK(bs, t), NEW k
    PROVE  AtCheck(bs, k, t) \in Bucket /\ AtCheck(bs, k, t).updated = t
<1>1. FreshBucket(t) \in Bucket
  BY BucketAssumption DEF FreshBucket, Bucket
<1>2. (IF k \in DOMAIN bs THEN bs[k] ELSE FreshBucket(t)) \in Bucket
  BY <1>1 DEF BucketsOK
<1> QED
  BY <1>2, RefilledIsBucket DEF AtCheck

\* A key that has no bucket finds a full one.
LEMMA AtCheckFresh ==
    ASSUME NEW bs, NEW t \in Nat, NEW k, k \notin DOMAIN bs
    PROVE  AtCheck(bs, k, t).tokens = Capacity
<1>1. Greater(0, t - t) * Refill = 0
  BY BucketAssumption DEF Greater
<1>2. Lesser(Capacity, Capacity + 0) = Capacity
  BY BucketAssumption DEF Lesser
<1> QED
  BY <1>1, <1>2 DEF AtCheck, Refilled, FreshBucket

\* A tick adds at most the refill of one tick to what a check would find.
LEMMA TickGain ==
    ASSUME NEW bs, NEW t \in Nat, BucketsOK(bs, t), NEW k
    PROVE  AtCheck(bs, k, t + 1).tokens <= AtCheck(bs, k, t).tokens + Refill
<1> DEFINE next == t + 1
<1>1. next \in Nat
  OBVIOUS
<1>2. CASE k \notin DOMAIN bs
  <2>1. AtCheck(bs, k, t).tokens = Capacity
    BY <1>2, AtCheckFresh
  <2>2. AtCheck(bs, k, next).tokens = Capacity
    <3> HIDE DEF next
    <3> QED
      BY <1>1, <1>2, AtCheckFresh
  <2> QED
    BY <2>1, <2>2, BucketAssumption
<1>3. CASE k \in DOMAIN bs
  <2> DEFINE b == bs[k]
             age == t - b.updated
  <2>1. b \in Bucket /\ b.updated <= t /\ b.updated <= next
    BY <1>3 DEF BucketsOK, Bucket
  <2>2. b.tokens \in Nat /\ age \in Nat /\ next - b.updated = age + 1
    BY <2>1 DEF Bucket
  <2>3. AtCheck(bs, k, t) = Refilled(b, t) /\ AtCheck(bs, k, next) = Refilled(b, next)
    BY <1>3 DEF AtCheck
  <2> HIDE DEF next, b
  <2>4. /\ Refilled(b, t).tokens = Lesser(Capacity, b.tokens + age * Refill)
        /\ Refilled(b, next).tokens = Lesser(Capacity, b.tokens + (next - b.updated) * Refill)
    BY <1>1, <2>1, RefilledTokens
  <2> HIDE DEF age
  <2> DEFINE earned == age * Refill
  <2>5. (age + 1) * Refill = earned + Refill /\ earned \in Nat
    BY <2>2, BucketAssumption
  <2>6. (next - b.updated) * Refill = earned + Refill
    BY <2>2, <2>5
  <2> HIDE DEF earned
  <2>7. Refilled(b, next).tokens = Lesser(Capacity, b.tokens + (earned + Refill))
    BY <2>4, <2>6
  <2>8. Refilled(b, t).tokens = Lesser(Capacity, b.tokens + earned)
    BY <2>4 DEF earned
  <2>9. Lesser(Capacity, b.tokens + (earned + Refill)) <= Lesser(Capacity, b.tokens + earned) + Refill
    BY <2>2, <2>5, BucketAssumption DEF Lesser
  <2>10. AtCheck(bs, k, next).tokens <= AtCheck(bs, k, t).tokens + Refill
    BY <2>3, <2>7, <2>8, <2>9
  <2> QED
    BY <2>10 DEF next
<1> QED
  BY <1>2, <1>3

\* Writing a bucket: the dictionary it leaves, ...
LEMMA WithBucketOK ==
    ASSUME NEW bs, NEW t \in Nat, BucketsOK(bs, t), NEW k,
           NEW b \in Bucket, b.updated = t
    PROVE  BucketsOK(WithBucket(bs, k, b), t)
           /\ DOMAIN WithBucket(bs, k, b) = DOMAIN bs \union {k}
BY DEF BucketsOK, WithBucket

\* ... and what a check at that time finds in it.
LEMMA WithBucketTokens ==
    ASSUME NEW bs, NEW t \in Nat, NEW k, NEW b \in Bucket, b.updated = t
    PROVE  /\ AtCheck(WithBucket(bs, k, b), k, t).tokens = b.tokens
           /\ \A x : x # k => AtCheck(WithBucket(bs, k, b), x, t) = AtCheck(bs, x, t)
<1>1. AtCheck(WithBucket(bs, k, b), k, t) = Refilled(b, t)
  BY DEF AtCheck, WithBucket
<1>2. Refilled(b, t).tokens = b.tokens
  <2>1. Greater(0, t - b.updated) * Refill = 0
    BY BucketAssumption DEF Greater
  <2>2. b.tokens \in Int /\ b.tokens <= Capacity
    BY BucketAssumption DEF Bucket
  <2> QED
    BY <2>1, <2>2, BucketAssumption DEF Refilled, Lesser
<1>3. ASSUME NEW x, x # k
      PROVE  AtCheck(WithBucket(bs, k, b), x, t) = AtCheck(bs, x, t)
  BY <1>3 DEF AtCheck, WithBucket
<1> QED
  BY <1>1, <1>2, <1>3
=============================================================================
