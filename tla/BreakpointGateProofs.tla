------------------------ MODULE BreakpointGateProofs ------------------------
(***************************************************************************)
(* Proofs about the breakpoint gate, for every cap, TTL, sampling rate and *)
(* finite set of requests, and whatever the wall clock does.               *)
(***************************************************************************)
EXTENDS BreakpointGate, FiniteSetTheorems, WellFoundedInduction, TLAPS

-----------------------------------------------------------------------------
\* The sampler keeps its share: each call moves both sides by at most one.
THEOREM ShareKept == Spec => []SampleShare
<1> DEFINE Counters == sampler \in [calls : Nat, verified : Nat]
<1> DEFINE SInv == Counters /\ SampleShare
<1>1. Init => SInv
  BY SampleAssumption DEF Init, SampleShare, NoCalls
<1>2. SInv /\ [Next]_vars => SInv'
  <2> SUFFICES ASSUME SInv, [Next]_vars PROVE SInv'
    OBVIOUS
  <2>1. CASE sampler' = sampler
    BY <2>1 DEF SampleShare
  <2>2. CASE sampler' = NoCalls
    BY <2>2, SampleAssumption DEF SampleShare, NoCalls
  <2>3. CASE sampler' = Sampled(sampler)
    <3>1. /\ sampler'.calls = sampler.calls + 1
          /\ sampler'.verified =
                sampler.verified + (IF ShouldVerify(sampler) THEN 1 ELSE 0)
          /\ Counters'
      BY <2>3 DEF Sampled
    <3> DEFINE c == sampler.calls
               v == sampler.verified
    <3>2. c \in Nat /\ v \in Nat
      OBVIOUS
    <3>3. /\ RateNum * (c + 1) = RateNum * c + RateNum
          /\ RateDen * (v + 1) = RateDen * v + RateDen
          /\ RateNum * c \in Nat /\ RateDen * v \in Nat
      BY <3>2, SampleAssumption
    <3>4. RateNum * c <= RateDen * v /\ RateDen * v < RateNum * c + RateDen
      BY DEF SampleShare
    <3>5. CASE ShouldVerify(sampler)
      <4>1. sampler'.verified = v + 1 /\ RateDen * v < RateNum * (c + 1)
        BY <3>1, <3>5 DEF ShouldVerify
      <4> QED
        BY <3>1, <3>3, <3>4, <4>1, SampleAssumption DEF SampleShare
    <3>6. CASE ~ShouldVerify(sampler)
      <4>1. sampler'.verified = v /\ RateNum * (c + 1) <= RateDen * v
        BY <3>1, <3>2, <3>3, <3>6, SampleAssumption DEF ShouldVerify
      <4> QED
        BY <3>1, <3>3, <3>4, <4>1, SampleAssumption DEF SampleShare
    <3> QED
      BY <3>5, <3>6
  <2> QED
    BY <2>1, <2>2, <2>3 DEF Next, vars, Arrive, Sample, Clock, Restart
<1> QED
  BY <1>1, <1>2, PTL DEF Spec

-----------------------------------------------------------------------------
(* The sightings.                                                          *)

Sightings == [key : Keys, at : Int, inject : BOOLEAN]

\* Every key that was sighted has a sighting that is its latest.
LatestExist ==
    \A i \in 1..Len(sightings) :
        \E l \in i..Len(sightings) :
            sightings[l].key = sightings[i].key /\ IsLatest(l)

Shapes ==
    /\ now \in Int
    /\ sightings \in Seq(Sightings)
    /\ turn = Len(sightings) + 1
    /\ DOMAIN seen \subseteq Keys
    /\ seen \in [DOMAIN seen -> [at : Int, turn : Nat]]
    /\ sampler \in [calls : Nat, verified : Nat]
    /\ restarts \in Nat

IInv == Shapes /\ LatestExist /\ SeenIsNewest /\ VerdictsRight

\* There are finitely many keys, so every count of keys is a number.
LEMMA KeysFinite == IsFiniteSet(Keys)
<1> DEFINE f == [r \in Requests |-> Key(r)]
<1>1. f \in Surjection(Requests, Keys)
  BY DEF Surjection, Keys
<1> QED
  BY <1>1, GateAssumption, FS_Surjection

\* Counting keys is monotonic.
LEMMA KeyCount ==
    ASSUME NEW S \in SUBSET Keys, NEW T \in SUBSET S
    PROVE  /\ Cardinality(S) \in Nat /\ Cardinality(T) \in Nat
           /\ Cardinality(T) <= Cardinality(S)
BY KeysFinite, FS_Subset, FS_CardinalityType

\* Only keys are sighted, and fewer of them since a later moment.
LEMMA SinceKeys ==
    ASSUME Shapes, NEW i \in 1..Len(sightings)
    PROVE  /\ Since(i) \subseteq Keys
           /\ \A l \in i..Len(sightings) : Since(l) \subseteq Since(i)
<1>1. Len(sightings) \in Nat
  BY DEF Shapes
<1>2. \A j \in 1..Len(sightings) : sightings[j] \in Sightings
  BY DEF Shapes
<1>3. \A j \in 1..Len(sightings) : sightings[j].key \in Keys
  BY <1>2 DEF Sightings
<1>4. i + 1..Len(sightings) + 1 - 1 \subseteq 1..Len(sightings)
  BY <1>1
<1>5. \A l \in i..Len(sightings) :
        l + 1..Len(sightings) + 1 - 1 \subseteq i + 1..Len(sightings) + 1 - 1
  BY <1>1
<1> QED
  BY <1>3, <1>4, <1>5 DEF Since, Between

\* What SeenIsNewest says of one entry.
LEMMA EntryFacts ==
    ASSUME Shapes, SeenIsNewest, NEW k \in DOMAIN seen
    PROVE  LET i == seen[k].turn IN
           /\ i \in 1..Len(sightings)
           /\ sightings[i].key = k /\ sightings[i].at = seen[k].at
           /\ IsLatest(i) /\ Cardinality(Since(i)) < Cap
           /\ Len(sightings) \in Nat
<1>1. EntryIs(k, seen[k].turn)
  BY DEF SeenIsNewest
<1>2. Len(sightings) \in Nat
  BY DEF Shapes
<1> QED
  BY <1>1, <1>2 DEF EntryIs

\* An entry of the seen-set is not older than any sighting of its key.
LEMMA EntryIsLatest ==
    ASSUME Shapes, SeenIsNewest, NEW m \in 1..Len(sightings),
           sightings[m].key \in DOMAIN seen
    PROVE  m <= seen[sightings[m].key].turn
<1> DEFINE i == seen[sightings[m].key].turn
<1>1. /\ i \in 1..Len(sightings) /\ sightings[i].key = sightings[m].key
      /\ IsLatest(i) /\ Len(sightings) \in Nat
  BY EntryFacts
<1>2. SUFFICES ASSUME i < m PROVE FALSE
  BY <1>1
<1>3. m \in i + 1..Len(sightings) + 1 - 1
  BY <1>1, <1>2
<1>4. sightings[m].key \in Since(i)
  BY <1>3 DEF Since, Between
<1> QED
  BY <1>1, <1>4 DEF IsLatest

\* From any of its entries on, the seen-set has all the keys sighted since.
LEMMA NewerAreSeen ==
    ASSUME IInv, NEW k \in DOMAIN seen
    PROVE  NewerIn(seen, k) = Since(seen[k].turn)
<1> DEFINE i == seen[k].turn
<1>1. /\ i \in 1..Len(sightings) /\ sightings[i].key = k /\ Cardinality(Since(i)) < Cap
      /\ Len(sightings) \in Nat
  BY EntryFacts DEF IInv
<1>2. ASSUME NEW q \in NewerIn(seen, k) PROVE q \in Since(i)
  <2>1. /\ q \in DOMAIN seen /\ seen[q].turn > i
        /\ seen[q].turn \in 1..Len(sightings) /\ sightings[seen[q].turn].key = q
    BY <1>2, EntryFacts DEF NewerIn, IInv
  <2>2. seen[q].turn \in i + 1..Len(sightings) + 1 - 1
    BY <1>1, <2>1
  <2> QED
    BY <2>1, <2>2 DEF Since, Between
<1>3. ASSUME NEW q \in Since(i) PROVE q \in NewerIn(seen, k)
  <2>1. PICK m \in i + 1..Len(sightings) : sightings[m].key = q
    BY <1>1, <1>3 DEF Since, Between
  <2>2. m \in 1..Len(sightings)
    BY <1>1, <2>1
  <2>3. PICK l \in m..Len(sightings) : sightings[l].key = q /\ IsLatest(l)
    BY <2>1, <2>2 DEF IInv, LatestExist
  <2>4. l \in 1..Len(sightings) /\ l > i
    BY <1>1, <2>1, <2>3
  <2>5. Since(l) \subseteq Since(i) /\ Since(i) \subseteq Keys
    BY <1>1, <2>4, SinceKeys DEF IInv
  <2>6. Cardinality(Since(l)) < Cap
    <3>1. /\ Cardinality(Since(l)) \in Nat /\ Cardinality(Since(i)) \in Nat
          /\ Cardinality(Since(l)) <= Cardinality(Since(i))
      BY <2>5, KeyCount
    <3>2. Cap \in Int
      BY SeenAssumption DEF Cap
    <3> HIDE DEF i
    <3> QED
      BY <1>1, <3>1, <3>2
  <2>7. q \in DOMAIN seen
    BY <2>3, <2>4, <2>6 DEF IInv, SeenIsNewest, EntryIs
  <2>8. l <= seen[q].turn /\ seen[q].turn \in Nat
    BY <2>3, <2>4, <2>7, EntryIsLatest DEF IInv, Shapes
  <2> QED
    BY <1>1, <2>4, <2>7, <2>8 DEF NewerIn
<1> QED
  BY <1>2, <1>3

\* A set of numbers has a least one.
LEMMA LeastOf ==
    ASSUME NEW S \in SUBSET Nat, S # {}
    PROVE  \E i \in S : \A j \in S : i <= j
<1> DEFINE R == {p \in Nat \X Nat : p[1] < p[2]}
<1>1. R = OpToRel(<, Nat)
  BY DEF OpToRel
<1>2. \A x, y \in Nat : <<x, y>> \in R <=> x < y
  OBVIOUS
<1>3. IsWellFoundedOn(R, Nat)
  BY <1>1, NatLessThanWellFounded
<1> HIDE DEF R
<1>4. PICK i \in S : \A j \in S : ~(<<j, i>> \in R)
  BY <1>3, WFMin
<1>5. \A j \in S : ~(j < i)
  BY <1>2, <1>4
<1> QED
  BY <1>5

\* The seen-set is within its cap: all but its oldest entry are newer than it.
LEMMA SeenWithinCap ==
    ASSUME IInv
    PROVE  Cardinality(DOMAIN seen) <= Cap
<1>1. CASE DOMAIN seen = {}
  BY <1>1, FS_EmptySet, SeenAssumption DEF Cap
<1>2. CASE DOMAIN seen # {}
  <2> DEFINE Ages == {seen[k].turn : k \in DOMAIN seen}
  <2>1. Ages \subseteq Nat /\ Ages # {}
    BY <1>2 DEF IInv, Shapes
  <2>3. PICK i \in Ages : \A j \in Ages : i <= j
    BY <2>1, LeastOf
  <2>4. PICK k \in DOMAIN seen : seen[k].turn = i
    OBVIOUS
  <2>5. ASSUME NEW j \in DOMAIN seen \ {k} PROVE j \in NewerIn(seen, k)
    <3>1. seen[j].turn # i
      BY <2>4, EntryFacts DEF IInv
    <3>2. seen[j].turn \in Nat /\ i \in Nat /\ i <= seen[j].turn
      BY <2>1, <2>3
    <3> QED
      BY <2>4, <3>1, <3>2 DEF NewerIn
  <2>6. Cardinality(NewerIn(seen, k)) < Cap
    BY <2>4, NewerAreSeen, EntryFacts DEF IInv
  <2>7. IsFiniteSet(DOMAIN seen) /\ NewerIn(seen, k) \subseteq Keys
    BY KeysFinite, FS_Subset DEF IInv, Shapes, NewerIn
  <2>8. /\ Cardinality(DOMAIN seen \ {k}) = Cardinality(DOMAIN seen) - 1
        /\ Cardinality(DOMAIN seen) \in Nat
    BY <2>7, FS_RemoveElement, FS_CardinalityType
  <2>9. Cardinality(DOMAIN seen \ {k}) <= Cardinality(NewerIn(seen, k))
        /\ Cardinality(NewerIn(seen, k)) \in Nat
    BY <2>5, <2>7, KeyCount
  <2> HIDE DEF Ages
  <2> QED
    BY <2>6, <2>8, <2>9, SeenAssumption DEF Cap
<1> QED
  BY <1>1, <1>2

-----------------------------------------------------------------------------
(* A sighting.                                                             *)

\* The other entries keep their place, with one more key after them.
LEMMA Insertion ==
    ASSUME IInv, NEW k \in Keys, NEW ins, ins = Inserted(seen, k, now, turn)
    PROVE  /\ DOMAIN ins = DOMAIN seen \union {k}
           /\ ins[k] = [at |-> now, turn |-> turn] /\ NewerIn(ins, k) = {}
           /\ \A j \in DOMAIN seen \ {k} :
                /\ ins[j] = seen[j]
                /\ NewerIn(ins, j) = Since(seen[j].turn) \union {k}
<1>1. /\ DOMAIN ins = DOMAIN seen \union {k}
      /\ ins[k] = [at |-> now, turn |-> turn]
      /\ \A j \in DOMAIN seen \ {k} : ins[j] = seen[j]
  BY DEF Inserted
<1>2. \A j \in DOMAIN seen : seen[j].turn \in Nat /\ seen[j].turn < turn
  BY EntryFacts DEF IInv, Shapes
<1>3. turn \in Nat /\ ins[k].turn = turn
  BY <1>1 DEF IInv, Shapes
<1>4. NewerIn(ins, k) = {}
  BY <1>1, <1>2, <1>3 DEF NewerIn
<1>5. ASSUME NEW j \in DOMAIN seen \ {k}
      PROVE  NewerIn(ins, j) = Since(seen[j].turn) \union {k}
  <2>1. NewerIn(ins, j) = NewerIn(seen, j) \union {k}
    BY <1>1, <1>2, <1>3 DEF NewerIn
  <2> QED
    BY <2>1, NewerAreSeen
<1> QED
  BY <1>1, <1>4, <1>5

\* The history after a sighting, in terms of the one before.
LEMMA History ==
    ASSUME IInv, NEW k \in Keys, NEW n, n = Len(sightings), NEW b \in BOOLEAN,
           sightings' = Append(sightings, [key |-> k, at |-> now, inject |-> b])
    PROVE  /\ n \in Nat /\ Len(sightings') = n + 1
           /\ \A i \in 1..n : sightings'[i] = sightings[i]
           /\ sightings'[n + 1] = [key |-> k, at |-> now, inject |-> b]
           /\ sightings' \in Seq(Sightings)
           /\ \A i \in 1..n : Since(i)' = Since(i) \union {k}
           /\ Since(n + 1)' = {}
           /\ \A i \in 1..n : \A j \in 1..n + 1 : Between(i, j)' = Between(i, j)
           /\ \A i \in 1..n : Between(i, n + 1) = Since(i)
<1>1. sightings \in Seq(Sightings) /\ n \in Nat /\ now \in Int
  BY DEF IInv, Shapes
<1>2. [key |-> k, at |-> now, inject |-> b] \in Sightings
  BY <1>1 DEF Sightings
<1>3. /\ Len(sightings') = n + 1
      /\ \A i \in 1..n : sightings'[i] = sightings[i]
      /\ sightings'[n + 1] = [key |-> k, at |-> now, inject |-> b]
      /\ sightings' \in Seq(Sightings)
  BY <1>1, <1>2
<1>4. ASSUME NEW i \in 1..n, NEW j \in 1..n + 1
      PROVE  Between(i, j)' = Between(i, j)
  <2>1. \A m \in i + 1..j - 1 : sightings'[m] = sightings[m]
    BY <1>1, <1>3, <1>4
  <2> QED
    BY <2>1 DEF Between
<1>5. ASSUME NEW i \in 1..n PROVE Since(i)' = Since(i) \union {k}
  <2>1. i + 1..n + 1 + 1 - 1 = (i + 1..n + 1 - 1) \union {n + 1}
    BY <1>1, <1>5
  <2>2. \A m \in i + 1..n + 1 - 1 : sightings'[m] = sightings[m]
    BY <1>1, <1>3, <1>5
  <2>3. sightings'[n + 1].key = k
    BY <1>3
  <2> QED
    BY <1>3, <2>1, <2>2, <2>3 DEF Since, Between
<1>6. Since(n + 1)' = {}
  BY <1>1, <1>3 DEF Since, Between
<1>7. \A i \in 1..n : Between(i, n + 1) = Since(i)
  BY DEF Since
<1> QED
  BY <1>1, <1>3, <1>4, <1>5, <1>6, <1>7

\* What a sighting of k does.
Sees(k) ==
    /\ seen' = Sighted(seen, k, now, turn)
    /\ turn' = turn + 1
    /\ sightings' =
          Append(sightings, [key |-> k, at |-> now, inject |-> SeenRecently(seen, k, now)])

\* The history of a sighting.
LEMMA SightHistory ==
    ASSUME IInv, NEW k \in Keys, Sees(k), NEW n, n = Len(sightings)
    PROVE  /\ n \in Nat /\ Len(sightings') = n + 1
           /\ \A i \in 1..n : sightings'[i] = sightings[i]
           /\ sightings'[n + 1] =
                 [key |-> k, at |-> now, inject |-> SeenRecently(seen, k, now)]
           /\ sightings' \in Seq(Sightings)
           /\ \A i \in 1..n : Since(i)' = Since(i) \union {k}
           /\ Since(n + 1)' = {}
           /\ \A i \in 1..n : \A j \in 1..n + 1 : Between(i, j)' = Between(i, j)
           /\ \A i \in 1..n : Between(i, n + 1) = Since(i)
<1>1. PICK b \in BOOLEAN : b = SeenRecently(seen, k, now)
  BY DEF SeenRecently
<1>2. sightings' = Append(sightings, [key |-> k, at |-> now, inject |-> b])
  BY <1>1 DEF Sees
<1> QED
  BY <1>1, <1>2, History

\* The entries a sighting leaves: the newest Cap of them, that of k first.
LEMMA Eviction ==
    ASSUME IInv, NEW k \in Keys, Sees(k)
    PROVE  /\ k \in DOMAIN seen'
           /\ seen'[k] = [at |-> now, turn |-> turn]
           /\ \A j \in DOMAIN seen' : j \in DOMAIN seen \union {k}
           /\ \A j \in DOMAIN seen \ {k} :
                /\ j \in DOMAIN seen' <=>
                      Cardinality(Since(seen[j].turn) \union {k}) < Cap
                /\ j \in DOMAIN seen' => seen'[j] = seen[j]
<1> DEFINE ins == Inserted(seen, k, now, turn)
<1>1. /\ DOMAIN ins = DOMAIN seen \union {k}
      /\ ins[k] = [at |-> now, turn |-> turn] /\ NewerIn(ins, k) = {}
      /\ \A j \in DOMAIN seen \ {k} :
            ins[j] = seen[j] /\ NewerIn(ins, j) = Since(seen[j].turn) \union {k}
  BY Insertion
<1>2. seen' = [j \in {q \in DOMAIN ins : Cardinality(NewerIn(ins, q)) < Cap} |-> ins[j]]
  BY DEF Sees, Sighted, Evicted
<1>3. Cardinality(NewerIn(ins, k)) < Cap
  BY <1>1, FS_EmptySet, SeenAssumption DEF Cap
<1> HIDE DEF ins
<1> QED
  BY <1>1, <1>2, <1>3

\* The shape of the state and the latest sightings.
LEMMA SightShapes ==
    ASSUME IInv, NEW k \in Keys, Sees(k)
    PROVE  /\ sightings' \in Seq(Sightings) /\ turn' = Len(sightings') + 1
           /\ DOMAIN seen' \subseteq Keys
           /\ seen' \in [DOMAIN seen' -> [at : Int, turn : Nat]]
           /\ LatestExist'
<1>0. PICK n : n = Len(sightings)
  OBVIOUS
<1>1. /\ n \in Nat /\ Len(sightings') = n + 1
      /\ \A i \in 1..n : sightings'[i] = sightings[i]
      /\ sightings'[n + 1] =
            [key |-> k, at |-> now, inject |-> SeenRecently(seen, k, now)]
      /\ sightings' \in Seq(Sightings)
      /\ \A i \in 1..n : Since(i)' = Since(i) \union {k}
      /\ Since(n + 1)' = {}
  BY <1>0, SightHistory
<1>2. /\ DOMAIN seen \subseteq Keys /\ turn = n + 1 /\ now \in Int
      /\ \A j \in DOMAIN seen : seen[j] \in [at : Int, turn : Nat]
  BY <1>0 DEF IInv, Shapes
<1>3. turn' = Len(sightings') + 1
  BY <1>1, <1>2 DEF Sees
<1>4. DOMAIN seen' \subseteq Keys
  BY <1>2, Eviction
<1>5. seen' \in [DOMAIN seen' -> [at : Int, turn : Nat]]
  <2>1. seen' = [j \in DOMAIN seen' |-> seen'[j]]
    BY DEF Sees, Sighted, Evicted
  <2>2. ASSUME NEW j \in DOMAIN seen' PROVE seen'[j] \in [at : Int, turn : Nat]
    <3>1. CASE j = k
      BY <1>1, <1>2, <3>1, Eviction
    <3>2. CASE j # k
      BY <1>2, <2>2, <3>2, Eviction
    <3> QED
      BY <3>1, <3>2
  <2> QED
    BY <2>1, <2>2
<1>6. LatestExist'
  <2> SUFFICES ASSUME NEW i \in 1..n + 1
               PROVE  \E l \in i..n + 1 :
                        sightings'[l].key = sightings'[i].key /\ IsLatest(l)'
    BY <1>1 DEF LatestExist
  <2>1. IsLatest(n + 1)'
    BY <1>1 DEF IsLatest
  <2>2. CASE sightings'[i].key = k
    <3>1. n + 1 \in i..n + 1
      BY <1>1
    <3>2. sightings'[n + 1].key = sightings'[i].key
      BY <1>1, <2>2
    <3> QED
      BY <2>1, <3>1, <3>2
  <2>3. CASE sightings'[i].key # k
    <3>1. i \in 1..n /\ sightings'[i] = sightings[i]
      BY <1>1, <2>3
    <3>2. PICK l \in i..n : sightings[l].key = sightings[i].key /\ IsLatest(l)
      BY <1>0, <3>1 DEF IInv, LatestExist
    <3>3. l \in 1..n /\ sightings'[l] = sightings[l] /\ Since(l)' = Since(l) \union {k}
      BY <1>1, <3>1, <3>2
    <3>4. IsLatest(l)'
      BY <2>3, <3>1, <3>2, <3>3 DEF IsLatest
    <3> QED
      BY <1>1, <3>1, <3>2, <3>3, <3>4
  <2> QED
    BY <2>2, <2>3
<1> QED
  BY <1>1, <1>3, <1>4, <1>5, <1>6

\* The seen-set is still the newest sightings.
LEMMA SightNewest ==
    ASSUME IInv, NEW k \in Keys, Sees(k)
    PROVE  SeenIsNewest'
<1>0. PICK n : n = Len(sightings)
  OBVIOUS
<1>1. /\ n \in Nat /\ Len(sightings') = n + 1
      /\ \A i \in 1..n : sightings'[i] = sightings[i]
      /\ sightings'[n + 1] =
            [key |-> k, at |-> now, inject |-> SeenRecently(seen, k, now)]
      /\ \A i \in 1..n : Since(i)' = Since(i) \union {k}
      /\ Since(n + 1)' = {}
  BY <1>0, SightHistory
<1>2. turn = n + 1
  BY <1>0 DEF IInv, Shapes
<1>3. Cap \in Int /\ Cardinality({}) < Cap
  BY FS_EmptySet, SeenAssumption DEF Cap
<1>4. ASSUME NEW q \in DOMAIN seen' PROVE EntryIs(q, seen[q].turn)'
  <2>1. CASE q = k
    <3>1. seen'[q].turn = n + 1 /\ seen'[q].at = now
      BY <1>2, <2>1, Eviction
    <3>2. sightings'[n + 1].key = k /\ sightings'[n + 1].at = now
      BY <1>1
    <3>3. IsLatest(n + 1)'
      BY <1>1 DEF IsLatest
    <3>4. (Cardinality(Since(n + 1)) < Cap)'
      BY <1>1, <1>3
    <3>5. n + 1 \in 1..Len(sightings')
      BY <1>1
    <3>6. EntryIs(q, n + 1)'
      BY <2>1, <3>1, <3>2, <3>3, <3>4, <3>5 DEF EntryIs
    <3> QED
      BY <3>1, <3>6
  <2>2. CASE q # k
    <3>1. PICK i : i = seen[q].turn
      OBVIOUS
    <3>2. /\ q \in DOMAIN seen /\ seen'[q] = seen[q]
          /\ Cardinality(Since(i) \union {k}) < Cap
      BY <1>4, <2>2, <3>1, Eviction
    <3>3. /\ i \in 1..n /\ sightings[i].key = q /\ sightings[i].at = seen[q].at
          /\ q \notin Since(i)
      BY <1>0, <3>1, <3>2, EntryFacts DEF IInv, IsLatest
    <3>4. sightings'[i] = sightings[i] /\ Since(i)' = Since(i) \union {k}
      BY <1>1, <3>3
    <3>5. EntryIs(q, i)'
      BY <1>1, <2>2, <3>2, <3>3, <3>4 DEF EntryIs, IsLatest
    <3> QED
      BY <3>1, <3>2, <3>5
  <2> QED
    BY <2>1, <2>2
<1>5. ASSUME NEW i \in 1..n + 1, (Cardinality(Since(i)) < Cap)'
      PROVE  sightings'[i].key \in DOMAIN seen'
  <2>1. CASE sightings'[i].key = k
    BY <2>1, Eviction
  <2>2. CASE sightings'[i].key # k
    <3> DEFINE q == sightings[i].key
    <3>1. /\ i \in 1..n /\ sightings'[i].key = q /\ q # k
          /\ Since(i)' = Since(i) \union {k}
      BY <1>1, <1>5, <2>2
    <3>2. Since(i) \union {k} \subseteq Keys
      BY <1>0, <3>1, SinceKeys DEF IInv
    <3>3. Cardinality(Since(i)) < Cap
      <4>1. /\ Cardinality(Since(i)) <= Cardinality(Since(i) \union {k})
            /\ Cardinality(Since(i)) \in Nat /\ Cardinality(Since(i) \union {k}) \in Nat
        BY <3>2, KeyCount
      <4> QED
        BY <1>3, <1>5, <3>1, <4>1
    <3>4. q \in DOMAIN seen
      BY <1>0, <3>1, <3>3 DEF IInv, SeenIsNewest
    <3> DEFINE l == seen[q].turn
    <3>5. l \in i..n
      BY <1>0, <3>1, <3>4, EntryIsLatest, EntryFacts DEF IInv
    <3>6. Since(l) \union {k} \subseteq Since(i) \union {k}
      BY <1>0, <3>1, <3>5, SinceKeys DEF IInv
    <3>7. /\ Cardinality(Since(l) \union {k}) <= Cardinality(Since(i) \union {k})
          /\ Cardinality(Since(l) \union {k}) \in Nat
          /\ Cardinality(Since(i) \union {k}) \in Nat
      BY <3>2, <3>6, KeyCount
    <3>8. Cardinality(Since(l) \union {k}) < Cap
      BY <1>3, <1>5, <3>1, <3>7
    <3> QED
      BY <3>1, <3>4, <3>8, Eviction
  <2> QED
    BY <2>1, <2>2
<1> QED
  BY <1>1, <1>4, <1>5 DEF SeenIsNewest

\* The verdict of a sighting is right, and those before it stay so.
LEMMA SightVerdicts ==
    ASSUME IInv, NEW k \in Keys, Sees(k)
    PROVE  VerdictsRight'
<1>0. PICK n : n = Len(sightings)
  OBVIOUS
<1>1. /\ n \in Nat /\ Len(sightings') = n + 1
      /\ \A i \in 1..n : sightings'[i] = sightings[i]
      /\ sightings'[n + 1] =
            [key |-> k, at |-> now, inject |-> SeenRecently(seen, k, now)]
      /\ \A i \in 1..n : \A j \in 1..n + 1 : Between(i, j)' = Between(i, j)
      /\ \A i \in 1..n : Between(i, n + 1) = Since(i)
  BY <1>0, SightHistory
<1>2. ASSUME NEW i \in 1..n
      PROVE  sightings'[i].inject <=> \E j \in 1..i - 1 : Repeats(i, j)'
  <2>1. ASSUME NEW j \in 1..i - 1 PROVE Repeats(i, j)' <=> Repeats(i, j)
    <3>1. j \in 1..n /\ i \in 1..n + 1
      BY <1>1, <1>2, <2>1
    <3>2. /\ sightings'[i] = sightings[i] /\ sightings'[j] = sightings[j]
          /\ Between(j, i)' = Between(j, i)
      BY <1>1, <1>2, <3>1
    <3> QED
      BY <3>2 DEF Repeats
  <2>2. sightings[i].inject <=> \E j \in 1..i - 1 : Repeats(i, j)
    BY <1>0 DEF IInv, VerdictsRight
  <2> QED
    BY <1>1, <2>1, <2>2
<1>3. ASSUME NEW j \in 1..n
      PROVE  Repeats(n + 1, j)' <=>
                /\ sightings[j].key = k /\ k \notin Since(j)
                /\ now - sightings[j].at <= SeenTTL
                /\ Cardinality(Since(j)) < Cap
  <2>1. /\ sightings'[n + 1].key = k /\ sightings'[n + 1].at = now
        /\ sightings'[j] = sightings[j]
        /\ Between(j, n + 1)' = Since(j)
    BY <1>1
  <2> QED
    BY <2>1 DEF Repeats
<1>4. ASSUME SeenRecently(seen, k, now)
      PROVE  \E j \in 1..n : Repeats(n + 1, j)'
  <2>1. PICK j : j = seen[k].turn
    OBVIOUS
  <2>2. k \in DOMAIN seen /\ now - seen[k].at <= SeenTTL
    BY <1>4 DEF SeenRecently
  <2>3. /\ j \in 1..n /\ sightings[j].key = k /\ sightings[j].at = seen[k].at
        /\ k \notin Since(j) /\ Cardinality(Since(j)) < Cap
    BY <1>0, <2>1, <2>2, EntryFacts DEF IInv, IsLatest
  <2> QED
    BY <1>3, <2>2, <2>3
<1>5. ASSUME NEW j \in 1..n, Repeats(n + 1, j)'
      PROVE  SeenRecently(seen, k, now)
  <2>1. /\ sightings[j].key = k /\ k \notin Since(j)
        /\ now - sightings[j].at <= SeenTTL /\ Cardinality(Since(j)) < Cap
    BY <1>3, <1>5
  <2>2. k \in DOMAIN seen
    BY <1>0, <2>1 DEF IInv, SeenIsNewest
  <2>3. PICK m : m = seen[k].turn
    OBVIOUS
  <2>4. /\ m \in 1..n /\ sightings[m].key = k /\ sightings[m].at = seen[k].at
        /\ j <= m
    BY <1>0, <2>1, <2>2, <2>3, EntryFacts, EntryIsLatest DEF IInv
  <2>5. m = j
    <3> SUFFICES ASSUME m # j PROVE FALSE
      OBVIOUS
    <3>1. m \in j + 1..Len(sightings) + 1 - 1
      BY <1>0, <1>1, <2>4
    <3> QED
      BY <2>1, <2>4, <3>1 DEF Since, Between
  <2> QED
    BY <2>1, <2>2, <2>4, <2>5 DEF SeenRecently
<1>6. sightings'[n + 1].inject <=> \E j \in 1..n + 1 - 1 : Repeats(n + 1, j)'
  <2>1. sightings'[n + 1].inject = SeenRecently(seen, k, now)
    BY <1>1
  <2>2. 1..n + 1 - 1 = 1..n
    BY <1>1
  <2> QED
    BY <1>4, <1>5, <2>1, <2>2
<1>7. \A i \in 1..n + 1 :
        sightings'[i].inject <=> \E j \in 1..i - 1 : Repeats(i, j)'
  <2> SUFFICES ASSUME NEW i \in 1..n + 1
               PROVE  sightings'[i].inject <=> \E j \in 1..i - 1 : Repeats(i, j)'
    OBVIOUS
  <2>1. CASE i \in 1..n
    BY <1>2, <2>1
  <2>2. CASE i = n + 1
    <3>1. 1..i - 1 = 1..n + 1 - 1 /\ sightings'[i] = sightings'[n + 1]
      BY <1>1, <2>2
    <3>2. \A j : Repeats(i, j)' = Repeats(n + 1, j)'
      BY <2>2 DEF Repeats
    <3> QED
      BY <1>6, <3>1, <3>2
  <2> QED
    BY <1>1, <2>1, <2>2
<1> QED
  BY <1>1, <1>7 DEF VerdictsRight

-----------------------------------------------------------------------------
(* The invariant.                                                          *)

LEMMA Start == Init => IInv
<1> SUFFICES ASSUME Init PROVE IInv
  OBVIOUS
<1>1. /\ now = 0 /\ seen = NothingSeen /\ turn = 1 /\ sightings = << >>
      /\ sampler = NoCalls /\ restarts = 0
  BY DEF Init
<1>2. DOMAIN seen = {} /\ Len(sightings) = 0
  BY <1>1 DEF NothingSeen
<1>3. Shapes
  BY <1>1, <1>2 DEF Shapes, NothingSeen, NoCalls
<1> QED
  BY <1>2, <1>3 DEF IInv, LatestExist, SeenIsNewest, VerdictsRight

\* A step that leaves the gate alone.
LEMMA GateSame ==
    ASSUME IInv, UNCHANGED gate, now' \in Int, restarts' \in Nat,
           sampler' \in [calls : Nat, verified : Nat]
    PROVE  IInv'
<1>1. seen' = seen /\ turn' = turn /\ sightings' = sightings
  BY DEF gate
<1> USE <1>1
<1>2. Shapes'
  BY DEF IInv, Shapes
<1>3. \A i, j : Between(i, j)' = Between(i, j)
  BY DEF Between
<1>4. \A i : Since(i)' = Since(i)
  BY DEF Since, Between
<1>5. \A i : IsLatest(i)' = IsLatest(i)
  BY <1>4 DEF IsLatest
<1>6. \A k, i : EntryIs(k, i)' = EntryIs(k, i)
  BY <1>4, <1>5 DEF EntryIs
<1>7. \A i, j : Repeats(i, j)' = Repeats(i, j)
  BY <1>3 DEF Repeats
<1>8. LatestExist'
  BY <1>5 DEF IInv, LatestExist
<1>9. SeenIsNewest'
  BY <1>4, <1>6 DEF IInv, SeenIsNewest
<1>10. VerdictsRight'
  BY <1>7 DEF IInv, VerdictsRight
<1> QED
  BY <1>2, <1>8, <1>9, <1>10 DEF IInv

LEMMA Step == IInv /\ [Next]_vars => IInv'
<1> SUFFICES ASSUME IInv, [Next]_vars PROVE IInv'
  OBVIOUS
<1>1. /\ now \in Int /\ restarts \in Nat
      /\ sampler \in [calls : Nat, verified : Nat]
  BY DEF IInv, Shapes
<1>2. ASSUME NEW r \in Requests, Arrive(r) PROVE IInv'
  <2>1. now' = now /\ restarts' = restarts
    BY <1>2 DEF Arrive
  <2>2. sampler' \in [calls : Nat, verified : Nat]
    BY <1>1, <1>2 DEF Arrive, Sample, Sampled
  <2>3. CASE UNCHANGED gate
    BY <1>1, <2>1, <2>2, <2>3, GateSame
  <2>4. CASE ~UNCHANGED gate
    <3>1. PICK k \in Keys : k = Key(r)
      BY DEF Keys
    <3>2. Sees(k)
      BY <1>2, <2>4, <3>1 DEF Arrive, Sight, Sees, Verdict
    <3>3. Shapes'
      BY <1>1, <2>1, <2>2, <3>2, SightShapes DEF Shapes
    <3> QED
      BY <3>2, <3>3, SightShapes, SightNewest, SightVerdicts DEF IInv
  <2> QED
    BY <2>3, <2>4
<1>3. CASE Clock
  <2>1. now' \in Int
    BY <1>3, BoundAssumption DEF Clock
  <2> QED
    BY <1>1, <1>3, <2>1, GateSame DEF Clock
<1>4. CASE Restart
  <2>1. /\ seen' = NothingSeen /\ turn' = 1 /\ sightings' = << >>
        /\ sampler' = NoCalls /\ restarts' = restarts + 1 /\ now' = now
    BY <1>4 DEF Restart
  <2>2. DOMAIN seen' = {} /\ Len(sightings') = 0
    BY <2>1 DEF NothingSeen
  <2>3. Shapes'
    BY <1>1, <2>1, <2>2 DEF Shapes, NothingSeen, NoCalls
  <2> QED
    BY <2>2, <2>3 DEF IInv, LatestExist, SeenIsNewest, VerdictsRight
<1>5. CASE UNCHANGED vars
  BY <1>1, <1>5, GateSame DEF vars, gate
<1> QED
  BY <1>2, <1>3, <1>4, <1>5 DEF Next

\* IInv is an invariant of the gate.
THEOREM Invariant == Spec => []IInv
BY Start, Step, PTL DEF Spec

\* TypeOK: the seen-set never holds more than its cap (seen.py:58), whatever
\* prefixes and tenants come by in whatever order.
THEOREM TypeCorrect == Spec => []TypeOK
<1>1. IInv => TypeOK
  <2> SUFFICES ASSUME IInv PROVE TypeOK
    OBVIOUS
  <2>1. Cardinality(DOMAIN seen) <= Cap
    BY SeenWithinCap
  <2>2. Len(sightings) \in Nat
    BY DEF IInv, Shapes
  <2> QED
    BY <2>1, <2>2 DEF IInv, Shapes, TypeOK, Sightings
<1> QED
  BY <1>1, Invariant, PTL

\* SeenIsNewest: moving a key to the end and popping the oldest (seen.py:54-59)
\* keep exactly the newest sightings.
THEOREM SeenAlwaysNewest == Spec => []SeenIsNewest
<1>1. IInv => SeenIsNewest
  BY DEF IInv
<1> QED
  BY <1>1, Invariant, PTL

\* VerdictsRight: a breakpoint is injected (engine.py:576-588) exactly on the
\* repeats that the seen-set promises to recognise.
THEOREM VerdictsAlwaysRight == Spec => []VerdictsRight
<1>1. IInv => VerdictsRight
  BY DEF IInv
<1> QED
  BY <1>1, Invariant, PTL
=============================================================================
