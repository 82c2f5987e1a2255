-------------------------- MODULE CompressionProofs --------------------------
(***************************************************************************)
(* What the operators of Transcript, Compression, Compaction and           *)
(* SavingsLedger do for every text, request and log.                       *)
(*                                                                         *)
(* They recurse over sequences.  Induction is over a set of naturals, or   *)
(* of sequences, that is closed under the step: NatSetInduction and        *)
(* SeqSetInduction, which follow from the subsets of a finite set being    *)
(* well founded.                                                           *)
(***************************************************************************)
EXTENDS Compression, Compaction, FiniteSetTheorems, SequenceTheorems, TLAPS

-----------------------------------------------------------------------------
(* Induction and recursion.                                                *)

LEMMA NatSetInduction ==
    ASSUME NEW S, 0 \in S, \A n \in Nat : n \in S => n + 1 \in S
    PROVE  \A n \in Nat : n \in S
<1>1. SUFFICES ASSUME NEW n \in Nat, n \notin S PROVE FALSE
  OBVIOUS
<1> DEFINE T == {0..k : k \in {j \in 0..n : j \notin S}}
<1>2. IsWellFoundedOn(StrictSubsetOrdering(0..n), FiniteSubsetsOf(0..n))
  BY FS_StrictSubsetOrderingWellFounded
<1>3. T \subseteq FiniteSubsetsOf(0..n)
  <2>1. ASSUME NEW k \in 0..n PROVE 0..k \in FiniteSubsetsOf(0..n)
    <3>1. IsFiniteSet(0..k) BY FS_Interval
    <3>2. 0..k \in SUBSET (0..n) OBVIOUS
    <3>3. QED BY <3>1, <3>2 DEF FiniteSubsetsOf
  <2>2. QED BY <2>1
<1>4. T # {}
  <2>1. n \in {j \in 0..n : j \notin S} BY <1>1
  <2>2. QED BY <2>1
<1> HIDE DEF T
<1>5. PICK x \in T : \A y \in T : ~(<<y, x>> \in StrictSubsetOrdering(0..n))
  BY <1>2, <1>3, <1>4, WFMin
<1>6. PICK k \in 0..n : k \notin S /\ x = 0..k
  BY DEF T
<1>7. k # 0 BY <1>6
<1>8. k - 1 \in Nat /\ k - 1 \in 0..n BY <1>7
<1>9. k - 1 \notin S
  BY <1>6, <1>8
<1>10. 0..(k-1) \in T
  BY <1>8, <1>9 DEF T
<1>11. <<0..(k-1), x>> \in StrictSubsetOrdering(0..n)
  <2>1. 0..(k-1) \in SUBSET (0..n) /\ 0..k \in SUBSET (0..n) OBVIOUS
  <2>2. 0..(k-1) \subseteq 0..k /\ 0..(k-1) # 0..k BY <1>8
  <2>3. QED BY <2>1, <2>2, <1>6 DEF StrictSubsetOrdering
<1>12. QED BY <1>5, <1>10, <1>11

LEMMA SeqSetInduction ==
    ASSUME NEW S, NEW P, << >> \in P,
           \A s \in Seq(S), e \in S : s \in P => Append(s, e) \in P
    PROVE  \A s \in Seq(S) : s \in P
<1> DEFINE N == {n \in Nat : \A s \in Seq(S) : Len(s) = n => s \in P}
<1>1. 0 \in N
  BY EmptySeq
<1>2. ASSUME NEW n \in Nat, n \in N PROVE n + 1 \in N
  <2> SUFFICES ASSUME NEW s \in Seq(S), Len(s) = n + 1 PROVE s \in P
    OBVIOUS
  <2>1. PICK t \in Seq(S), e \in S : s = Append(t, e)
    BY SequenceEmptyOrAppend
  <2>2. Len(t) = n
    BY <2>1
  <2>3. QED BY <1>2, <2>1, <2>2
<1> HIDE DEF N
<1>3. \A n \in Nat : n \in N
  BY <1>1, <1>2, NatSetInduction
<1>4. QED BY <1>3, LenProperties DEF N

\* What FlattenSeq computes.
Joins(f, seqs) ==
    f = [i \in 1..Len(seqs) |-> IF i = 1 THEN seqs[i] ELSE f[i - 1] \o seqs[i]]

LEMMA JoinsExist ==
    ASSUME NEW S, NEW seqs \in Seq(S), seqs # << >>
    PROVE  \E f : Joins(f, seqs)
<1> DEFINE P == {s \in Seq(S) : s # << >> => \E f : Joins(f, s)}
<1>1. << >> \in P
  OBVIOUS
<1>2. ASSUME NEW s \in Seq(S), NEW e \in S, s \in P PROVE Append(s, e) \in P
  <2> DEFINE t == Append(s, e)
             n == Len(s)
  <2>1. t \in Seq(S) /\ Len(t) = n + 1 /\ n \in Nat /\ \A i \in 1..n : t[i] = s[i]
    OBVIOUS
  <2>2. CASE s = << >>
    <3> DEFINE g == [i \in 1..1 |-> t[1]]
    <3>1. Joins(g, t)
      BY <2>1, <2>2 DEF Joins
    <3>2. QED BY <3>1, <2>1
  <2>3. CASE s # << >>
    <3>1. PICK f : Joins(f, s)
      BY <1>2, <2>3
    <3>f. \A i \in 1..n : f[i] = IF i = 1 THEN s[i] ELSE f[i - 1] \o s[i]
      BY <3>1 DEF Joins
    <3> DEFINE g == [i \in 1..Len(t) |-> IF i <= n THEN f[i] ELSE f[n] \o t[i]]
    <3> HIDE DEF t
    <3>2. n >= 1
      BY <2>3, EmptySeq
    <3>3. ASSUME NEW i \in 1..Len(t)
          PROVE  g[i] = IF i = 1 THEN t[i] ELSE g[i - 1] \o t[i]
      <4>1. CASE i <= n
        <5>1. f[i] = IF i = 1 THEN s[i] ELSE f[i - 1] \o s[i]
          BY <3>f, <4>1, <2>1
        <5>2. g[i] = f[i] /\ (i # 1 => g[i - 1] = f[i - 1])
          BY <4>1, <2>1
        <5>3. QED BY <5>1, <5>2, <4>1, <2>1
      <4>2. CASE i = n + 1
        <5>0. i - 1 = n /\ i - 1 \in 1..Len(t) /\ ~(i <= n) /\ i # 1
          BY <4>2, <2>1, <3>2
        <5>1. g[i] = f[n] \o t[i]
          BY <5>0
        <5>2. g[i - 1] = f[i - 1]
          BY <5>0, <2>1
        <5>3. g[i - 1] = f[n]
          BY <5>0, <5>2
        <5>4. QED BY <5>0, <5>1, <5>3
      <4>3. QED BY <4>1, <4>2, <2>1
    <3>4. g = [i \in 1..Len(t) |-> IF i = 1 THEN t[i] ELSE g[i - 1] \o t[i]]
      BY <3>3
    <3>5. QED BY <3>4, <2>1 DEF Joins, t
  <2>4. QED BY <2>2, <2>3
<1> HIDE DEF P
<1>3. \A s \in Seq(S) : s \in P
  BY <1>1, <1>2, SeqSetInduction
<1>4. QED BY <1>3 DEF P

LEMMA FlattenIs ==
    ASSUME NEW S, NEW seqs \in Seq(S), seqs # << >>
    PROVE  \E f : /\ FlattenSeq(seqs) = f[Len(seqs)]
                  /\ f[1] = seqs[1]
                  /\ \A i \in 1..(Len(seqs) - 1) : f[i + 1] = f[i] \o seqs[i + 1]
<1> DEFINE f == CHOOSE g : g = [i \in 1..Len(seqs) |-> IF i = 1 THEN seqs[i] ELSE g[i - 1] \o seqs[i]]
<1>1. Joins(f, seqs)
  BY JoinsExist DEF Joins
<1>2. FlattenSeq(seqs) = f[Len(seqs)]
  BY EmptySeq DEF FlattenSeq
<1> HIDE DEF f
<1>3. \A i \in 1..Len(seqs) : f[i] = IF i = 1 THEN seqs[i] ELSE f[i - 1] \o seqs[i]
  BY <1>1 DEF Joins
<1>4. Len(seqs) \in Nat \ {0}
  BY EmptySeq
<1>5. f[1] = seqs[1]
  BY <1>3, <1>4
<1>6. ASSUME NEW i \in 1..(Len(seqs) - 1) PROVE f[i + 1] = f[i] \o seqs[i + 1]
  <2>1. i + 1 \in 1..Len(seqs) /\ i + 1 # 1 /\ (i + 1) - 1 = i
    BY <1>4
  <2>2. f[i + 1] = f[(i + 1) - 1] \o seqs[i + 1]
    BY <2>1, <1>3
  <2>3. QED BY <2>1, <2>2
<1>7. QED BY <1>2, <1>5, <1>6

LEMMA FlattenEmpty == FlattenSeq(<< >>) = << >>
BY EmptySeq DEF FlattenSeq

LEMMA FlattenType ==
    ASSUME NEW S, NEW seqs \in Seq(Seq(S))
    PROVE  FlattenSeq(seqs) \in Seq(S)
<1>1. CASE seqs = << >>
  BY <1>1, FlattenEmpty, EmptySeq
<1>2. CASE seqs # << >>
  <2>0. Len(seqs) \in Nat \ {0} /\ \A i \in 1..Len(seqs) : seqs[i] \in Seq(S)
    BY <1>2, EmptySeq, ElementOfSeq
  <2>1. PICK f : /\ FlattenSeq(seqs) = f[Len(seqs)]
                 /\ f[1] = seqs[1]
                 /\ \A i \in 1..(Len(seqs) - 1) : f[i + 1] = f[i] \o seqs[i + 1]
    BY <1>2, FlattenIs
  <2> DEFINE N == {n \in Nat : n < Len(seqs) => f[n + 1] \in Seq(S)}
  <2>2. 0 \in N
    BY <2>0, <2>1
  <2>3. ASSUME NEW n \in Nat, n \in N PROVE n + 1 \in N
    <3> SUFFICES ASSUME n + 1 < Len(seqs) PROVE f[(n + 1) + 1] \in Seq(S)
      OBVIOUS
    <3>1. n + 1 \in 1..(Len(seqs) - 1) /\ n < Len(seqs) /\ (n + 1) + 1 \in 1..Len(seqs)
      BY <2>0
    <3>2. f[(n + 1) + 1] = f[n + 1] \o seqs[(n + 1) + 1]
      BY <2>1, <3>1
    <3>3. f[n + 1] \in Seq(S) /\ seqs[(n + 1) + 1] \in Seq(S)
      BY <2>0, <2>3, <3>1
    <3>4. QED BY <3>2, <3>3, ConcatProperties
  <2> HIDE DEF N
  <2>4. \A n \in Nat : n \in N
    BY <2>2, <2>3, NatSetInduction
  <2>5. Len(seqs) - 1 \in Nat /\ Len(seqs) - 1 < Len(seqs) /\ (Len(seqs) - 1) + 1 = Len(seqs)
    BY <2>0
  <2>6. f[(Len(seqs) - 1) + 1] \in Seq(S)
    BY <2>4, <2>5 DEF N
  <2>7. QED BY <2>1, <2>5, <2>6
<1>3. QED BY <1>1, <1>2

LEMMA FlattenAppend ==
    ASSUME NEW S, NEW seqs \in Seq(Seq(S)), NEW s \in Seq(S)
    PROVE  FlattenSeq(Append(seqs, s)) = FlattenSeq(seqs) \o s
<1> DEFINE n == Len(seqs)
           t == Append(seqs, s)
<1>1. /\ t \in Seq(Seq(S)) /\ Len(t) = n + 1 /\ n \in Nat /\ t # << >>
      /\ \A i \in 1..n : t[i] = seqs[i]
      /\ t[n + 1] = s
  BY AppendProperties, LenProperties
<1> HIDE DEF t
<1>2. PICK g : /\ FlattenSeq(t) = g[Len(t)]
               /\ g[1] = t[1]
               /\ \A i \in 1..(Len(t) - 1) : g[i + 1] = g[i] \o t[i + 1]
  BY <1>1, FlattenIs
<1>4. CASE seqs = << >>
  <2>1. n = 0 /\ FlattenSeq(t) = s
    BY <1>1, <1>2, <1>4, EmptySeq
  <2>2. QED BY <2>1, <1>4, FlattenEmpty, ConcatEmptySeq DEF t
<1>5. CASE seqs # << >>
  <2>1. PICK f : /\ FlattenSeq(seqs) = f[Len(seqs)]
                 /\ f[1] = seqs[1]
                 /\ \A i \in 1..(Len(seqs) - 1) : f[i + 1] = f[i] \o seqs[i + 1]
    BY <1>5, FlattenIs
  <2>2. n >= 1
    BY <1>5, EmptySeq
  <2> DEFINE N == {i \in Nat : i < n => g[i + 1] = f[i + 1]}
  <2>4. 0 \in N
    BY <1>1, <1>2, <2>1
  <2>5. ASSUME NEW i \in Nat, i \in N PROVE i + 1 \in N
    <3> SUFFICES ASSUME i + 1 < n PROVE g[(i + 1) + 1] = f[(i + 1) + 1]
      OBVIOUS
    <3>1. i + 1 \in 1..(n - 1) /\ i + 1 \in 1..(Len(t) - 1) /\ i < n /\ (i + 1) + 1 \in 1..n
      BY <1>1
    <3>2. g[i + 1] = f[i + 1]
      BY <2>5, <3>1
    <3>3. g[(i + 1) + 1] = g[i + 1] \o t[(i + 1) + 1]
      BY <1>2, <3>1
    <3>4. f[(i + 1) + 1] = f[i + 1] \o seqs[(i + 1) + 1]
      BY <2>1, <3>1
    <3>5. QED BY <3>1, <3>2, <3>3, <3>4, <1>1
  <2> HIDE DEF N
  <2>6. \A i \in Nat : i \in N
    BY <2>4, <2>5, NatSetInduction
  <2>7. n - 1 \in Nat /\ n - 1 < n /\ (n - 1) + 1 = n /\ n \in 1..(Len(t) - 1)
    BY <1>1, <2>2
  <2>8. g[(n - 1) + 1] = f[(n - 1) + 1]
    BY <2>6, <2>7 DEF N
  <2>9. g[n + 1] = g[n] \o s
    BY <1>1, <1>2, <2>7
  <2>10. QED BY <2>1, <2>7, <2>8, <2>9, <1>1, <1>2 DEF t
<1>6. QED BY <1>4, <1>5

\* f starts with a and goes on with G.
Recursion(f, X, a, N, G) ==
    /\ f \in [0..N -> X]
    /\ \A n \in 0..N : f[n] = IF n = 0 THEN a ELSE G[<<f[n - 1], n>>]

LEMMA RecursionExists ==
    ASSUME NEW X, NEW a \in X, NEW N \in Nat, NEW G \in [X \X (1..N) -> X]
    PROVE  \E f : Recursion(f, X, a, N, G)
<1> DEFINE Fit(f, k) == f \in [0..k -> X] /\ \A n \in 0..k : f[n] = IF n = 0 THEN a ELSE G[<<f[n - 1], n>>]
           P == {k \in Nat : k <= N => \E f : Fit(f, k)}
<1>1. 0 \in P
  <2>1. Fit([n \in 0..0 |-> a], 0)
    OBVIOUS
  <2>2. QED BY <2>1
<1>2. ASSUME NEW k \in Nat, k \in P PROVE k + 1 \in P
  <2>1. SUFFICES ASSUME k + 1 <= N PROVE \E f : Fit(f, k + 1)
    OBVIOUS
  <2>2. PICK f : Fit(f, k)
    BY <1>2, <2>1
  <2> DEFINE g == [n \in 0..k + 1 |-> IF n <= k THEN f[n] ELSE G[<<f[k], k + 1>>]]
  <2>3. f[k] \in X /\ k + 1 \in 1..N
    BY <2>1, <2>2
  <2>4. g \in [0..k + 1 -> X]
    BY <2>2, <2>3
  <2>5. ASSUME NEW n \in 0..k + 1 PROVE g[n] = IF n = 0 THEN a ELSE G[<<g[n - 1], n>>]
    <3>1. CASE n <= k
      <4>1. f[n] = IF n = 0 THEN a ELSE G[<<f[n - 1], n>>]
        BY <2>2, <3>1
      <4>2. n # 0 => n - 1 \in 0..k + 1 /\ n - 1 <= k
        BY <3>1
      <4>3. QED BY <4>1, <4>2, <3>1
    <3>2. CASE n = k + 1
      <4>1. ~(n <= k) /\ n # 0 /\ n - 1 = k /\ k \in 0..k + 1
        BY <3>2
      <4>2. QED BY <4>1, <3>2
    <3>3. QED BY <3>1, <3>2
  <2> HIDE DEF g
  <2>6. QED BY <2>4, <2>5
<1> HIDE DEF P
<1>3. N \in P
  BY <1>1, <1>2, NatSetInduction
<1>4. PICK f : Fit(f, N)
  BY <1>3 DEF P
<1>5. QED BY <1>4 DEF Recursion

-----------------------------------------------------------------------------
(* Joining.                                                                *)

\* The first part of a sequence, one element longer.
LEMMA Longer ==
    ASSUME NEW S, NEW s \in Seq(S), NEW n \in Nat, n < Len(s)
    PROVE  /\ SubSeq(s, 1, n) \in Seq(S)
           /\ s[n + 1] \in S
           /\ SubSeq(s, 1, n + 1) = Append(SubSeq(s, 1, n), s[n + 1])
<1>1. /\ SubSeq(s, 1, n) \in Seq(S) /\ SubSeq(s, 1, n + 1) \in Seq(S)
      /\ Len(SubSeq(s, 1, n)) = n /\ Len(SubSeq(s, 1, n + 1)) = n + 1
      /\ \A i \in 1..n : SubSeq(s, 1, n)[i] = s[i]
      /\ \A i \in 1..n + 1 : SubSeq(s, 1, n + 1)[i] = s[i]
  BY SubSeqProperties, LenProperties, ElementOfSeq
<1>2. s[n + 1] \in S
  BY ElementOfSeq
<1>3. /\ Append(SubSeq(s, 1, n), s[n + 1]) \in Seq(S)
      /\ Len(Append(SubSeq(s, 1, n), s[n + 1])) = n + 1
      /\ \A i \in 1..n : Append(SubSeq(s, 1, n), s[n + 1])[i] = s[i]
      /\ Append(SubSeq(s, 1, n), s[n + 1])[n + 1] = s[n + 1]
  BY <1>1, <1>2, AppendProperties
<1>4. \A i \in 1..n + 1 : SubSeq(s, 1, n + 1)[i] = Append(SubSeq(s, 1, n), s[n + 1])[i]
  BY <1>1, <1>3
<1>5. QED BY <1>1, <1>2, <1>3, <1>4, SeqEqual

\* What holds of the parts of a sequence, from none to all, element by element.
LEMMA PartsInduction ==
    ASSUME NEW S, NEW s \in Seq(S), NEW N, 0 \in N,
           \A n \in Nat : n < Len(s) /\ n \in N => n + 1 \in N
    PROVE  \A n \in 0..Len(s) : n \in N
<1> DEFINE P == {n \in Nat : n <= Len(s) => n \in N}
<1>1. 0 \in P
  OBVIOUS
<1>2. ASSUME NEW n \in Nat, n \in P PROVE n + 1 \in P
  BY <1>2, LenProperties
<1> HIDE DEF P
<1>3. \A n \in Nat : n \in P
  BY <1>1, <1>2, NatSetInduction
<1>4. QED BY <1>3, LenProperties DEF P

LEMMA FlattenPart ==
    ASSUME NEW S, NEW t \in Seq(Seq(S)), NEW n \in Nat, n < Len(t)
    PROVE  /\ FlattenSeq(SubSeq(t, 1, n)) \in Seq(S)
           /\ t[n + 1] \in Seq(S)
           /\ FlattenSeq(SubSeq(t, 1, n + 1)) = FlattenSeq(SubSeq(t, 1, n)) \o t[n + 1]
<1>1. /\ SubSeq(t, 1, n) \in Seq(Seq(S)) /\ t[n + 1] \in Seq(S)
      /\ SubSeq(t, 1, n + 1) = Append(SubSeq(t, 1, n), t[n + 1])
  BY Longer
<1>2. QED BY <1>1, FlattenAppend, FlattenType

LEMMA FlattenWhole ==
    ASSUME NEW S, NEW t \in Seq(Seq(S))
    PROVE  /\ FlattenSeq(SubSeq(t, 1, 0)) = << >>
           /\ SubSeq(t, 1, Len(t)) = t
<1>1. SubSeq(t, 1, 0) = << >>
  BY SubSeqEmpty
<1>2. SubSeq(t, 1, Len(t)) = t
  BY SubSeqFull
<1>3. QED BY <1>1, <1>2, FlattenEmpty

LEMMA FlattenSingle ==
    ASSUME NEW S, NEW s \in Seq(S)
    PROVE  FlattenSeq(<<s>>) = s
<1>1. << >> \in Seq(Seq(S)) /\ Append(<< >>, s) = <<s>>
  OBVIOUS
<1>2. FlattenSeq(<<s>>) = << >> \o s
  BY <1>1, FlattenAppend, FlattenEmpty
<1>3. QED BY <1>2, ConcatEmptySeq

LEMMA ConcatAppend ==
    ASSUME NEW S, NEW a \in Seq(S), NEW b \in Seq(S), NEW e \in S
    PROVE  a \o Append(b, e) = Append(a \o b, e)
BY ConcatProperties, AppendProperties, SeqEqual, LenProperties

LEMMA FlattenConcat ==
    ASSUME NEW S, NEW a \in Seq(Seq(S)), NEW b \in Seq(Seq(S))
    PROVE  FlattenSeq(a \o b) = FlattenSeq(a) \o FlattenSeq(b)
<1> DEFINE P == {t \in Seq(Seq(S)) : FlattenSeq(a \o t) = FlattenSeq(a) \o FlattenSeq(t)}
<1>1. << >> \in P
  <2>1. FlattenSeq(a) \in Seq(S) /\ << >> \in Seq(Seq(S))
    BY FlattenType
  <2>2. QED BY <2>1, FlattenEmpty, ConcatEmptySeq
<1>2. ASSUME NEW t \in Seq(Seq(S)), NEW e \in Seq(S), t \in P PROVE Append(t, e) \in P
  <2>1. a \o Append(t, e) = Append(a \o t, e) /\ a \o t \in Seq(Seq(S)) /\ Append(t, e) \in Seq(Seq(S))
    BY ConcatAppend, ConcatProperties, AppendProperties, SMTT(30)
  <2>2. FlattenSeq(a \o Append(t, e)) = (FlattenSeq(a) \o FlattenSeq(t)) \o e
    <3>1. FlattenSeq(a \o t) = FlattenSeq(a) \o FlattenSeq(t)
      BY <1>2
    <3>2. \A w \in Seq(Seq(S)) : FlattenSeq(Append(w, e)) = FlattenSeq(w) \o e
      BY <1>2, FlattenAppend
    <3>3. FlattenSeq(Append(a \o t, e)) = FlattenSeq(a \o t) \o e
      BY <2>1, <3>2
    <3>4. QED BY <2>1, <3>1, <3>3
  <2>3. FlattenSeq(Append(t, e)) = FlattenSeq(t) \o e
    BY FlattenAppend
  <2>4. FlattenSeq(a) \in Seq(S) /\ FlattenSeq(t) \in Seq(S)
    BY FlattenType
  <2>5. (FlattenSeq(a) \o FlattenSeq(t)) \o e = FlattenSeq(a) \o (FlattenSeq(t) \o e)
    <3>1. e \in Seq(S) BY <1>2
    <3>2. QED BY ONLY <2>4, <3>1, ConcatAssociative, SMTT(30)
  <2>6. QED BY <2>1, <2>2, <2>3, <2>5
<1> HIDE DEF P
<1>3. \A t \in Seq(Seq(S)) : t \in P
  BY <1>1, <1>2, SeqSetInduction
<1>4. QED BY <1>3 DEF P

LEMMA ConcatHolds ==
    ASSUME NEW S, NEW f \in Seq(S), NEW e \in Seq(S)
    PROVE  ToSet(f \o e) = ToSet(f) \union ToSet(e)
<1>1. /\ Len(f \o e) = Len(f) + Len(e) /\ Len(f) \in Nat /\ Len(e) \in Nat
      /\ DOMAIN (f \o e) = 1..Len(f) + Len(e) /\ DOMAIN f = 1..Len(f) /\ DOMAIN e = 1..Len(e)
      /\ \A i \in 1..Len(f) + Len(e) : (f \o e)[i] = IF i <= Len(f) THEN f[i] ELSE e[i - Len(f)]
  BY ConcatProperties, LenProperties
<1>2. ASSUME NEW i \in DOMAIN f PROVE f[i] \in ToSet(f \o e)
  <2>1. i \in DOMAIN (f \o e) /\ f[i] = (f \o e)[i]
    BY <1>1
  <2>2. QED BY <2>1 DEF ToSet
<1>3. ASSUME NEW i \in DOMAIN e PROVE e[i] \in ToSet(f \o e)
  <2>1. Len(f) + i \in 1..Len(f) + Len(e) /\ ~(Len(f) + i <= Len(f)) /\ (Len(f) + i) - Len(f) = i
    BY <1>1
  <2>2. e[i] = (f \o e)[Len(f) + i] /\ Len(f) + i \in DOMAIN (f \o e)
    BY <2>1, <1>1
  <2>3. QED BY <2>2 DEF ToSet
<1>4. ASSUME NEW i \in DOMAIN (f \o e) PROVE (f \o e)[i] \in ToSet(f) \union ToSet(e)
  <2>1. CASE i <= Len(f)
    BY <1>1, <2>1 DEF ToSet
  <2>2. CASE ~(i <= Len(f))
    <3>1. i - Len(f) \in 1..Len(e)
      BY <1>1, <2>2
    <3>2. QED BY <1>1, <2>2, <3>1 DEF ToSet
  <2>3. QED BY <2>1, <2>2
<1>5. \A x \in ToSet(f) : x \in ToSet(f \o e)
  BY <1>2 DEF ToSet
<1>6. \A x \in ToSet(e) : x \in ToSet(f \o e)
  BY <1>3 DEF ToSet
<1>7. \A x \in ToSet(f \o e) : x \in ToSet(f) \union ToSet(e)
  BY <1>4 DEF ToSet
<1>8. QED BY <1>5, <1>6, <1>7

\* What joins hold is what their parts hold.
LEMMA FlattenHolds ==
    ASSUME NEW S, NEW t \in Seq(Seq(S))
    PROVE  ToSet(FlattenSeq(t)) = UNION {ToSet(t[i]) : i \in DOMAIN t}
<1> DEFINE P == {u \in Seq(Seq(S)) : ToSet(FlattenSeq(u)) = UNION {ToSet(u[i]) : i \in DOMAIN u}}
<1>1. << >> \in P
  BY FlattenEmpty DEF ToSet
<1>2. ASSUME NEW u \in Seq(Seq(S)), NEW e \in Seq(S), u \in P PROVE Append(u, e) \in P
  <2>1. FlattenSeq(Append(u, e)) = FlattenSeq(u) \o e /\ FlattenSeq(u) \in Seq(S)
    BY FlattenAppend, FlattenType
  <2>2. ToSet(FlattenSeq(u) \o e) = ToSet(FlattenSeq(u)) \union ToSet(e)
    BY <2>1, ConcatHolds
  <2>3. /\ DOMAIN Append(u, e) = DOMAIN u \union {Len(u) + 1}
        /\ \A i \in DOMAIN u : Append(u, e)[i] = u[i]
        /\ Append(u, e)[Len(u) + 1] = e
        /\ Append(u, e) \in Seq(Seq(S))
    BY AppendProperties, LenProperties
  <2>4. UNION {ToSet(Append(u, e)[i]) : i \in DOMAIN Append(u, e)}
          = (UNION {ToSet(u[i]) : i \in DOMAIN u}) \union ToSet(e)
    <3> DEFINE v == Append(u, e)
    <3>1. \A i \in DOMAIN u : v[i] = u[i]
      BY <2>3
    <3>2. DOMAIN v = DOMAIN u \union {Len(u) + 1} /\ v[Len(u) + 1] = e
      BY <2>3
    <3> HIDE DEF v
    <3>3. {ToSet(v[i]) : i \in DOMAIN v} = {ToSet(u[i]) : i \in DOMAIN u} \union {ToSet(e)}
      BY <3>1, <3>2
    <3>4. QED BY <3>3 DEF v
  <2>5. QED BY <1>2, <2>1, <2>2, <2>3, <2>4
<1> HIDE DEF P
<1>3. \A u \in Seq(Seq(S)) : u \in P
  BY <1>1, <1>2, SeqSetInduction
<1>4. QED BY <1>3 DEF P

-----------------------------------------------------------------------------
(* Picking.                                                                *)

\* What Kept does with one more element.
Piece(e, stays) == IF stays THEN <<e>> ELSE << >>

LEMMA PieceType ==
    ASSUME NEW S, NEW e \in S, NEW stays
    PROVE  Piece(e, stays) \in Seq(S)
<1>1. << >> \in Seq(S) /\ <<e>> \in Seq(S)
  OBVIOUS
<1>2. QED BY <1>1 DEF Piece

LEMMA KeptParts ==
    ASSUME NEW S, NEW s \in Seq(S), NEW places
    PROVE  /\ [i \in DOMAIN s |-> Piece(s[i], i \in places)] \in Seq(Seq(S))
           /\ Kept(s, places) = FlattenSeq([i \in DOMAIN s |-> Piece(s[i], i \in places)])
<1> DEFINE F == [i \in DOMAIN s |-> Piece(s[i], i \in places)]
<1>1. DOMAIN s = 1..Len(s) /\ Len(s) \in Nat
  BY LenProperties
<1>2. ASSUME NEW i \in 1..Len(s) PROVE Piece(s[i], i \in places) \in Seq(S)
  <2>1. s[i] \in S
    BY ElementOfSeq
  <2>2. QED BY <2>1, PieceType
<1>3. F = [i \in 1..Len(s) |-> Piece(s[i], i \in places)]
  BY <1>1
<1>4. F \in Seq(Seq(S))
  BY <1>1, <1>2, <1>3, IsASeq
<1>5. Kept(s, places) = FlattenSeq(F)
  BY DEF Kept, Piece
<1>6. QED BY <1>4, <1>5

LEMMA KeptType ==
    ASSUME NEW S, NEW s \in Seq(S), NEW places
    PROVE  Kept(s, places) \in Seq(S)
BY KeptParts, FlattenType

LEMMA KeptEmpty == ASSUME NEW places PROVE Kept(<< >>, places) = << >>
<1>1. [i \in DOMAIN << >> |-> IF i \in places THEN << << >>[i] >> ELSE << >>] = << >>
  OBVIOUS
<1>2. QED BY <1>1, FlattenEmpty DEF Kept

LEMMA KeptAppend ==
    ASSUME NEW S, NEW s \in Seq(S), NEW e \in S, NEW places
    PROVE  Kept(Append(s, e), places) = Kept(s, places) \o Piece(e, Len(s) + 1 \in places)
<1> DEFINE t == Append(s, e)
           F(u) == [i \in DOMAIN u |-> Piece(u[i], i \in places)]
<1>1. t \in Seq(S) /\ Len(t) = Len(s) + 1 /\ DOMAIN t = 1..Len(s) + 1 /\ DOMAIN s = 1..Len(s)
      /\ Len(s) \in Nat /\ \A i \in 1..Len(s) : t[i] = s[i]
  BY AppendProperties, LenProperties
<1>2. t[Len(s) + 1] = e
  BY AppendProperties
<1> HIDE DEF t
<1>3. F(s) \in Seq(Seq(S)) /\ F(t) \in Seq(Seq(S))
  BY <1>1, KeptParts
<1>4. Piece(e, Len(s) + 1 \in places) \in Seq(S)
  BY PieceType
<1>5. F(t) = Append(F(s), Piece(e, Len(s) + 1 \in places))
  <2> DEFINE g == Append(F(s), Piece(e, Len(s) + 1 \in places))
  <2>1. Len(F(s)) = Len(s) /\ Len(F(t)) = Len(s) + 1
    BY <1>1, <1>3, LenProperties
  <2>2. g \in Seq(Seq(S)) /\ Len(g) = Len(s) + 1 /\ g[Len(s) + 1] = Piece(e, Len(s) + 1 \in places)
        /\ \A i \in 1..Len(s) : g[i] = F(s)[i]
    BY <1>3, <1>4, <2>1, AppendProperties
  <2> HIDE DEF g
  <2>3. \A i \in 1..Len(s) + 1 : F(t)[i] = g[i]
    <3>1. ASSUME NEW i \in 1..Len(s) PROVE F(t)[i] = g[i]
      BY <1>1, <2>2
    <3>2. F(t)[Len(s) + 1] = g[Len(s) + 1]
      BY <1>1, <1>2, <2>2
    <3> HIDE DEF F
    <3>3. \A i \in 1..Len(s) + 1 : i \in 1..Len(s) \/ i = Len(s) + 1
      BY <1>1
    <3>4. QED BY <3>1, <3>2, <3>3
  <2>4. F(t) = g
    BY <1>3, <2>1, <2>2, <2>3, SeqEqual
  <2>5. QED BY <2>4 DEF g
<1>6. Kept(t, places) = FlattenSeq(F(t)) /\ Kept(s, places) = FlattenSeq(F(s))
  BY <1>1, KeptParts
<1> HIDE DEF F
<1>7. FlattenSeq(F(t)) = FlattenSeq(F(s)) \o Piece(e, Len(s) + 1 \in places)
  BY <1>3, <1>4, <1>5, FlattenAppend
<1>8. QED BY <1>6, <1>7 DEF t

LEMMA KeptHolds ==
    ASSUME NEW S, NEW s \in Seq(S), NEW places
    PROVE  ToSet(Kept(s, places)) = {s[i] : i \in (DOMAIN s \intersect places)}
<1> DEFINE F == [i \in DOMAIN s |-> Piece(s[i], i \in places)]
<1>1. F \in Seq(Seq(S)) /\ Kept(s, places) = FlattenSeq(F) /\ DOMAIN F = DOMAIN s
  BY KeptParts
<1>2. ToSet(Kept(s, places)) = UNION {ToSet(F[i]) : i \in DOMAIN s}
  BY <1>1, FlattenHolds
<1>3. \A i \in DOMAIN s : ToSet(F[i]) = IF i \in places THEN {s[i]} ELSE {}
  BY DEF Piece, ToSet
<1> HIDE DEF F
<1>4. UNION {ToSet(F[i]) : i \in DOMAIN s} = UNION {IF i \in places THEN {s[i]} ELSE {} : i \in DOMAIN s}
  <2>1. {ToSet(F[i]) : i \in DOMAIN s} = {IF i \in places THEN {s[i]} ELSE {} : i \in DOMAIN s}
    BY <1>3
  <2>2. QED BY <2>1
<1>5. UNION {IF i \in places THEN {s[i]} ELSE {} : i \in DOMAIN s} = {s[i] : i \in (DOMAIN s \intersect places)}
  OBVIOUS
<1>6. QED BY <1>1, <1>2, <1>4, <1>5

\* The elements of a sequence that are not dropped.
Sifted(s, dropped) == Kept(s, {i \in DOMAIN s : s[i] \notin dropped})

\* Places outside a sequence are not looked at.
LEMMA KeptSame ==
    ASSUME NEW s, NEW p, NEW q, \A i \in DOMAIN s : i \in p <=> i \in q
    PROVE  Kept(s, p) = Kept(s, q)
<1>1. [i \in DOMAIN s |-> IF i \in p THEN <<s[i]>> ELSE << >>]
        = [i \in DOMAIN s |-> IF i \in q THEN <<s[i]>> ELSE << >>]
  OBVIOUS
<1>2. QED BY <1>1 DEF Kept

LEMMA SiftedAppend ==
    ASSUME NEW S, NEW s \in Seq(S), NEW e \in S, NEW dropped
    PROVE  Sifted(Append(s, e), dropped) = Sifted(s, dropped) \o Piece(e, e \notin dropped)
<1> DEFINE t == Append(s, e)
           P(u) == {i \in DOMAIN u : u[i] \notin dropped}
<1>1. DOMAIN t = 1..Len(s) + 1 /\ DOMAIN s = 1..Len(s)
      /\ Len(s) \in Nat /\ \A i \in 1..Len(s) : t[i] = s[i]
  BY AppendProperties, LenProperties
<1>2. t[Len(s) + 1] = e
  BY AppendProperties
<1>3. Kept(t, P(t)) = Kept(s, P(t)) \o Piece(e, Len(s) + 1 \in P(t))
  BY KeptAppend
<1> HIDE DEF t
<1>4. (Len(s) + 1 \in P(t)) = (e \notin dropped)
  BY <1>1, <1>2
<1>5. Kept(s, P(t)) = Kept(s, P(s))
  <2>1. \A i \in DOMAIN s : i \in P(t) <=> i \in P(s)
    BY <1>1
  <2>2. QED BY <2>1, KeptSame
<1>6. QED BY <1>3, <1>4, <1>5 DEF t, Sifted

LEMMA SiftedType ==
    ASSUME NEW S, NEW s \in Seq(S), NEW dropped
    PROVE  Sifted(s, dropped) \in Seq(S)
BY KeptType DEF Sifted

LEMMA SiftedEmpty == ASSUME NEW dropped PROVE Sifted(<< >>, dropped) = << >>
BY KeptEmpty DEF Sifted

LEMMA SiftedConcat ==
    ASSUME NEW S, NEW a \in Seq(S), NEW b \in Seq(S), NEW dropped
    PROVE  Sifted(a \o b, dropped) = Sifted(a, dropped) \o Sifted(b, dropped)
<1> DEFINE P == {t \in Seq(S) : Sifted(a \o t, dropped) = Sifted(a, dropped) \o Sifted(t, dropped)}
<1>1. << >> \in P
  BY SiftedEmpty, SiftedType, ConcatEmptySeq
<1>2. ASSUME NEW t \in Seq(S), NEW e \in S, t \in P PROVE Append(t, e) \in P
  <2> DEFINE x == Piece(e, e \notin dropped)
  <2>1. a \o Append(t, e) = Append(a \o t, e) /\ a \o t \in Seq(S) /\ Append(t, e) \in Seq(S)
    BY ConcatAppend, ConcatProperties, AppendProperties, SMTT(30)
  <2>2. Sifted(a \o Append(t, e), dropped) = (Sifted(a, dropped) \o Sifted(t, dropped)) \o x
    <3>1. Sifted(a \o t, dropped) = Sifted(a, dropped) \o Sifted(t, dropped)
      BY <1>2
    <3>2. \A w \in Seq(S) : Sifted(Append(w, e), dropped) = Sifted(w, dropped) \o x
      BY SiftedAppend
    <3>3. QED BY <2>1, <3>1, <3>2
  <2>3. Sifted(Append(t, e), dropped) = Sifted(t, dropped) \o x
    BY SiftedAppend
  <2>4. Sifted(a, dropped) \in Seq(S) /\ Sifted(t, dropped) \in Seq(S) /\ x \in Seq(S)
    BY SiftedType, PieceType
  <2> HIDE DEF x
  <2>5. (Sifted(a, dropped) \o Sifted(t, dropped)) \o x = Sifted(a, dropped) \o (Sifted(t, dropped) \o x)
    BY ONLY <2>4, ConcatAssociative, SMTT(30)
  <2>6. QED BY <2>1, <2>2, <2>3, <2>5
<1> HIDE DEF P
<1>3. \A t \in Seq(S) : t \in P
  BY <1>1, <1>2, SeqSetInduction
<1>4. QED BY <1>3 DEF P

\* Leaving out what is dropped anyway changes nothing.
LEMMA SiftedKept ==
    ASSUME NEW S, NEW s \in Seq(S), NEW places, NEW dropped,
           \A i \in DOMAIN s : s[i] \notin dropped => i \in places
    PROVE  Sifted(Kept(s, places), dropped) = Sifted(s, dropped)
<1> DEFINE Ok(t) == \A i \in DOMAIN t : t[i] \notin dropped => i \in places
           P == {t \in Seq(S) : Ok(t) => Sifted(Kept(t, places), dropped) = Sifted(t, dropped)}
<1>1. << >> \in P
  BY KeptEmpty
<1>2. ASSUME NEW t \in Seq(S), NEW e \in S, t \in P PROVE Append(t, e) \in P
  <2> DEFINE u == Append(t, e)
             x == Piece(e, Len(t) + 1 \in places)
  <2>1. u \in Seq(S) /\ DOMAIN u = 1..Len(t) + 1 /\ DOMAIN t = 1..Len(t)
        /\ Len(t) \in Nat /\ \A i \in 1..Len(t) : u[i] = t[i]
    BY AppendProperties, LenProperties
  <2>2. u[Len(t) + 1] = e
    BY AppendProperties
  <2>3. SUFFICES ASSUME Ok(u) PROVE Sifted(Kept(u, places), dropped) = Sifted(u, dropped)
    BY <2>1
  <2>4. Kept(u, places) = Kept(t, places) \o x
    BY KeptAppend
  <2>5. Sifted(u, dropped) = Sifted(t, dropped) \o Piece(e, e \notin dropped)
    BY SiftedAppend
  <2> HIDE DEF u
  <2>6. Sifted(Kept(t, places), dropped) = Sifted(t, dropped)
    BY <1>2, <2>1, <2>3
  <2>7. Kept(t, places) \in Seq(S) /\ x \in Seq(S)
    BY KeptType, PieceType
  <2>8. Sifted(x, dropped) = Piece(e, e \notin dropped)
    <3>1. Append(<< >>, e) = <<e>> /\ << >> \in Seq(S)
      OBVIOUS
    <3>s. \A w \in Seq(S) : Sifted(Append(w, e), dropped) = Sifted(w, dropped) \o Piece(e, e \notin dropped)
      BY SiftedAppend
    <3>2. Sifted(<<e>>, dropped) = << >> \o Piece(e, e \notin dropped)
      BY <3>1, <3>s, SiftedEmpty
    <3>3. Sifted(<<e>>, dropped) = Piece(e, e \notin dropped)
      BY <3>2, PieceType, ConcatEmptySeq
    <3>4. Sifted(<< >>, dropped) = << >>
      BY SiftedEmpty
    <3>5. e \notin dropped => Len(t) + 1 \in places
      BY <2>1, <2>2, <2>3
    <3>6. CASE Len(t) + 1 \in places
      BY <3>3, <3>6 DEF Piece
    <3>7. CASE Len(t) + 1 \notin places
      BY <3>4, <3>5, <3>7 DEF Piece
    <3>8. QED BY <3>6, <3>7
  <2>9. Sifted(Kept(t, places) \o x, dropped) = Sifted(Kept(t, places), dropped) \o Sifted(x, dropped)
    <3> DEFINE k == Kept(t, places)
    <3>1. k \in Seq(S) /\ x \in Seq(S)
      BY <2>7
    <3> HIDE DEF k, x
    <3>2. Sifted(k \o x, dropped) = Sifted(k, dropped) \o Sifted(x, dropped)
      BY ONLY <3>1, SiftedConcat, SMTT(30)
    <3>3. QED BY <3>2 DEF k
  <2>10. QED BY <2>4, <2>5, <2>6, <2>8, <2>9
<1> HIDE DEF P
<1>3. \A t \in Seq(S) : t \in P
  BY <1>1, <1>2, SeqSetInduction
<1>4. QED BY <1>3 DEF P

\* Dropping distributes over joining.
LEMMA SiftedFlatten ==
    ASSUME NEW S, NEW t \in Seq(Seq(S)), NEW u \in Seq(Seq(S)), NEW dropped,
           Len(t) = Len(u),
           \A i \in 1..Len(t) : Sifted(t[i], dropped) = Sifted(u[i], dropped)
    PROVE  Sifted(FlattenSeq(t), dropped) = Sifted(FlattenSeq(u), dropped)
<1> DEFINE N == {n \in Nat : Sifted(FlattenSeq(SubSeq(t, 1, n)), dropped)
                               = Sifted(FlattenSeq(SubSeq(u, 1, n)), dropped)}
<1>1. 0 \in N
  BY FlattenWhole
<1>2. ASSUME NEW n \in Nat, n < Len(t), n \in N PROVE n + 1 \in N
  <2>1. /\ FlattenSeq(SubSeq(t, 1, n)) \in Seq(S) /\ t[n + 1] \in Seq(S)
        /\ FlattenSeq(SubSeq(t, 1, n + 1)) = FlattenSeq(SubSeq(t, 1, n)) \o t[n + 1]
    BY <1>2, FlattenPart
  <2>2. /\ FlattenSeq(SubSeq(u, 1, n)) \in Seq(S) /\ u[n + 1] \in Seq(S)
        /\ FlattenSeq(SubSeq(u, 1, n + 1)) = FlattenSeq(SubSeq(u, 1, n)) \o u[n + 1]
    BY <1>2, FlattenPart
  <2>3. Sifted(t[n + 1], dropped) = Sifted(u[n + 1], dropped)
    BY <1>2, LenProperties
  <2> DEFINE a == FlattenSeq(SubSeq(t, 1, n))
             b == FlattenSeq(SubSeq(u, 1, n))
  <2>4. Sifted(a, dropped) = Sifted(b, dropped)
    BY <1>2
  <2>c. \A x \in Seq(S), y \in Seq(S) : Sifted(x \o y, dropped) = Sifted(x, dropped) \o Sifted(y, dropped)
    BY SiftedConcat
  <2>5. Sifted(a \o t[n + 1], dropped) = Sifted(a, dropped) \o Sifted(t[n + 1], dropped)
    BY <2>1, <2>c
  <2>6. Sifted(b \o u[n + 1], dropped) = Sifted(b, dropped) \o Sifted(u[n + 1], dropped)
    BY <2>2, <2>c
  <2>7. FlattenSeq(SubSeq(t, 1, n + 1)) = a \o t[n + 1] /\ FlattenSeq(SubSeq(u, 1, n + 1)) = b \o u[n + 1]
    BY <2>1, <2>2
  <2> HIDE DEF a, b
  <2>8. Sifted(FlattenSeq(SubSeq(t, 1, n + 1)), dropped) = Sifted(FlattenSeq(SubSeq(u, 1, n + 1)), dropped)
    BY <2>3, <2>4, <2>5, <2>6, <2>7
  <2>9. QED BY <2>8
<1> HIDE DEF N
<1>3. Len(t) \in N
  BY <1>1, <1>2, PartsInduction, LenProperties
<1>4. QED BY <1>3, FlattenWhole DEF N

-----------------------------------------------------------------------------
(* Sums and counts.                                                        *)

LEMMA TotalIs ==
    ASSUME NEW c \in Seq(Int)
    PROVE  \E f : /\ Total(c) = f[Len(c)] /\ f[0] = 0
                  /\ \A n \in 0..Len(c) - 1 : f[n + 1] = f[n] + c[n + 1]
<1> DEFINE N == Len(c)
           G == [p \in Int \X (1..N) |-> p[1] + c[p[2]]]
           f == CHOOSE g : g = [n \in 0..N |-> IF n = 0 THEN 0 ELSE g[n - 1] + c[n]]
<1>1. N \in Nat /\ \A n \in 1..N : c[n] \in Int
  BY LenProperties, ElementOfSeq
<1>2. \A x \in Int, n \in 1..N : G[<<x, n>>] \in Int /\ G[<<x, n>>] = x + c[n]
  BY <1>1
<1>g. G \in [Int \X (1..N) -> Int]
  BY <1>1
<1> HIDE DEF G
<1>3. PICK h : Recursion(h, Int, 0, N, G)
  <2> HIDE DEF N
  <2>1. 0 \in Int /\ N \in Nat
    BY <1>1
  <2>2. QED BY <1>g, <2>1, RecursionExists
<1>4. \A n \in 0..N : n # 0 => G[<<h[n - 1], n>>] = h[n - 1] + c[n]
  <2>1. \A n \in 0..N : n # 0 => h[n - 1] \in Int /\ n \in 1..N
    BY <1>1, <1>3 DEF Recursion
  <2>2. QED BY <1>2, <2>1
<1>5. h = [n \in 0..N |-> IF n = 0 THEN 0 ELSE h[n - 1] + c[n]]
  BY <1>3, <1>4 DEF Recursion
<1>6. f = [n \in 0..N |-> IF n = 0 THEN 0 ELSE f[n - 1] + c[n]]
  BY <1>5
<1>7. Total(c) = f[N]
  BY DEF Total
<1> HIDE DEF f
<1>8. f[0] = 0
  BY <1>1, <1>6
<1>9. ASSUME NEW n \in 0..N - 1 PROVE f[n + 1] = f[n] + c[n + 1]
  <2>1. n + 1 \in 0..N /\ n + 1 # 0 /\ (n + 1) - 1 = n
    BY <1>1
  <2>2. f[n + 1] = f[(n + 1) - 1] + c[n + 1]
    BY <1>6, <2>1
  <2>3. QED BY <2>1, <2>2
<1>10. QED BY <1>7, <1>8, <1>9

LEMMA TotalEmpty == Total(<< >>) = 0
<1>1. << >> \in Seq(Int) /\ Len(<< >>) = 0
  OBVIOUS
<1>2. QED BY <1>1, TotalIs

LEMMA TotalType ==
    ASSUME NEW c \in Seq(Int)
    PROVE  Total(c) \in Int
<1>1. PICK f : /\ Total(c) = f[Len(c)] /\ f[0] = 0
               /\ \A n \in 0..Len(c) - 1 : f[n + 1] = f[n] + c[n + 1]
  BY TotalIs
<1> DEFINE N == {n \in Nat : f[n] \in Int}
<1>2. 0 \in N
  BY <1>1
<1>3. ASSUME NEW n \in Nat, n < Len(c), n \in N PROVE n + 1 \in N
  <2>1. n \in 0..Len(c) - 1 /\ n + 1 \in 1..Len(c)
    BY <1>3, LenProperties
  <2>2. c[n + 1] \in Int
    BY <2>1, ElementOfSeq
  <2>3. QED BY <1>1, <1>3, <2>1, <2>2
<1> HIDE DEF N
<1>4. Len(c) \in N
  BY <1>2, <1>3, PartsInduction, LenProperties
<1>5. QED BY <1>1, <1>4 DEF N

LEMMA TotalAppend ==
    ASSUME NEW c \in Seq(Int), NEW x \in Int
    PROVE  Total(Append(c, x)) = Total(c) + x
<1> DEFINE d == Append(c, x)
<1>1. d \in Seq(Int) /\ Len(d) = Len(c) + 1 /\ Len(c) \in Nat
      /\ \A i \in 1..Len(c) : d[i] = c[i]
  BY AppendProperties, LenProperties
<1>2. d[Len(c) + 1] = x
  BY AppendProperties
<1> HIDE DEF d
<1>3. PICK f : /\ Total(c) = f[Len(c)] /\ f[0] = 0
               /\ \A n \in 0..Len(c) - 1 : f[n + 1] = f[n] + c[n + 1]
  BY TotalIs
<1>4. PICK g : /\ Total(d) = g[Len(d)] /\ g[0] = 0
               /\ \A n \in 0..Len(d) - 1 : g[n + 1] = g[n] + d[n + 1]
  BY <1>1, TotalIs
<1> DEFINE N == {n \in Nat : f[n] = g[n]}
<1>5. 0 \in N
  BY <1>3, <1>4
<1>6. ASSUME NEW n \in Nat, n < Len(c), n \in N PROVE n + 1 \in N
  <2>1. n \in 0..Len(c) - 1 /\ n \in 0..Len(d) - 1 /\ n + 1 \in 1..Len(c)
    BY <1>1, <1>6
  <2>2. QED BY <1>1, <1>3, <1>4, <1>6, <2>1
<1> HIDE DEF N
<1>7. Len(c) \in N
  BY <1>5, <1>6, PartsInduction, LenProperties
<1>8. f[Len(c)] = g[Len(c)]
  BY <1>7 DEF N
<1>9. g[Len(c) + 1] = g[Len(c)] + x
  <2>1. Len(c) \in 0..Len(d) - 1 BY <1>1
  <2>2. g[Len(c) + 1] = g[Len(c)] + d[Len(c) + 1] BY <1>4, <2>1
  <2>3. QED BY <1>2, <2>2
<1>10. QED BY <1>1, <1>3, <1>4, <1>8, <1>9 DEF d

\* A column, of the rows in a group, and how many there are.
SumOf(s, F, group) == Total([i \in DOMAIN s |-> IF s[i] \in group THEN F[s[i]] ELSE 0])
CountOf(s, group) == Cardinality({i \in DOMAIN s : s[i] \in group})

LEMMA SumOfAppend ==
    ASSUME NEW S, NEW s \in Seq(S), NEW e \in S, NEW F \in [S -> Int], NEW group
    PROVE  /\ SumOf(s, F, group) \in Int
           /\ SumOf(Append(s, e), F, group)
                = SumOf(s, F, group) + (IF e \in group THEN F[e] ELSE 0)
<1> DEFINE C(u) == [i \in DOMAIN u |-> IF u[i] \in group THEN F[u[i]] ELSE 0]
           t == Append(s, e)
           x == IF e \in group THEN F[e] ELSE 0
<1>1. t \in Seq(S) /\ Len(t) = Len(s) + 1 /\ DOMAIN t = 1..Len(s) + 1 /\ DOMAIN s = 1..Len(s)
      /\ Len(s) \in Nat /\ \A i \in 1..Len(s) : t[i] = s[i]
  BY AppendProperties, LenProperties
<1>2. t[Len(s) + 1] = e
  BY AppendProperties
<1> HIDE DEF t
<1>3. C(s) \in Seq(Int) /\ Len(C(s)) = Len(s)
  <2>1. C(s) = [i \in 1..Len(s) |-> IF s[i] \in group THEN F[s[i]] ELSE 0]
    BY <1>1
  <2>2. \A i \in 1..Len(s) : (IF s[i] \in group THEN F[s[i]] ELSE 0) \in Int
    BY ElementOfSeq
  <2>3. QED BY <1>1, <2>1, <2>2, IsASeq
<1>4. x \in Int
  OBVIOUS
<1>5. C(t) = Append(C(s), x)
  <2> DEFINE g == Append(C(s), x)
  <2>1. /\ g \in Seq(Int) /\ Len(g) = Len(s) + 1
        /\ \A i \in 1..Len(s) : g[i] = C(s)[i]
    BY <1>3, <1>4, AppendProperties, LenProperties
  <2>2. g[Len(s) + 1] = x
    BY <1>3, <1>4, AppendProperties
  <2> HIDE DEF g
  <2>3. g = [i \in 1..Len(s) + 1 |-> g[i]]
    BY <2>1
  <2>4. ASSUME NEW i \in 1..Len(s) PROVE C(t)[i] = g[i]
    <3>1. i \in DOMAIN s /\ i \in DOMAIN t /\ t[i] = s[i] BY <1>1
    <3>2. C(t)[i] = C(s)[i] BY <3>1
    <3>3. QED BY <2>1, <3>2
  <2>5. C(t)[Len(s) + 1] = g[Len(s) + 1]
    BY <1>1, <1>2, <2>2
  <2>6. DOMAIN C(t) = 1..Len(s) + 1 /\ C(t) = [i \in 1..Len(s) + 1 |-> C(t)[i]]
    BY <1>1
  <2>7. \A i \in 1..Len(s) + 1 : i \in 1..Len(s) \/ i = Len(s) + 1
    BY <1>1
  <2> HIDE DEF C
  <2>8. \A i \in 1..Len(s) + 1 : C(t)[i] = g[i]
    BY <2>4, <2>5, <2>7
  <2>9. C(t) = g
    BY <2>3, <2>6, <2>8
  <2>10. QED BY <2>9 DEF g
<1> HIDE DEF x
<1>6. Total(C(t)) = Total(C(s)) + x /\ Total(C(s)) \in Int
  <2> HIDE DEF C
  <2>1. QED BY <1>3, <1>4, <1>5, TotalAppend, TotalType
<1>7. QED BY <1>6 DEF SumOf, t, x

LEMMA CountOfAppend ==
    ASSUME NEW S, NEW s \in Seq(S), NEW e \in S, NEW group
    PROVE  /\ CountOf(s, group) \in Nat
           /\ CountOf(Append(s, e), group) = CountOf(s, group) + (IF e \in group THEN 1 ELSE 0)
<1> DEFINE t == Append(s, e)
           A == {i \in DOMAIN s : s[i] \in group}
           B == {i \in DOMAIN t : t[i] \in group}
<1>1. DOMAIN t = 1..Len(s) + 1 /\ DOMAIN s = 1..Len(s)
      /\ Len(s) \in Nat /\ \A i \in 1..Len(s) : t[i] = s[i]
  BY AppendProperties, LenProperties
<1>2. t[Len(s) + 1] = e
  BY AppendProperties
<1> HIDE DEF t
<1>3. IsFiniteSet(A) /\ Len(s) + 1 \notin A
  <2>1. Len(s) \in Int /\ 1 \in Int
    BY <1>1
  <2>2. IsFiniteSet(1..Len(s))
    BY ONLY <2>1, FS_Interval
  <2>3. A \subseteq 1..Len(s)
    BY <1>1
  <2>4. IsFiniteSet(A)
    BY ONLY <2>2, <2>3, FS_Subset
  <2>5. QED BY <1>1, <2>3, <2>4
<1>4. B = IF e \in group THEN A \union {Len(s) + 1} ELSE A
  BY <1>1, <1>2
<1> HIDE DEF A, B
<1>5. Cardinality(A) \in Nat /\ Cardinality(A \union {Len(s) + 1}) = Cardinality(A) + 1
  BY <1>3, FS_CardinalityType, FS_AddElement
<1>6. Cardinality(B) = Cardinality(A) + (IF e \in group THEN 1 ELSE 0)
  BY <1>4, <1>5
<1>7. QED BY <1>5, <1>6 DEF A, B, CountOf, t

LEMMA SumsEmpty ==
    ASSUME NEW F, NEW group
    PROVE  SumOf(<< >>, F, group) = 0 /\ CountOf(<< >>, group) = 0
<1>1. [i \in DOMAIN << >> |-> IF << >>[i] \in group THEN F[<< >>[i]] ELSE 0] = << >>
  OBVIOUS
<1>2. {i \in DOMAIN << >> : << >>[i] \in group} = {}
  OBVIOUS
<1>3. QED BY <1>1, <1>2, TotalEmpty, FS_EmptySet DEF SumOf, CountOf

LEMMA SumsNone ==
    ASSUME NEW S, NEW s \in Seq(S), NEW F \in [S -> Int], NEW group,
           \A i \in DOMAIN s : s[i] \notin group
    PROVE  SumOf(s, F, group) = 0 /\ CountOf(s, group) = 0
<1> DEFINE None(t) == \A i \in DOMAIN t : t[i] \notin group
           P == {t \in Seq(S) : None(t) => SumOf(t, F, group) = 0 /\ CountOf(t, group) = 0}
<1>1. << >> \in P
  BY SumsEmpty
<1>2. ASSUME NEW t \in Seq(S), NEW e \in S, t \in P PROVE Append(t, e) \in P
  <2>1. /\ DOMAIN Append(t, e) = DOMAIN t \union {Len(t) + 1} /\ Append(t, e) \in Seq(S)
        /\ \A i \in DOMAIN t : Append(t, e)[i] = t[i]
    BY AppendProperties, LenProperties
  <2>2. Append(t, e)[Len(t) + 1] = e
    BY AppendProperties
  <2>3. SUFFICES ASSUME None(Append(t, e))
                 PROVE  SumOf(Append(t, e), F, group) = 0 /\ CountOf(Append(t, e), group) = 0
    BY <2>1
  <2>4. None(t) /\ e \notin group
    BY <2>1, <2>2, <2>3
  <2>5. SumOf(t, F, group) = 0 /\ CountOf(t, group) = 0
    BY <1>2, <2>4
  <2>6. SumOf(Append(t, e), F, group) = SumOf(t, F, group) + (IF e \in group THEN F[e] ELSE 0)
    BY SumOfAppend
  <2>7. CountOf(Append(t, e), group) = CountOf(t, group) + (IF e \in group THEN 1 ELSE 0)
    BY CountOfAppend
  <2>8. QED BY <2>4, <2>5, <2>6, <2>7
<1> HIDE DEF P
<1>3. s \in P
  BY <1>1, <1>2, SeqSetInduction
<1>4. QED BY <1>3 DEF P

-----------------------------------------------------------------------------
(* The sinks: the query over the rows, one row more, is the totals raised. *)

\* Statistics whose counts are in a set.
StagesOf(counts) ==
    [stage : {"memory", "lossless", "filler", "learned", "elision", "dedup"},
     before : counts, after : counts, ok : {"none", "good", "bad"}]

StageSet == StagesOf(Int)

StagesBefore == [x \in StageSet |-> x.before]
StagesAfter == [x \in StageSet |-> x.after]
Named(name) == {x \in StageSet : x.stage = name}
CheckedOnes(name) == {x \in StageSet : x.stage = name /\ x.ok # "none"}
GoodOnes(name) == {x \in StageSet : x.stage = name /\ x.ok = "good"}

LEMMA StageGroupIs ==
    ASSUME NEW s \in Seq(StageSet), NEW name
    PROVE  StageGroup(s, name) =
             [before |-> SumOf(s, StagesBefore, Named(name)),
              after |-> SumOf(s, StagesAfter, Named(name)),
              checked |-> CountOf(s, CheckedOnes(name)),
              ok |-> CountOf(s, GoodOnes(name))]
<1> DEFINE group == {i \in DOMAIN s : s[i].stage = name}
           before == [i \in DOMAIN s |-> s[i].before]
           after == [i \in DOMAIN s |-> s[i].after]
<1>1. \A i \in DOMAIN s : s[i] \in StageSet
  BY ElementOfSeq, LenProperties
<1>2. [i \in DOMAIN before |-> IF i \in group THEN before[i] ELSE 0]
        = [i \in DOMAIN s |-> IF s[i] \in Named(name) THEN StagesBefore[s[i]] ELSE 0]
  BY <1>1 DEF Named, StagesBefore
<1>3. [i \in DOMAIN after |-> IF i \in group THEN after[i] ELSE 0]
        = [i \in DOMAIN s |-> IF s[i] \in Named(name) THEN StagesAfter[s[i]] ELSE 0]
  BY <1>1 DEF Named, StagesAfter
<1>4. {i \in group : s[i].ok # "none"} = {i \in DOMAIN s : s[i] \in CheckedOnes(name)}
  BY <1>1 DEF CheckedOnes
<1>5. {i \in group : s[i].ok = "good"} = {i \in DOMAIN s : s[i] \in GoodOnes(name)}
  BY <1>1 DEF GoodOnes
<1>6. SumOver(before, group) = SumOf(s, StagesBefore, Named(name))
  BY <1>2 DEF SumOver, SumOf
<1>7. SumOver(after, group) = SumOf(s, StagesAfter, Named(name))
  BY <1>3 DEF SumOver, SumOf
<1>8. Count({i \in group : s[i].ok # "none"}) = CountOf(s, CheckedOnes(name))
  BY <1>4 DEF Count, CountOf
<1>9. Count({i \in group : s[i].ok = "good"}) = CountOf(s, GoodOnes(name))
  BY <1>5 DEF Count, CountOf
<1>10. QED BY <1>6, <1>7, <1>8, <1>9 DEF StageGroup

LEMMA StageGroupAppend ==
    ASSUME NEW s \in Seq(StageSet), NEW e \in StageSet, NEW name
    PROVE  /\ name # e.stage => StageGroup(Append(s, e), name) = StageGroup(s, name)
           /\ name = e.stage =>
                StageGroup(Append(s, e), name) =
                  [before |-> StageGroup(s, name).before + OfStage(e).before,
                   after |-> StageGroup(s, name).after + OfStage(e).after,
                   checked |-> StageGroup(s, name).checked + OfStage(e).checked,
                   ok |-> StageGroup(s, name).ok + OfStage(e).ok]
<1> DEFINE t == Append(s, e)
<1>0. t \in Seq(StageSet)
  BY AppendProperties
<1>1. StagesBefore \in [StageSet -> Int] /\ StagesAfter \in [StageSet -> Int]
  BY DEF StagesBefore, StagesAfter, StageSet, StagesOf
<1>2. /\ SumOf(s, StagesBefore, Named(name)) \in Int
      /\ SumOf(t, StagesBefore, Named(name))
           = SumOf(s, StagesBefore, Named(name)) + (IF e \in Named(name) THEN StagesBefore[e] ELSE 0)
  BY <1>1, SumOfAppend
<1>3. /\ SumOf(s, StagesAfter, Named(name)) \in Int
      /\ SumOf(t, StagesAfter, Named(name))
           = SumOf(s, StagesAfter, Named(name)) + (IF e \in Named(name) THEN StagesAfter[e] ELSE 0)
  BY <1>1, SumOfAppend
<1>4. /\ CountOf(s, CheckedOnes(name)) \in Nat
      /\ CountOf(t, CheckedOnes(name)) = CountOf(s, CheckedOnes(name)) + (IF e \in CheckedOnes(name) THEN 1 ELSE 0)
  BY CountOfAppend
<1>5. /\ CountOf(s, GoodOnes(name)) \in Nat
      /\ CountOf(t, GoodOnes(name)) = CountOf(s, GoodOnes(name)) + (IF e \in GoodOnes(name) THEN 1 ELSE 0)
  BY CountOfAppend
<1>6. /\ e \in Named(name) <=> name = e.stage
      /\ e \in CheckedOnes(name) <=> name = e.stage /\ e.ok # "none"
      /\ e \in GoodOnes(name) <=> name = e.stage /\ e.ok = "good"
      /\ StagesBefore[e] = e.before /\ StagesAfter[e] = e.after
  BY DEF Named, CheckedOnes, GoodOnes, StagesBefore, StagesAfter
<1>7. /\ StageGroup(s, name) =
             [before |-> SumOf(s, StagesBefore, Named(name)),
              after |-> SumOf(s, StagesAfter, Named(name)),
              checked |-> CountOf(s, CheckedOnes(name)),
              ok |-> CountOf(s, GoodOnes(name))]
      /\ StageGroup(t, name) =
             [before |-> SumOf(t, StagesBefore, Named(name)),
              after |-> SumOf(t, StagesAfter, Named(name)),
              checked |-> CountOf(t, CheckedOnes(name)),
              ok |-> CountOf(t, GoodOnes(name))]
  BY <1>0, StageGroupIs
<1> HIDE DEF t
<1>8. ASSUME name # e.stage PROVE StageGroup(t, name) = StageGroup(s, name)
  BY <1>2, <1>3, <1>4, <1>5, <1>6, <1>7, <1>8
<1>9. ASSUME name = e.stage
      PROVE  StageGroup(t, name) =
                  [before |-> StageGroup(s, name).before + OfStage(e).before,
                   after |-> StageGroup(s, name).after + OfStage(e).after,
                   checked |-> StageGroup(s, name).checked + OfStage(e).checked,
                   ok |-> StageGroup(s, name).ok + OfStage(e).ok]
  <2>1. /\ OfStage(e).before = e.before /\ OfStage(e).after = e.after
        /\ OfStage(e).checked = (IF e.ok = "none" THEN 0 ELSE 1)
        /\ OfStage(e).ok = (IF e.ok = "good" THEN 1 ELSE 0)
    BY DEF OfStage
  <2>2. QED BY <1>2, <1>3, <1>4, <1>5, <1>6, <1>7, <1>9, <2>1
<1>10. QED BY <1>8, <1>9 DEF t

LEMMA StageGroupsAppend ==
    ASSUME NEW s \in Seq(StageSet), NEW e \in StageSet
    PROVE  StageGroups(Append(s, e)) = Raised(StageGroups(s), e.stage, OfStage(e))
<1> DEFINE t == Append(s, e)
           D(u) == {u[i].stage : i \in DOMAIN u}
           more == OfStage(e)
           k == e.stage
           f == StageGroups(s)
<1>1. /\ DOMAIN t = DOMAIN s \union {Len(s) + 1}
      /\ \A i \in DOMAIN s : t[i] = s[i]
  BY AppendProperties, LenProperties
<1>2. t[Len(s) + 1] = e
  BY AppendProperties
<1>3. D(t) = D(s) \union {k}
  <2> HIDE DEF t
  <2>1. QED BY <1>1, <1>2
<1>4. f = [name \in D(s) |-> StageGroup(s, name)] /\ DOMAIN f = D(s)
  BY DEF StageGroups
<1>5. StageGroups(t) = [name \in D(t) |-> StageGroup(t, name)]
  BY DEF StageGroups
<1>6. \A name : name # k => StageGroup(t, name) = StageGroup(s, name)
  BY StageGroupAppend
<1>7. StageGroup(t, k) =
                  [before |-> StageGroup(s, k).before + more.before,
                   after |-> StageGroup(s, k).after + more.after,
                   checked |-> StageGroup(s, k).checked + more.checked,
                   ok |-> StageGroup(s, k).ok + more.ok]
  BY StageGroupAppend
<1>8. DOMAIN more = {"before", "after", "checked", "ok"}
  BY DEF OfStage
<1>9. k \in D(s) => StageGroup(t, k) = [c \in DOMAIN more |-> f[k][c] + more[c]]
  BY <1>4, <1>7, <1>8
<1>10. k \notin D(s) => StageGroup(t, k) = more
  <2> SUFFICES ASSUME k \notin D(s) PROVE StageGroup(t, k) = more
    OBVIOUS
  <2>1. \A i \in DOMAIN s : s[i] \notin Named(k) /\ s[i] \notin CheckedOnes(k) /\ s[i] \notin GoodOnes(k)
    BY DEF Named, CheckedOnes, GoodOnes
  <2>2. StagesBefore \in [StageSet -> Int] /\ StagesAfter \in [StageSet -> Int]
    BY DEF StagesBefore, StagesAfter, StageSet, StagesOf
  <2>3. SumOf(s, StagesBefore, Named(k)) = 0 /\ SumOf(s, StagesAfter, Named(k)) = 0
    BY <2>1, <2>2, SumsNone
  <2>4. CountOf(s, CheckedOnes(k)) = 0 /\ CountOf(s, GoodOnes(k)) = 0
    BY <2>1, <2>2, SumsNone
  <2>5. StageGroup(s, k) = [before |-> 0, after |-> 0, checked |-> 0, ok |-> 0]
    BY <2>3, <2>4, StageGroupIs
  <2>6. more = [before |-> more.before, after |-> more.after, checked |-> more.checked, ok |-> more.ok]
        /\ more.before \in Int /\ more.after \in Int /\ more.checked \in Int /\ more.ok \in Int
    BY DEF OfStage, StageSet, StagesOf
  <2> HIDE DEF more, k
  <2>7. QED BY <1>7, <2>5, <2>6
<1> HIDE DEF t, D, more, k, f
<1>11. StageGroups(t) = [name \in D(s) \union {k} |->
            IF name # k THEN f[name]
            ELSE IF k \in D(s) THEN [c \in DOMAIN more |-> f[k][c] + more[c]]
            ELSE more]
  BY <1>3, <1>4, <1>5, <1>6, <1>9, <1>10
<1>12. StageGroups(t) = Raised(f, k, more)
  BY <1>11, <1>4 DEF Raised
<1>13. QED BY <1>12 DEF t, f, k, more

LEMMA RaisedByAllIs ==
    ASSUME NEW a \in Seq(StageSet), NEW b \in Seq(StageSet)
    PROVE  RaisedByAll(StageGroups(a), b) = StageGroups(a \o b)
<1> DEFINE N == Len(b)
           z == StageGroups(a)
           X == {StageGroups(w) : w \in Seq(StageSet)}
           G == [p \in X \X (1..N) |-> Raised(p[1], b[p[2]].stage, OfStage(b[p[2]]))]
           f == CHOOSE g : g = [n \in 0..N |-> IF n = 0 THEN z ELSE Raised(g[n - 1], b[n].stage, OfStage(b[n]))]
<1>1. N \in Nat /\ \A n \in 1..N : b[n] \in StageSet
  BY LenProperties, ElementOfSeq
<1>2. \A x \in X, n \in 1..N : Raised(x, b[n].stage, OfStage(b[n])) \in X
  <2> SUFFICES ASSUME NEW w \in Seq(StageSet), NEW n \in 1..N
               PROVE  Raised(StageGroups(w), b[n].stage, OfStage(b[n])) \in X
    OBVIOUS
  <2>1. b[n] \in StageSet
    BY <1>1
  <2>2. StageGroups(Append(w, b[n])) = Raised(StageGroups(w), b[n].stage, OfStage(b[n]))
    BY <2>1, StageGroupsAppend
  <2>3. Append(w, b[n]) \in Seq(StageSet)
    BY <2>1, AppendProperties
  <2>4. QED BY <2>2, <2>3
<1>3. G \in [X \X (1..N) -> X] /\ z \in X
      /\ \A x \in X, n \in 1..N : G[<<x, n>>] = Raised(x, b[n].stage, OfStage(b[n]))
  BY <1>2
<1> HIDE DEF G, X, z
<1>4. PICK h : Recursion(h, X, z, N, G)
  <2> HIDE DEF N
  <2>1. QED BY <1>1, <1>3, RecursionExists
<1>5. h = [n \in 0..N |-> IF n = 0 THEN z ELSE Raised(h[n - 1], b[n].stage, OfStage(b[n]))]
  <2>1. \A n \in 0..N : n # 0 => h[n - 1] \in X /\ n \in 1..N
    BY <1>1, <1>4 DEF Recursion
  <2>2. \A n \in 0..N : n # 0 => G[<<h[n - 1], n>>] = Raised(h[n - 1], b[n].stage, OfStage(b[n]))
    BY <1>3, <2>1
  <2>3. QED BY <2>2, <1>4 DEF Recursion
<1>6. f = [n \in 0..N |-> IF n = 0 THEN z ELSE Raised(f[n - 1], b[n].stage, OfStage(b[n]))]
  BY <1>5
<1>7. RaisedByAll(z, b) = f[N]
  BY DEF RaisedByAll
<1> HIDE DEF f
<1> DEFINE M == {n \in Nat : f[n] = StageGroups(a \o SubSeq(b, 1, n))}
<1>8. 0 \in M
  <2>1. a \o SubSeq(b, 1, 0) = a
    BY SubSeqEmpty, ConcatEmptySeq
  <2>2. f[0] = z
    BY <1>1, <1>6
  <2>3. QED BY <2>1, <2>2 DEF z
<1>9. ASSUME NEW n \in Nat, n < Len(b), n \in M PROVE n + 1 \in M
  <2>1. n + 1 \in 0..N /\ n + 1 # 0 /\ (n + 1) - 1 = n /\ n + 1 \in 1..N
    BY <1>9, <1>1
  <2>2. f[n + 1] = Raised(f[n], b[n + 1].stage, OfStage(b[n + 1]))
    <3>1. f[n + 1] = Raised(f[(n + 1) - 1], b[n + 1].stage, OfStage(b[n + 1]))
      BY <1>6, <2>1
    <3>2. QED BY <2>1, <3>1
  <2>3. /\ SubSeq(b, 1, n) \in Seq(StageSet) /\ b[n + 1] \in StageSet
        /\ SubSeq(b, 1, n + 1) = Append(SubSeq(b, 1, n), b[n + 1])
    BY <1>9, Longer
  <2> DEFINE w == SubSeq(b, 1, n)
  <2>4. a \o SubSeq(b, 1, n + 1) = Append(a \o w, b[n + 1]) /\ a \o w \in Seq(StageSet)
    BY <2>3, ConcatAppend, ConcatProperties
  <2>5. f[n] = StageGroups(a \o w)
    BY <1>9
  <2>6. \A v \in Seq(StageSet) : StageGroups(Append(v, b[n + 1])) = Raised(StageGroups(v), b[n + 1].stage, OfStage(b[n + 1]))
    BY <2>3, StageGroupsAppend
  <2> HIDE DEF w
  <2>7. f[n + 1] = StageGroups(a \o SubSeq(b, 1, n + 1))
    BY <2>2, <2>4, <2>5, <2>6
  <2>8. QED BY <2>7
<1> HIDE DEF M
<1>10. N \in M
  BY <1>1, <1>8, <1>9, PartsInduction
<1>11. f[N] = StageGroups(a \o b)
  BY <1>10, SubSeqFull DEF M
<1>12. QED BY <1>7, <1>11 DEF z

\* Rows, of the tenants in a set.
Rows(tenants) ==
    [tenant : tenants, cache : {"hit", "similar", "miss", "off"}, status : Nat, before : Int, after : Int,
     stages : Seq(StageSet), usage : Usages \union {NoUsage}]

RowsBefore(tenants) == [x \in Rows(tenants) |-> x.before]
RowsAfter(tenants) == [x \in Rows(tenants) |-> x.after]
RowsOf(tenants, t) == {x \in Rows(tenants) : x.tenant = t}

LEMMA TenantGroupIs ==
    ASSUME NEW T, NEW rows \in Seq(Rows(T)), NEW t
    PROVE  TenantGroup(rows, t) =
             [requests |-> CountOf(rows, RowsOf(T, t)),
              before |-> SumOf(rows, RowsBefore(T), RowsOf(T, t)),
              after |-> SumOf(rows, RowsAfter(T), RowsOf(T, t))]
<1> DEFINE group == {i \in DOMAIN rows : rows[i].tenant = t}
           before == [i \in DOMAIN rows |-> rows[i].before]
           after == [i \in DOMAIN rows |-> rows[i].after]
<1>1. \A i \in DOMAIN rows : rows[i] \in Rows(T)
  BY ElementOfSeq, LenProperties
<1>2. [i \in DOMAIN before |-> IF i \in group THEN before[i] ELSE 0]
        = [i \in DOMAIN rows |-> IF rows[i] \in RowsOf(T, t) THEN RowsBefore(T)[rows[i]] ELSE 0]
  BY <1>1 DEF RowsOf, RowsBefore
<1>3. [i \in DOMAIN after |-> IF i \in group THEN after[i] ELSE 0]
        = [i \in DOMAIN rows |-> IF rows[i] \in RowsOf(T, t) THEN RowsAfter(T)[rows[i]] ELSE 0]
  BY <1>1 DEF RowsOf, RowsAfter
<1>4. group = {i \in DOMAIN rows : rows[i] \in RowsOf(T, t)}
  BY <1>1 DEF RowsOf
<1>5. SumOver(before, group) = SumOf(rows, RowsBefore(T), RowsOf(T, t))
  BY <1>2 DEF SumOver, SumOf
<1>6. SumOver(after, group) = SumOf(rows, RowsAfter(T), RowsOf(T, t))
  BY <1>3 DEF SumOver, SumOf
<1>7. Count(group) = CountOf(rows, RowsOf(T, t))
  BY <1>4 DEF Count, CountOf
<1>8. QED BY <1>5, <1>6, <1>7 DEF TenantGroup

LEMMA RowColumns ==
    ASSUME NEW T
    PROVE  RowsBefore(T) \in [Rows(T) -> Int] /\ RowsAfter(T) \in [Rows(T) -> Int]
BY DEF RowsBefore, RowsAfter, Rows

LEMMA TenantGroupAppend ==
    ASSUME NEW T, NEW rows \in Seq(Rows(T)), NEW e \in Rows(T), NEW t
    PROVE  /\ t # e.tenant => TenantGroup(Append(rows, e), t) = TenantGroup(rows, t)
           /\ t = e.tenant =>
                TenantGroup(Append(rows, e), t) =
                  [requests |-> TenantGroup(rows, t).requests + OfTenant(e).requests,
                   before |-> TenantGroup(rows, t).before + OfTenant(e).before,
                   after |-> TenantGroup(rows, t).after + OfTenant(e).after]
           /\ (\A i \in DOMAIN rows : rows[i].tenant # t)
                => TenantGroup(rows, t) = [requests |-> 0, before |-> 0, after |-> 0]
<1> DEFINE u == Append(rows, e)
           g == RowsOf(T, t)
<1>0. u \in Seq(Rows(T))
  BY AppendProperties
<1>1. RowsBefore(T) \in [Rows(T) -> Int] /\ RowsAfter(T) \in [Rows(T) -> Int]
  BY RowColumns
<1>2. /\ SumOf(rows, RowsBefore(T), g) \in Int
      /\ SumOf(u, RowsBefore(T), g) = SumOf(rows, RowsBefore(T), g) + (IF e \in g THEN RowsBefore(T)[e] ELSE 0)
  BY <1>1, SumOfAppend
<1>3. /\ SumOf(rows, RowsAfter(T), g) \in Int
      /\ SumOf(u, RowsAfter(T), g) = SumOf(rows, RowsAfter(T), g) + (IF e \in g THEN RowsAfter(T)[e] ELSE 0)
  BY <1>1, SumOfAppend
<1>4. /\ CountOf(rows, g) \in Nat
      /\ CountOf(u, g) = CountOf(rows, g) + (IF e \in g THEN 1 ELSE 0)
  BY CountOfAppend
<1>5. /\ e \in g <=> t = e.tenant
      /\ RowsBefore(T)[e] = e.before /\ RowsAfter(T)[e] = e.after
  BY DEF RowsOf, RowsBefore, RowsAfter
<1>6. /\ TenantGroup(rows, t) =
             [requests |-> CountOf(rows, g), before |-> SumOf(rows, RowsBefore(T), g),
              after |-> SumOf(rows, RowsAfter(T), g)]
      /\ TenantGroup(u, t) =
             [requests |-> CountOf(u, g), before |-> SumOf(u, RowsBefore(T), g),
              after |-> SumOf(u, RowsAfter(T), g)]
  BY <1>0, TenantGroupIs
<1>7. ASSUME \A i \in DOMAIN rows : rows[i].tenant # t
      PROVE  TenantGroup(rows, t) = [requests |-> 0, before |-> 0, after |-> 0]
  <2>1. \A i \in DOMAIN rows : rows[i] \notin g
    BY <1>7 DEF RowsOf
  <2>2. SumOf(rows, RowsBefore(T), g) = 0 /\ CountOf(rows, g) = 0
    BY <1>1, <2>1, SumsNone
  <2>3. SumOf(rows, RowsAfter(T), g) = 0
    BY <1>1, <2>1, SumsNone
  <2>4. QED BY <1>6, <2>2, <2>3
<1> HIDE DEF u, g
<1>8. ASSUME t # e.tenant PROVE TenantGroup(u, t) = TenantGroup(rows, t)
  BY <1>2, <1>3, <1>4, <1>5, <1>6, <1>8
<1>9. ASSUME t = e.tenant
      PROVE  TenantGroup(u, t) =
                  [requests |-> TenantGroup(rows, t).requests + OfTenant(e).requests,
                   before |-> TenantGroup(rows, t).before + OfTenant(e).before,
                   after |-> TenantGroup(rows, t).after + OfTenant(e).after]
  BY <1>2, <1>3, <1>4, <1>5, <1>6, <1>9 DEF OfTenant
<1>10. QED BY <1>7, <1>8, <1>9 DEF u

LEMMA TenantGroupsAppend ==
    ASSUME NEW T, NEW rows \in Seq(Rows(T)), NEW e \in Rows(T)
    PROVE  TenantGroups(Append(rows, e)) =
             IF e.tenant = NoTenant THEN TenantGroups(rows)
             ELSE Raised(TenantGroups(rows), e.tenant, OfTenant(e))
<1> DEFINE u == Append(rows, e)
           D(r) == {r[i].tenant : i \in DOMAIN r} \ {NoTenant}
           more == OfTenant(e)
           k == e.tenant
           f == TenantGroups(rows)
<1>1. /\ DOMAIN u = DOMAIN rows \union {Len(rows) + 1}
      /\ \A i \in DOMAIN rows : u[i] = rows[i]
  BY AppendProperties, LenProperties
<1>2. u[Len(rows) + 1] = e
  BY AppendProperties
<1>3. D(u) = IF k = NoTenant THEN D(rows) ELSE D(rows) \union {k}
  <2> HIDE DEF u
  <2>1. QED BY <1>1, <1>2
<1>4. f = [t \in D(rows) |-> TenantGroup(rows, t)] /\ DOMAIN f = D(rows)
  BY DEF TenantGroups
<1>5. TenantGroups(u) = [t \in D(u) |-> TenantGroup(u, t)]
  BY DEF TenantGroups
<1>6. \A t : t # k => TenantGroup(u, t) = TenantGroup(rows, t)
  BY TenantGroupAppend
<1>7. TenantGroup(u, k) =
                  [requests |-> TenantGroup(rows, k).requests + more.requests,
                   before |-> TenantGroup(rows, k).before + more.before,
                   after |-> TenantGroup(rows, k).after + more.after]
  BY TenantGroupAppend
<1>8. DOMAIN more = {"requests", "before", "after"}
  BY DEF OfTenant
<1>9. k \in D(rows) => TenantGroup(u, k) = [c \in DOMAIN more |-> f[k][c] + more[c]]
  BY <1>4, <1>7, <1>8
<1>10. k # NoTenant /\ k \notin D(rows) => TenantGroup(u, k) = more
  <2> SUFFICES ASSUME k # NoTenant, k \notin D(rows) PROVE TenantGroup(u, k) = more
    OBVIOUS
  <2>1. \A i \in DOMAIN rows : rows[i].tenant # k
    OBVIOUS
  <2>2. TenantGroup(rows, k) = [requests |-> 0, before |-> 0, after |-> 0]
    BY <2>1, TenantGroupAppend
  <2>3. more = [requests |-> more.requests, before |-> more.before, after |-> more.after]
        /\ more.requests \in Int /\ more.before \in Int /\ more.after \in Int
    BY DEF OfTenant, Rows
  <2> HIDE DEF more, k
  <2>4. QED BY <1>7, <2>2, <2>3
<1> HIDE DEF u, D, more, k, f
<1>11. CASE k = NoTenant
  <2>1. NoTenant \notin D(rows)
    BY DEF D
  <2>2. TenantGroups(u) = f
    BY <1>3, <1>4, <1>5, <1>6, <1>11, <2>1
  <2>3. QED BY <1>11, <2>2 DEF u, k, f
<1>12. CASE k # NoTenant
  <2>1. TenantGroups(u) = [t \in D(rows) \union {k} |->
            IF t # k THEN f[t]
            ELSE IF k \in D(rows) THEN [c \in DOMAIN more |-> f[k][c] + more[c]]
            ELSE more]
    BY <1>3, <1>4, <1>5, <1>6, <1>9, <1>10, <1>12
  <2>2. TenantGroups(u) = Raised(f, k, more)
    BY <2>1, <1>4 DEF Raised
  <2>3. QED BY <1>12, <2>2 DEF u, f, k, more
<1>13. QED BY <1>11, <1>12

HitRows(tenants) == {x \in Rows(tenants) : x.cache = "hit"}

LEMMA SnapshotIs ==
    ASSUME NEW T, NEW rows \in Seq(Rows(T))
    PROVE  /\ Count({i \in DOMAIN rows : rows[i].cache = "hit"}) = CountOf(rows, HitRows(T))
           /\ Total([i \in DOMAIN rows |-> rows[i].before]) = SumOf(rows, RowsBefore(T), Rows(T))
           /\ Total([i \in DOMAIN rows |-> rows[i].after]) = SumOf(rows, RowsAfter(T), Rows(T))
<1>1. \A i \in DOMAIN rows : rows[i] \in Rows(T)
  BY ElementOfSeq, LenProperties
<1>2. {i \in DOMAIN rows : rows[i].cache = "hit"} = {i \in DOMAIN rows : rows[i] \in HitRows(T)}
  BY <1>1 DEF HitRows
<1>3. [i \in DOMAIN rows |-> rows[i].before]
        = [i \in DOMAIN rows |-> IF rows[i] \in Rows(T) THEN RowsBefore(T)[rows[i]] ELSE 0]
  BY <1>1 DEF RowsBefore
<1>4. [i \in DOMAIN rows |-> rows[i].after]
        = [i \in DOMAIN rows |-> IF rows[i] \in Rows(T) THEN RowsAfter(T)[rows[i]] ELSE 0]
  BY <1>1 DEF RowsAfter
<1>5. QED BY <1>2, <1>3, <1>4 DEF Count, CountOf, SumOf

LEMMA StageRowsAppend ==
    ASSUME NEW T, NEW rows \in Seq(Rows(T)), NEW e \in Rows(T)
    PROVE  /\ StageRows(rows) \in Seq(StageSet)
           /\ StageRows(Append(rows, e)) = StageRows(rows) \o e.stages
<1> DEFINE F(r) == [i \in DOMAIN r |-> r[i].stages]
           u == Append(rows, e)
<1>1. \A r \in Seq(Rows(T)) : F(r) \in Seq(Seq(StageSet)) /\ Len(F(r)) = Len(r)
  <2> SUFFICES ASSUME NEW r \in Seq(Rows(T)) PROVE F(r) \in Seq(Seq(StageSet)) /\ Len(F(r)) = Len(r)
    OBVIOUS
  <2>r. \A x \in Rows(T) : x.stages \in Seq(StageSet)
    BY DEF Rows
  <2>1. \A i \in 1..Len(r) : r[i].stages \in Seq(StageSet)
    BY <2>r, ElementOfSeq
  <2>2. DOMAIN r = 1..Len(r) /\ Len(r) \in Nat
    BY LenProperties
  <2>3. F(r) = [i \in 1..Len(r) |-> r[i].stages]
    BY <2>2
  <2>4. QED BY <2>1, <2>2, <2>3, IsASeq
<1>2. /\ u \in Seq(Rows(T)) /\ DOMAIN u = 1..Len(rows) + 1 /\ DOMAIN rows = 1..Len(rows)
      /\ Len(u) = Len(rows) + 1 /\ Len(rows) \in Nat
      /\ \A i \in 1..Len(rows) : u[i] = rows[i]
  BY AppendProperties, LenProperties
<1>3. u[Len(rows) + 1] = e
  BY AppendProperties
<1>4. F(rows) \in Seq(Seq(StageSet)) /\ F(u) \in Seq(Seq(StageSet)) /\ e.stages \in Seq(StageSet)
  BY <1>1, <1>2 DEF Rows
<1>5. F(u) = Append(F(rows), e.stages)
  <2> DEFINE g == Append(F(rows), e.stages)
  <2>1. Len(F(rows)) = Len(rows) /\ Len(F(u)) = Len(rows) + 1
    BY <1>1, <1>2
  <2>2. /\ g \in Seq(Seq(StageSet)) /\ Len(g) = Len(rows) + 1 /\ g[Len(rows) + 1] = e.stages
        /\ \A i \in 1..Len(rows) : g[i] = F(rows)[i]
    BY <1>4, <2>1, AppendProperties
  <2> HIDE DEF g, u
  <2>3. ASSUME NEW i \in 1..Len(rows) PROVE F(u)[i] = g[i]
    BY <1>2, <2>2
  <2>4. F(u)[Len(rows) + 1] = g[Len(rows) + 1]
    BY <1>2, <1>3, <2>2
  <2>5. \A i \in 1..Len(rows) + 1 : i \in 1..Len(rows) \/ i = Len(rows) + 1
    BY <1>2
  <2> HIDE DEF F
  <2>6. \A i \in 1..Len(rows) + 1 : F(u)[i] = g[i]
    BY <2>3, <2>4, <2>5
  <2>7. F(u) = g
    BY <1>4, <2>1, <2>2, <2>6, SeqEqual
  <2>8. QED BY <2>7 DEF g
<1>6. FlattenSeq(F(u)) = FlattenSeq(F(rows)) \o e.stages /\ FlattenSeq(F(rows)) \in Seq(StageSet)
  <2> HIDE DEF F, u
  <2>1. QED BY <1>4, <1>5, FlattenAppend, FlattenType
<1>7. QED BY <1>6 DEF StageRows

LEMMA SnapshotAppend ==
    ASSUME NEW T, NEW rows \in Seq(Rows(T)), NEW e \in Rows(T)
    PROVE  Snapshot(Append(rows, e)) = Folded(Snapshot(rows), e)
<1> DEFINE u == Append(rows, e)
           hits(r) == Count({i \in DOMAIN r : r[i].cache = "hit"})
           before(r) == Total([i \in DOMAIN r |-> r[i].before])
           after(r) == Total([i \in DOMAIN r |-> r[i].after])
<1>1. u \in Seq(Rows(T)) /\ Len(u) = Len(rows) + 1
  BY AppendProperties
<1>2. RowsBefore(T) \in [Rows(T) -> Int] /\ RowsAfter(T) \in [Rows(T) -> Int]
  BY RowColumns
<1>3. /\ hits(rows) = CountOf(rows, HitRows(T)) /\ before(rows) = SumOf(rows, RowsBefore(T), Rows(T))
      /\ after(rows) = SumOf(rows, RowsAfter(T), Rows(T))
  BY SnapshotIs
<1>4. /\ hits(u) = CountOf(u, HitRows(T)) /\ before(u) = SumOf(u, RowsBefore(T), Rows(T))
      /\ after(u) = SumOf(u, RowsAfter(T), Rows(T))
  BY <1>1, SnapshotIs
<1>5. CountOf(u, HitRows(T)) = CountOf(rows, HitRows(T)) + (IF e \in HitRows(T) THEN 1 ELSE 0)
  BY CountOfAppend
<1>6. SumOf(u, RowsBefore(T), Rows(T)) = SumOf(rows, RowsBefore(T), Rows(T)) + (IF e \in Rows(T) THEN RowsBefore(T)[e] ELSE 0)
  BY <1>2, SumOfAppend
<1>7. SumOf(u, RowsAfter(T), Rows(T)) = SumOf(rows, RowsAfter(T), Rows(T)) + (IF e \in Rows(T) THEN RowsAfter(T)[e] ELSE 0)
  BY <1>2, SumOfAppend
<1>8. /\ e \in HitRows(T) <=> e.cache = "hit"
      /\ RowsBefore(T)[e] = e.before /\ RowsAfter(T)[e] = e.after
  BY DEF HitRows, RowsBefore, RowsAfter
<1> HIDE DEF u, hits, before, after
<1>9. /\ hits(u) = hits(rows) + (IF e.cache = "hit" THEN 1 ELSE 0)
      /\ before(u) = before(rows) + e.before
      /\ after(u) = after(rows) + e.after
  BY <1>3, <1>4, <1>5, <1>6, <1>7, <1>8
<1>10. StageGroups(StageRows(u)) = RaisedByAll(StageGroups(StageRows(rows)), e.stages)
  <2>1. StageRows(rows) \in Seq(StageSet) /\ StageRows(u) = StageRows(rows) \o e.stages
    BY StageRowsAppend DEF u
  <2>2. e.stages \in Seq(StageSet)
    BY DEF Rows
  <2>3. QED BY <2>1, <2>2, RaisedByAllIs
<1>11. TenantGroups(u) = IF e.tenant = NoTenant THEN TenantGroups(rows)
                         ELSE Raised(TenantGroups(rows), e.tenant, OfTenant(e))
  BY TenantGroupsAppend DEF u
<1>12. Snapshot(rows) = [requests |-> Len(rows), hits |-> hits(rows), before |-> before(rows),
                        after |-> after(rows), stages |-> StageGroups(StageRows(rows)),
                        tenants |-> TenantGroups(rows)]
  BY DEF Snapshot, hits, before, after
<1>13. Snapshot(u) = [requests |-> Len(u), hits |-> hits(u), before |-> before(u),
                     after |-> after(u), stages |-> StageGroups(StageRows(u)),
                     tenants |-> TenantGroups(u)]
  BY DEF Snapshot, hits, before, after
<1>14. Snapshot(u) = Folded(Snapshot(rows), e)
  BY <1>1, <1>9, <1>10, <1>11, <1>12, <1>13 DEF Folded
<1>15. QED BY <1>14 DEF u

LEMMA SnapshotEmpty == Snapshot(<< >>) = NoTotals
<1>1. StageRows(<< >>) = << >>
  <2>1. [i \in DOMAIN << >> |-> << >>[i].stages] = << >>
    OBVIOUS
  <2>2. QED BY <2>1, FlattenEmpty DEF StageRows
<1>2. StageGroups(<< >>) = Nothing
  BY DEF StageGroups, Nothing
<1>3. TenantGroups(<< >>) = Nothing
  BY DEF TenantGroups, Nothing
<1>4. [i \in DOMAIN << >> |-> << >>[i].before] = << >> /\ [i \in DOMAIN << >> |-> << >>[i].after] = << >>
  OBVIOUS
<1>5. {i \in DOMAIN << >> : << >>[i].cache = "hit"} = {}
  OBVIOUS
<1>6. QED BY <1>1, <1>2, <1>3, <1>4, <1>5, TotalEmpty, FS_EmptySet DEF Snapshot, NoTotals, Count

-----------------------------------------------------------------------------
(* Spans: a text is what its spans say, one after the other.               *)

SpanTexts(spans) == [i \in DOMAIN spans |-> spans[i].text]

LEMMA SpanTextsType ==
    ASSUME NEW spans \in Seq(SpanSet)
    PROVE  /\ SpanTexts(spans) \in Seq(Texts) /\ Len(SpanTexts(spans)) = Len(spans)
           /\ SpansText(spans) = FlattenSeq(SpanTexts(spans))
           /\ SpansText(spans) \in Texts
<1>1. \A x \in SpanSet : x.text \in Texts
  BY DEF SpanSet
<1>2. \A i \in 1..Len(spans) : spans[i].text \in Texts
  BY <1>1, ElementOfSeq
<1>3. DOMAIN spans = 1..Len(spans) /\ Len(spans) \in Nat
  BY LenProperties
<1>4. SpanTexts(spans) = [i \in 1..Len(spans) |-> spans[i].text]
  BY <1>3 DEF SpanTexts
<1>5. SpanTexts(spans) \in Seq(Texts) /\ Len(SpanTexts(spans)) = Len(spans)
  BY <1>2, <1>3, <1>4, IsASeq
<1>6. SpansText(spans) = FlattenSeq(SpanTexts(spans))
  BY DEF SpansText, SpanTexts
<1>7. SpanTexts(spans) \in Seq(Seq(STRING))
  BY <1>5 DEF Texts
<1>8. QED BY <1>5, <1>6, <1>7, FlattenType DEF Texts

LEMMA SpansTextAppend ==
    ASSUME NEW spans \in Seq(SpanSet), NEW x \in SpanSet
    PROVE  SpansText(Append(spans, x)) = SpansText(spans) \o x.text
<1> DEFINE u == Append(spans, x)
<1>1. /\ u \in Seq(SpanSet) /\ DOMAIN u = 1..Len(spans) + 1 /\ DOMAIN spans = 1..Len(spans)
      /\ Len(u) = Len(spans) + 1 /\ Len(spans) \in Nat
      /\ \A i \in 1..Len(spans) : u[i] = spans[i]
  BY AppendProperties, LenProperties
<1>2. u[Len(spans) + 1] = x
  BY AppendProperties
<1> HIDE DEF u
<1>3. /\ SpanTexts(spans) \in Seq(Texts) /\ Len(SpanTexts(spans)) = Len(spans)
      /\ SpanTexts(u) \in Seq(Texts) /\ Len(SpanTexts(u)) = Len(spans) + 1
      /\ SpansText(spans) = FlattenSeq(SpanTexts(spans)) /\ SpansText(u) = FlattenSeq(SpanTexts(u))
  BY <1>1, SpanTextsType
<1>4. x.text \in Texts
  BY DEF SpanSet
<1>5. SpanTexts(u) = Append(SpanTexts(spans), x.text)
  <2> DEFINE g == Append(SpanTexts(spans), x.text)
  <2>1. /\ g \in Seq(Texts) /\ Len(g) = Len(spans) + 1 /\ g[Len(spans) + 1] = x.text
        /\ \A i \in 1..Len(spans) : g[i] = SpanTexts(spans)[i]
    BY <1>3, <1>4, AppendProperties
  <2> HIDE DEF g
  <2>2. ASSUME NEW i \in 1..Len(spans) PROVE SpanTexts(u)[i] = g[i]
    BY <1>1, <2>1 DEF SpanTexts
  <2>3. SpanTexts(u)[Len(spans) + 1] = g[Len(spans) + 1]
    BY <1>1, <1>2, <2>1 DEF SpanTexts
  <2>4. \A i \in 1..Len(spans) + 1 : i \in 1..Len(spans) \/ i = Len(spans) + 1
    BY <1>1
  <2>5. \A i \in 1..Len(spans) + 1 : SpanTexts(u)[i] = g[i]
    BY <2>2, <2>3, <2>4
  <2>6. SpanTexts(u) = g
    BY <1>3, <2>1, <2>5, SeqEqual
  <2>7. QED BY <2>6 DEF g
<1>6. SpanTexts(spans) \in Seq(Seq(STRING)) /\ x.text \in Seq(STRING)
  BY <1>3, <1>4 DEF Texts
<1>7. FlattenSeq(SpanTexts(u)) = FlattenSeq(SpanTexts(spans)) \o x.text
  BY <1>5, <1>6, FlattenAppend
<1>8. QED BY <1>3, <1>7 DEF u

\* One token more.
Lengthened(spans, t) == [spans EXCEPT ![Len(spans)].text = Append(@, t)]

NextSpans(spans, t) ==
    IF t \in Fences THEN Append(spans, Span(<<t>>, FALSE))
    ELSE IF spans # << >> /\ Last(spans).mutable THEN Lengthened(spans, t)
    ELSE Append(spans, Span(<<t>>, TRUE))

\* The last span is longer by a token.
IsLonger(spans, front, x, y, t) ==
    /\ y.text = Append(x.text, t) /\ y.mutable = x.mutable
    /\ Lengthened(spans, t) = Append(front, y)

LEMMA LongerSpan ==
    ASSUME NEW front \in Seq(SpanSet), NEW x \in SpanSet, NEW t \in STRING, NEW spans,
           spans = Append(front, x)
    PROVE  /\ x.text \in Seq(STRING)
           /\ \E y \in SpanSet : IsLonger(spans, front, x, y, t)
<1> DEFINE y == [x EXCEPT !.text = Append(@, t)]
           u == [spans EXCEPT ![Len(spans)].text = Append(@, t)]
           v == Append(front, y)
<1>x. x.text \in Seq(STRING)
  BY DEF SpanSet, Texts
<1>a. Append(x.text, t) \in Seq(STRING)
  BY <1>x, AppendProperties
<1>1. y \in SpanSet /\ y.text = Append(x.text, t) /\ y.mutable = x.mutable
  BY <1>x, <1>a DEF SpanSet, Texts
<1>2. /\ Len(spans) = Len(front) + 1 /\ Len(front) \in Nat /\ DOMAIN spans = 1..Len(spans)
      /\ spans[Len(spans)] = x /\ \A i \in 1..Len(front) : spans[i] = front[i]
  BY AppendProperties, LenProperties
<1>3. /\ v \in Seq(SpanSet) /\ Len(v) = Len(spans) /\ v[Len(spans)] = y
      /\ \A i \in 1..Len(front) : v[i] = front[i]
  BY <1>1, <1>2, AppendProperties
<1>4. u = [i \in 1..Len(spans) |-> IF i = Len(spans) THEN y ELSE spans[i]]
  BY <1>2
<1>5. u = v
  <2>1. v = [i \in 1..Len(spans) |-> v[i]]
    BY <1>3
  <2>2. \A i \in 1..Len(spans) : v[i] = IF i = Len(spans) THEN y ELSE spans[i]
    BY <1>2, <1>3
  <2> HIDE DEF u, v, y
  <2>3. QED BY <2>1, <2>2, <1>4
<1>6. IsLonger(spans, front, x, y, t)
  BY <1>1, <1>5 DEF IsLonger, Lengthened
<1>7. QED BY <1>x, <1>1, <1>6

LEMMA NextSpansText ==
    ASSUME NEW spans \in Seq(SpanSet), NEW t \in STRING
    PROVE  /\ NextSpans(spans, t) \in Seq(SpanSet)
           /\ NextSpans(spans, t) # << >>
           /\ SpansText(NextSpans(spans, t)) = Append(SpansText(spans), t)
<1>1. SpansText(spans) \in Seq(STRING)
  BY SpanTextsType DEF Texts
<1>2. ASSUME NEW m \in BOOLEAN
      PROVE  /\ Append(spans, Span(<<t>>, m)) \in Seq(SpanSet)
             /\ Append(spans, Span(<<t>>, m)) # << >>
             /\ SpansText(Append(spans, Span(<<t>>, m))) = Append(SpansText(spans), t)
  <2>1. Span(<<t>>, m) \in SpanSet /\ Span(<<t>>, m).text = <<t>>
    BY DEF Span, SpanSet, Texts
  <2>2. SpansText(Append(spans, Span(<<t>>, m))) = SpansText(spans) \o <<t>>
    BY <2>1, SpansTextAppend
  <2>3. SpansText(spans) \o <<t>> = Append(SpansText(spans), t)
    BY <1>1, AppendIsConcat
  <2>4. Append(spans, Span(<<t>>, m)) \in Seq(SpanSet) /\ Append(spans, Span(<<t>>, m)) # << >>
    BY <2>1, AppendProperties
  <2>5. QED BY <2>2, <2>3, <2>4
<1>3. ASSUME spans # << >>
      PROVE  /\ Lengthened(spans, t) \in Seq(SpanSet) /\ Lengthened(spans, t) # << >>
             /\ SpansText(Lengthened(spans, t)) = Append(SpansText(spans), t)
  <2>1. PICK front \in Seq(SpanSet), x \in SpanSet : spans = Append(front, x)
    BY <1>3, SequenceEmptyOrAppend
  <2> DEFINE u == Lengthened(spans, t)
  <2> HIDE DEF u
  <2>2. PICK y \in SpanSet : y.text = Append(x.text, t) /\ u = Append(front, y)
    <3>1. PICK y \in SpanSet : IsLonger(spans, front, x, y, t)
      BY <2>1, LongerSpan
    <3>2. QED BY <3>1 DEF IsLonger, u
  <2>3. u \in Seq(SpanSet) /\ u # << >>
    BY <2>2, AppendProperties
  <2>4. SpansText(u) = SpansText(front) \o y.text
    BY <2>2, SpansTextAppend
  <2>5. SpansText(spans) = SpansText(front) \o x.text /\ SpansText(front) \in Seq(STRING) /\ x.text \in Seq(STRING)
    BY <2>1, SpansTextAppend, SpanTextsType DEF Texts, SpanSet
  <2>6. SpansText(front) \o Append(x.text, t) = Append(SpansText(front) \o x.text, t)
    BY <2>5, ConcatAppend
  <2>7. QED BY <2>2, <2>3, <2>4, <2>5, <2>6 DEF u
<1>4. QED BY <1>2, <1>3 DEF NextSpans

\* A text is read token by token.
LEMMA SpansAre ==
    ASSUME NEW text \in Texts, text # << >>
    PROVE  \E f : /\ Spans(text) = f[Len(text)] /\ f[0] = << >>
                  /\ \A n \in 0..Len(text) - 1 : f[n + 1] = NextSpans(f[n], text[n + 1])
<1> DEFINE N == Len(text)
           X == Seq(SpanSet)
           Next(spans, t) ==
             IF t \in Fences THEN Append(spans, Span(<<t>>, FALSE))
             ELSE IF spans # << >> /\ Last(spans).mutable
             THEN [spans EXCEPT ![Len(spans)].text = Append(@, t)]
             ELSE Append(spans, Span(<<t>>, TRUE))
           G == [p \in X \X (1..N) |-> NextSpans(p[1], text[p[2]])]
           f == CHOOSE g : g = [n \in 0..N |-> IF n = 0 THEN << >> ELSE Next(g[n - 1], text[n])]
<1>1. N \in Nat /\ text \in Seq(STRING) /\ \A n \in 1..N : text[n] \in STRING
  BY LenProperties, ElementOfSeq DEF Texts
<1>2. \A spans, t : Next(spans, t) = NextSpans(spans, t)
  BY DEF NextSpans, Lengthened
<1>3. Spans(text) = f[N]
  BY DEF Spans
<1> HIDE DEF Next
<1>4. G \in [X \X (1..N) -> X] /\ << >> \in X
      /\ \A x \in X, n \in 1..N : G[<<x, n>>] = NextSpans(x, text[n])
  <2>1. \A x \in X, n \in 1..N : NextSpans(x, text[n]) \in X
    BY <1>1, NextSpansText
  <2>2. G \in [X \X (1..N) -> X]
    BY <2>1
  <2>3. \A x \in X, n \in 1..N : G[<<x, n>>] = NextSpans(x, text[n])
    OBVIOUS
  <2>4. QED BY <2>2, <2>3
<1> HIDE DEF G, X
<1>5. PICK h : Recursion(h, X, << >>, N, G)
  <2> HIDE DEF N
  <2>1. QED BY <1>1, <1>4, RecursionExists
<1>6. h = [n \in 0..N |-> IF n = 0 THEN << >> ELSE Next(h[n - 1], text[n])]
  <2>1. \A n \in 0..N : n # 0 => h[n - 1] \in X /\ n \in 1..N
    BY <1>1, <1>5 DEF Recursion
  <2>2. \A n \in 0..N : n # 0 => G[<<h[n - 1], n>>] = Next(h[n - 1], text[n])
    BY <1>2, <1>4, <2>1
  <2>3. QED BY <2>2, <1>5 DEF Recursion
<1>7. f = [n \in 0..N |-> IF n = 0 THEN << >> ELSE Next(f[n - 1], text[n])]
  BY <1>6
<1> HIDE DEF f
<1>8. f[0] = << >>
  BY <1>1, <1>7
<1>9. ASSUME NEW n \in 0..N - 1 PROVE f[n + 1] = NextSpans(f[n], text[n + 1])
  <2>1. n + 1 \in 0..N /\ n + 1 # 0 /\ (n + 1) - 1 = n
    BY <1>1
  <2>2. f[n + 1] = Next(f[(n + 1) - 1], text[n + 1])
    BY <1>7, <2>1
  <2>3. QED BY <1>2, <2>1, <2>2
<1>10. QED BY <1>3, <1>8, <1>9

LEMMA SpansSayText ==
    ASSUME NEW text \in Texts
    PROVE  Spans(text) \in Seq(SpanSet) /\ Spans(text) # << >> /\ SpansText(Spans(text)) = text
<1> DEFINE N == Len(text)
<1>1. N \in Nat /\ text \in Seq(STRING) /\ \A n \in 1..N : text[n] \in STRING
  BY LenProperties, ElementOfSeq DEF Texts
<1>2. CASE text = << >>
  <2>1. Span(<< >>, TRUE) \in SpanSet /\ Span(<< >>, TRUE).text = << >>
    BY DEF Span, SpanSet, Texts
  <2>2. <<Span(<< >>, TRUE)>> = Append(<< >>, Span(<< >>, TRUE)) /\ << >> \in Seq(SpanSet)
    OBVIOUS
  <2>3. SpansText(<<Span(<< >>, TRUE)>>) = SpansText(<< >>) \o << >>
    BY <2>1, <2>2, SpansTextAppend
  <2>4. SpansText(<< >>) = << >>
    <3>1. [i \in DOMAIN << >> |-> << >>[i].text] = << >>
      OBVIOUS
    <3>2. QED BY <3>1, FlattenEmpty DEF SpansText
  <2>5. Spans(text) = <<Span(<< >>, TRUE)>>
    BY <1>2 DEF Spans
  <2>6. <<Span(<< >>, TRUE)>> \in Seq(SpanSet) /\ <<Span(<< >>, TRUE)>> # << >>
    <3>1. \A w \in SpanSet : <<w>> \in Seq(SpanSet) /\ <<w>> # << >>
      OBVIOUS
    <3>2. QED BY <3>1, <2>1
  <2>7. << >> \o << >> = << >>
    OBVIOUS
  <2>8. SpansText(<<Span(<< >>, TRUE)>>) = << >>
    BY <2>3, <2>4, <2>7
  <2>9. QED BY <1>2, <2>5, <2>6, <2>8
<1>3. CASE text # << >>
  <2>1. PICK f : /\ Spans(text) = f[Len(text)] /\ f[0] = << >>
                 /\ \A n \in 0..Len(text) - 1 : f[n + 1] = NextSpans(f[n], text[n + 1])
    BY <1>3, SpansAre
  <2> DEFINE M == {n \in Nat : /\ f[n] \in Seq(SpanSet) /\ SpansText(f[n]) = SubSeq(text, 1, n)
                               /\ n # 0 => f[n] # << >>}
  <2>2. 0 \in M
    <3>1. [i \in DOMAIN << >> |-> << >>[i].text] = << >>
      OBVIOUS
    <3>2. SpansText(<< >>) = << >>
      BY <3>1, FlattenEmpty DEF SpansText
    <3>3. SubSeq(text, 1, 0) = << >>
      BY SubSeqEmpty
    <3>4. << >> \in Seq(SpanSet)
      OBVIOUS
    <3>5. QED BY <2>1, <3>2, <3>3, <3>4
  <2>3. ASSUME NEW n \in Nat, n < Len(text), n \in M PROVE n + 1 \in M
    <3>1. n \in 0..Len(text) - 1 /\ n + 1 # 0 /\ text[n + 1] \in STRING
      BY <1>1, <2>3
    <3>2. f[n + 1] = NextSpans(f[n], text[n + 1])
      BY <2>1, <3>1
    <3>3. SubSeq(text, 1, n + 1) = Append(SubSeq(text, 1, n), text[n + 1])
      BY <1>1, <2>3, Longer
    <3>4. f[n] \in Seq(SpanSet) /\ SpansText(f[n]) = SubSeq(text, 1, n)
      BY <2>3
    <3> DEFINE w == NextSpans(f[n], text[n + 1])
    <3>5. w \in Seq(SpanSet) /\ w # << >> /\ SpansText(w) = Append(SpansText(f[n]), text[n + 1])
      BY <3>1, <3>4, NextSpansText
    <3> HIDE DEF w
    <3>6. f[n + 1] = w
      BY <3>2 DEF w
    <3>7. SpansText(f[n + 1]) = SubSeq(text, 1, n + 1)
      BY <3>3, <3>4, <3>5, <3>6
    <3>8. QED BY <3>1, <3>5, <3>6, <3>7
  <2> HIDE DEF M
  <2>4. N \in M
    BY <1>1, <2>2, <2>3, PartsInduction
  <2>5. SubSeq(text, 1, N) = text
    BY <1>1, SubSeqFull
  <2>6. N # 0
    BY <1>1, <1>3, EmptySeq
  <2>7. QED BY <2>1, <2>4, <2>5, <2>6 DEF M
<1>4. QED BY <1>2, <1>3

-----------------------------------------------------------------------------
(* What there is to read, and to encode.                                   *)

LEMMA AsSeq ==
    ASSUME NEW S, NEW s \in Seq(S), NEW T, NEW F \in [DOMAIN s -> T]
    PROVE  F \in Seq(T) /\ Len(F) = Len(s) /\ DOMAIN F = DOMAIN s
<1>1. DOMAIN s = 1..Len(s) /\ Len(s) \in Nat
  BY LenProperties
<1>2. F = [i \in 1..Len(s) |-> F[i]] /\ \A i \in 1..Len(s) : F[i] \in T
  BY <1>1
<1>3. QED BY <1>1, <1>2, IsASeq

\* Joins hold no more than their parts do.
LEMMA FlattenSubset ==
    ASSUME NEW S, NEW t \in Seq(Seq(S)), NEW u \in Seq(Seq(S)), NEW extra,
           Len(t) = Len(u),
           \A i \in 1..Len(t) : ToSet(t[i]) \subseteq ToSet(u[i]) \union extra
    PROVE  ToSet(FlattenSeq(t)) \subseteq ToSet(FlattenSeq(u)) \union extra
<1>1. DOMAIN t = 1..Len(t) /\ DOMAIN u = 1..Len(t)
  BY LenProperties
<1>2. ToSet(FlattenSeq(t)) = UNION {ToSet(t[i]) : i \in DOMAIN t}
  BY FlattenHolds
<1>3. ToSet(FlattenSeq(u)) = UNION {ToSet(u[i]) : i \in DOMAIN u}
  BY FlattenHolds
<1>4. ASSUME NEW x \in UNION {ToSet(t[i]) : i \in DOMAIN t}
      PROVE  x \in (UNION {ToSet(u[i]) : i \in DOMAIN u}) \union extra
  <2>1. PICK i \in DOMAIN t : x \in ToSet(t[i])
    OBVIOUS
  <2>2. i \in DOMAIN u /\ x \in ToSet(u[i]) \union extra
    BY <1>1, <2>1
  <2>3. QED BY <2>2
<1>5. QED BY <1>2, <1>3, <1>4

BlockTexts(blocks) == [i \in DOMAIN blocks |-> blocks[i].text \o blocks[i].payload]

LEMMA TextsConcat ==
    ASSUME NEW a \in Texts, NEW b \in Texts
    PROVE  a \o b \in Texts
BY ConcatProperties DEF Texts

LEMMA ContentFields ==
    ASSUME NEW c \in Contents
    PROVE  /\ c.kind \in {"none", "text", "blocks", "other"} /\ c.text \in Texts /\ c.blocks \in Seq(Blocks)
           /\ c.kind = "blocks" => c.text = << >>
           /\ c.kind # "blocks" => c.blocks = << >>
           /\ c = [kind |-> c.kind, text |-> c.text, blocks |-> c.blocks]
BY DEF Contents

LEMMA BlockTextsType ==
    ASSUME NEW blocks \in Seq(Blocks)
    PROVE  BlockTexts(blocks) \in Seq(Texts) /\ Len(BlockTexts(blocks)) = Len(blocks)
<1>1. \A b \in Blocks : b.text \in Texts /\ b.payload \in Texts
  BY DEF Blocks
<1>2. \A i \in DOMAIN blocks : blocks[i] \in Blocks
  BY ElementOfSeq, LenProperties
<1>3. \A i \in DOMAIN blocks : blocks[i].text \o blocks[i].payload \in Texts
  BY <1>1, <1>2, TextsConcat
<1>4. BlockTexts(blocks) \in [DOMAIN blocks -> Texts]
  BY <1>3 DEF BlockTexts
<1>5. QED BY <1>4, AsSeq

LEMMA AllTextIs ==
    ASSUME NEW c \in Contents
    PROVE  /\ AllText(c) = c.text \o FlattenSeq(BlockTexts(c.blocks))
           /\ FlattenSeq(BlockTexts(c.blocks)) \in Texts
           /\ AllText(c) \in Texts
           /\ c.kind # "blocks" => AllText(c) = c.text
           /\ c.kind = "blocks" => AllText(c) = FlattenSeq(BlockTexts(c.blocks))
<1>1. /\ c.text \in Texts /\ c.blocks \in Seq(Blocks) /\ c.text \in Seq(STRING)
      /\ c.kind = "blocks" => c.text = << >>
      /\ c.kind # "blocks" => c.blocks = << >>
  BY ContentFields DEF Texts
<1>2. AllText(c) = c.text \o FlattenSeq(BlockTexts(c.blocks))
  BY DEF AllText, BlockTexts
<1>3. BlockTexts(c.blocks) \in Seq(Seq(STRING))
  BY <1>1, BlockTextsType DEF Texts
<1>4. FlattenSeq(BlockTexts(c.blocks)) \in Seq(STRING)
  BY <1>3, FlattenType
<1>5. c.blocks = << >> => FlattenSeq(BlockTexts(c.blocks)) = << >>
  <2>1. [i \in DOMAIN << >> |-> << >>[i].text \o << >>[i].payload] = << >>
    OBVIOUS
  <2>2. QED BY <2>1, FlattenEmpty DEF BlockTexts
<1> DEFINE x == FlattenSeq(BlockTexts(c.blocks))
<1>6. c.text \o x \in Texts /\ x \in Texts
  BY <1>1, <1>4, TextsConcat DEF Texts
<1> HIDE DEF x
<1>7. c.kind # "blocks" => c.text \o x = c.text
  BY <1>1, <1>5, ConcatEmptySeq DEF x
<1>8. c.kind = "blocks" => c.text \o x = x
  BY <1>1, <1>6, ConcatEmptySeq DEF Texts
<1>9. QED BY <1>2, <1>6, <1>7, <1>8 DEF x

LEMMA MessageFields ==
    ASSUME NEW m \in Messages
    PROVE  /\ m.role \in STRING /\ m.spans \in Seq(SpanSet)
           /\ m.raw # NoRaw => /\ m.spans = << >> /\ m.raw \in Items
                               /\ m.raw.role \in STRING /\ m.raw.content \in Contents
           /\ m = [role |-> m.role, spans |-> m.spans, raw |-> m.raw]
BY DEF Messages, Items

LEMMA QuotedType ==
    ASSUME NEW text \in Texts
    PROVE  Quoted(text) \in Texts
<1>1. text \in Seq(STRING) /\ Escape \in STRING
  BY TokenAssumption DEF Texts
<1>2. \A i \in DOMAIN text : text[i] \in STRING
  BY <1>1, LenProperties, ElementOfSeq
<1>3. Quoted(text) \in [DOMAIN text -> STRING]
  BY <1>1, <1>2 DEF Quoted
<1>4. QED BY <1>1, <1>3, AsSeq DEF Texts

LEMMA SingleSeq == ASSUME NEW S, NEW e \in S PROVE <<e>> \in Seq(S)
OBVIOUS

LEMMA SingleText == ASSUME NEW t \in STRING PROVE <<t>> \in Texts
BY SingleSeq DEF Texts

LEMMA BlockJsonType ==
    ASSUME NEW block \in Blocks
    PROVE  BlockJson(block) \in Texts
<1>1. /\ block.text \in Texts /\ block.payload \in Texts
      /\ block.id \in STRING /\ block.type \in STRING
  BY DEF Blocks
<1> DEFINE a == IF block.cached THEN <<CacheControl>> ELSE << >>
           b == Quoted(block.payload)
           c == <<block.id>>
           d == Quoted(block.text)
           e == <<block.type>>
<1>2. a \in Texts
  <2>1. CacheControl \in STRING
    BY TokenAssumption
  <2>2. << >> \in Texts
    BY EmptySeq DEF Texts
  <2>3. QED BY <2>1, <2>2, SingleText
<1>3. b \in Texts /\ c \in Texts /\ d \in Texts /\ e \in Texts
  BY <1>1, QuotedType, SingleText
<1>4. BlockJson(block) = a \o b \o c \o d \o e
  BY DEF BlockJson
<1> HIDE DEF a, b, c, d, e
<1>5. a \o b \in Texts
  BY <1>2, <1>3, TextsConcat
<1>6. a \o b \o c \in Texts
  BY <1>3, <1>5, TextsConcat
<1>7. a \o b \o c \o d \in Texts
  BY <1>3, <1>6, TextsConcat
<1>8. a \o b \o c \o d \o e \in Texts
  BY <1>3, <1>7, TextsConcat
<1>9. QED BY <1>4, <1>8

LEMMA ItemJsonType ==
    ASSUME NEW item \in Items
    PROVE  ItemJson(item) \in Texts
<1> DEFINE text == item.content.text
           blocks == item.content.blocks
           parts == [i \in DOMAIN blocks |-> BlockJson(blocks[i])]
<1>1. text \in Texts /\ blocks \in Seq(Blocks) /\ item.role \in STRING
  <2>1. item.role \in STRING /\ item.content \in Contents
    BY DEF Items
  <2>2. QED BY <2>1, ContentFields
<1>2. ItemJson(item) = <<Brace>> \o Quoted(text) \o FlattenSeq(parts) \o <<item.role>>
  BY DEF ItemJson
<1> HIDE DEF text, blocks
<1>3. parts \in [DOMAIN blocks -> Texts]
  <2>1. \A i \in DOMAIN blocks : blocks[i] \in Blocks
    BY <1>1, LenProperties, ElementOfSeq
  <2>2. QED BY <2>1, BlockJsonType
<1> HIDE DEF parts
<1>4. FlattenSeq(parts) \in Texts
  BY <1>1, <1>3, AsSeq, FlattenType DEF Texts
<1> DEFINE a == <<Brace>>
           b == Quoted(text)
           c == FlattenSeq(parts)
           d == <<item.role>>
<1>5. a \in Texts /\ b \in Texts /\ d \in Texts
  <2>1. Brace \in STRING
    BY TokenAssumption
  <2>2. QED BY <1>1, <2>1, QuotedType, SingleText
<1>6. c \in Texts
  BY <1>4
<1> HIDE DEF a, b, c, d
<1>7. a \o b \in Texts
  BY <1>5, TextsConcat
<1>8. a \o b \o c \in Texts
  BY <1>6, <1>7, TextsConcat
<1>9. a \o b \o c \o d \in Texts
  BY <1>5, <1>8, TextsConcat
<1>10. QED BY <1>2, <1>9 DEF a, b, c, d

LEMMA MessageTextType ==
    ASSUME NEW m \in Messages
    PROVE  MessageText(m) \in Texts
<1>1. m.raw = NoRaw => SpansText(m.spans) \in Texts
  BY MessageFields, SpanTextsType
<1>2. m.raw # NoRaw => ItemJson(m.raw) \in Texts
  BY MessageFields, ItemJsonType
<1>3. QED BY <1>1, <1>2 DEF MessageText

LEMMA RequestFields ==
    ASSUME NEW r \in Requests
    PROVE  /\ r.dialect \in Dialects /\ r.system \in Texts \union {NoSystem}
           /\ r.messages \in Seq(Messages) /\ r.tools \in Texts /\ r.breakpoint \in Nat
           /\ DOMAIN r.messages = 1..Len(r.messages) /\ Len(r.messages) \in Nat
           /\ \A i \in DOMAIN r.messages : r.messages[i] \in Messages
           /\ r = [dialect |-> r.dialect, system |-> r.system, messages |-> r.messages,
                   tools |-> r.tools, breakpoint |-> r.breakpoint]
<1>1. /\ r.dialect \in Dialects /\ r.system \in Texts \union {NoSystem}
      /\ r.messages \in Seq(Messages) /\ r.tools \in Texts /\ r.breakpoint \in Nat
      /\ r = [dialect |-> r.dialect, system |-> r.system, messages |-> r.messages,
              tools |-> r.tools, breakpoint |-> r.breakpoint]
  BY DEF Requests
<1>2. DOMAIN r.messages = 1..Len(r.messages) /\ Len(r.messages) \in Nat
  BY <1>1, LenProperties
<1>3. \A i \in DOMAIN r.messages : r.messages[i] \in Messages
  BY <1>1, <1>2, ElementOfSeq
<1>4. QED BY <1>1, <1>2, <1>3

MessageTexts(messages) == [i \in DOMAIN messages |-> MessageText(messages[i])]
SystemText(r) == IF r.system = NoSystem THEN << >> ELSE r.system

LEMMA MessageTextsType ==
    ASSUME NEW messages \in Seq(Messages)
    PROVE  /\ MessageTexts(messages) \in Seq(Seq(STRING)) /\ Len(MessageTexts(messages)) = Len(messages)
           /\ FlattenSeq(MessageTexts(messages)) \in Texts
<1>1. \A i \in DOMAIN messages : MessageText(messages[i]) \in Texts
  BY MessageTextType, ElementOfSeq, LenProperties
<1>2. MessageTexts(messages) \in [DOMAIN messages -> Texts]
  BY <1>1 DEF MessageTexts
<1>3. MessageTexts(messages) \in Seq(Texts) /\ Len(MessageTexts(messages)) = Len(messages)
  BY <1>2, AsSeq
<1>4. MessageTexts(messages) \in Seq(Seq(STRING))
  BY <1>3 DEF Texts
<1>5. QED BY <1>3, <1>4, FlattenType DEF Texts

LEMMA RequestTextIs ==
    ASSUME NEW r \in Requests
    PROVE  /\ RequestText(r) = SystemText(r) \o FlattenSeq(MessageTexts(r.messages))
           /\ SystemText(r) \in Texts
           /\ RequestText(r) \in Texts
           /\ ToSet(RequestText(r)) = ToSet(SystemText(r)) \union ToSet(FlattenSeq(MessageTexts(r.messages)))
<1>1. SystemText(r) \in Texts
  <2>1. << >> \in Texts
    BY DEF Texts
  <2>2. QED BY <2>1, RequestFields DEF SystemText
<1>2. FlattenSeq(MessageTexts(r.messages)) \in Texts
  BY RequestFields, MessageTextsType
<1>3. RequestText(r) = SystemText(r) \o FlattenSeq(MessageTexts(r.messages))
  BY DEF RequestText, SystemText, MessageTexts
<1> DEFINE x == FlattenSeq(MessageTexts(r.messages))
<1> HIDE DEF x
<1>4. SystemText(r) \o x \in Texts
  BY <1>1, <1>2, TextsConcat DEF x
<1>5. ToSet(SystemText(r) \o x) = ToSet(SystemText(r)) \union ToSet(x)
  BY <1>1, <1>2, ConcatHolds DEF x, Texts
<1>6. QED BY <1>1, <1>3, <1>4, <1>5 DEF x

-----------------------------------------------------------------------------
(* Parsing.                                                                *)

Bodies == [system : Contents, items : Seq(Items), tools : Texts]

IsTextItem(dialect, item) == item.role \in TextRoles(dialect) /\ item.content.kind = "text"

LEMMA ItemFields ==
    ASSUME NEW item \in Items
    PROVE  /\ item.role \in STRING /\ item.content \in Contents
           /\ item = [role |-> item.role, content |-> item.content]
BY DEF Items

LEMMA MessageOfIs ==
    ASSUME NEW dialect, NEW item \in Items, NEW structured,
           NEW m, m = MessageOf(dialect, item, structured), m # Unread
    PROVE  /\ m \in Messages
           /\ m.raw = NoRaw => /\ IsTextItem(dialect, item) /\ m.role = item.role
                               /\ m.spans = Spans(item.content.text)
                               /\ MessageText(m) = item.content.text
           /\ m.raw # NoRaw => /\ ~IsTextItem(dialect, item) /\ m.raw = item
                               /\ m.role = RoleOf(dialect, item.role)
<1>1. item.role \in STRING /\ item.content.text \in Texts
  BY ItemFields, ContentFields
<1>2. NoRaw \notin Items
  BY TokenAssumption
<1>3. CASE IsTextItem(dialect, item)
  <2>1. m = [role |-> item.role, spans |-> Spans(item.content.text), raw |-> NoRaw]
    BY <1>3 DEF MessageOf, IsTextItem
  <2>2. Spans(item.content.text) \in Seq(SpanSet) /\ SpansText(Spans(item.content.text)) = item.content.text
    BY <1>1, SpansSayText
  <2>3. m \in Messages
    BY <1>1, <2>1, <2>2 DEF Messages
  <2>4. MessageText(m) = item.content.text
    BY <2>1, <2>2 DEF MessageText
  <2>5. QED BY <1>3, <2>1, <2>3, <2>4
<1>4. CASE ~IsTextItem(dialect, item)
  <2>1. m = [role |-> RoleOf(dialect, item.role), spans |-> << >>, raw |-> item]
    BY <1>4 DEF MessageOf, IsTextItem
  <2>2. RoleOf(dialect, item.role) \in STRING
    <3>1. "user" \in STRING
      BY TokenAssumption
    <3>2. RoleOf(dialect, item.role) = "user" \/ RoleOf(dialect, item.role) = item.role
      BY DEF RoleOf
    <3>3. QED BY <1>1, <3>1, <3>2
  <2>3. m \in Messages
    BY <2>1, <2>2 DEF Messages
  <2>4. QED BY <1>2, <1>4, <2>1, <2>3
<1>5. QED BY <1>3, <1>4

\* What reading a body gives, when it can be read.
\* A request that a body was read as.
Reads(r, dialect, body, structured) ==
    /\ r \in Requests
    /\ dialect \in Dialects
    /\ dialect # "openai" => body.system.kind # "other"
    /\ r.dialect = dialect /\ r.tools = body.tools /\ r.breakpoint = 0
    /\ r.system = IF dialect = "openai" \/ body.system.kind = "none"
                  THEN NoSystem ELSE body.system.text
    /\ Len(r.messages) = Len(body.items) /\ DOMAIN r.messages = DOMAIN body.items
    /\ \A i \in DOMAIN body.items :
          /\ Known(dialect, body.items[i].role) /\ body.items[i] \in Items
          /\ r.messages[i] = MessageOf(dialect, body.items[i], structured)
          /\ r.messages[i] # Unread

LEMMA ParsedIs ==
    ASSUME NEW dialect, NEW body \in Bodies, NEW structured, Parsed(dialect, body, structured) # Unread
    PROVE  Reads(Parsed(dialect, body, structured), dialect, body, structured)
<1> SUFFICES ASSUME NEW r, r = Parsed(dialect, body, structured), r # Unread
             PROVE  Reads(r, dialect, body, structured)
  OBVIOUS
<1> DEFINE messages == [i \in DOMAIN body.items |-> MessageOf(dialect, body.items[i], structured)]
           system == IF dialect = "openai" \/ body.system.kind = "none"
                         THEN NoSystem ELSE body.system.text
<1>1. /\ dialect \in Dialects
      /\ dialect # "openai" => body.system.kind # "other"
      /\ \A i \in DOMAIN body.items : Known(dialect, body.items[i].role) /\ messages[i] # Unread
      /\ r = [dialect |-> dialect, system |-> system, messages |-> messages,
              tools |-> body.tools, breakpoint |-> 0]
  BY DEF Parsed
<1>2. /\ body.items \in Seq(Items) /\ body.tools \in Texts /\ body.system.text \in Texts
      /\ \A i \in DOMAIN body.items : body.items[i] \in Items
  <2>1. body.items \in Seq(Items) /\ body.tools \in Texts /\ body.system \in Contents
    BY DEF Bodies
  <2>2. QED BY <2>1, ContentFields, ElementOfSeq, LenProperties
<1>3. \A i \in DOMAIN body.items : messages[i] \in Messages
  BY <1>1, <1>2, MessageOfIs
<1>4. messages \in Seq(Messages) /\ Len(messages) = Len(body.items) /\ DOMAIN messages = DOMAIN body.items
  <2>1. messages \in [DOMAIN body.items -> Messages]
    BY <1>3
  <2> HIDE DEF messages
  <2>2. QED BY <1>2, <2>1, AsSeq
<1>5. \A i \in DOMAIN body.items : messages[i] = MessageOf(dialect, body.items[i], structured)
  OBVIOUS
<1>6. system \in Texts \union {NoSystem}
  BY <1>2
<1> HIDE DEF messages, system
<1>7. r \in Requests
  BY <1>1, <1>2, <1>4, <1>6 DEF Requests
<1>8. QED BY <1>1, <1>2, <1>4, <1>5, <1>7 DEF system, Reads

-----------------------------------------------------------------------------
(* What a rewriting pass does to a text: some words it may drop are gone,  *)
(* in their order, and nothing is added.                                   *)

Droppable(s) == Blanks \union (IF s.filler THEN s.fillers ELSE {})
                       \union (IF s.learned = "on" THEN Dull ELSE {})

\* The tokens a pass drops.
Drops(pass, s) ==
    CASE pass = "lossless" -> Blanks
      [] pass = "filler" -> Blanks \union s.fillers
      [] pass = "learned" -> Dull

Rewriters == {"lossless", "filler", "learned"}

Alike(a, b, dropped) == Sifted(a, dropped) = Sifted(b, dropped) /\ ToSet(b) \subseteq ToSet(a)

LEMMA KeptAlike ==
    ASSUME NEW a \in Texts, NEW places, NEW dropped,
           \A i \in DOMAIN a : a[i] \notin dropped => i \in places
    PROVE  /\ Kept(a, places) \in Texts
           /\ Alike(a, Kept(a, places), dropped)
<1>1. a \in Seq(STRING)
  BY DEF Texts
<1>2. Kept(a, places) \in Seq(STRING)
  BY <1>1, KeptType
<1>3. ToSet(Kept(a, places)) = {a[i] : i \in (DOMAIN a \intersect places)}
  BY <1>1, KeptHolds
<1>4. Sifted(Kept(a, places), dropped) = Sifted(a, dropped)
  BY <1>1, SiftedKept
<1>5. {a[i] : i \in (DOMAIN a \intersect places)} \subseteq ToSet(a)
  BY DEF ToSet
<1>6. QED BY <1>2, <1>3, <1>4, <1>5 DEF Texts, Alike

LEMMA AlikeTransitive ==
    ASSUME NEW a, NEW b, NEW c, NEW dropped, Alike(a, b, dropped), Alike(b, c, dropped)
    PROVE  Alike(a, c, dropped)
BY DEF Alike

LEMMA RewrittenProseIs ==
    ASSUME NEW text \in Texts, NEW s, NEW pass \in Rewriters, NEW dropped,
           Drops(pass, s) \subseteq dropped
    PROVE  /\ RewrittenProse(pass, text, s) \in Texts
           /\ Alike(text, RewrittenProse(pass, text, s), dropped)
<1>0. text \in Seq(STRING) /\ Len(text) \in Nat /\ DOMAIN text = 1..Len(text)
  BY LenProperties DEF Texts
<1>1. CASE pass = "lossless"
  <2> DEFINE Trailing(i) == \E j \in i..Len(text) :
                          /\ \A k \in i..j : text[k] = Space
                          /\ j = Len(text) \/ text[j + 1] = Newline
             solid == {i \in DOMAIN text : ~Trailing(i)}
             lines == LinesStripped(text)
             few == {i \in DOMAIN lines : i < 3 \/ \E j \in i - 2..i : lines[j] # Newline}
  <2>1. Blanks \subseteq dropped
    BY <1>1 DEF Drops
  <2>2. \A i \in DOMAIN text : text[i] \notin dropped => i \in solid
    <3> SUFFICES ASSUME NEW i \in DOMAIN text, Trailing(i) PROVE text[i] \in Blanks
      BY <2>1
    <3>1. PICK j \in i..Len(text) : \A k \in i..j : text[k] = Space
      OBVIOUS
    <3>2. i \in i..j
      <4>1. i \in 1..Len(text)
        BY <1>0
      <4>2. \A n \in Nat : \A x \in 1..n : \A y \in x..n : x \in x..y
        OBVIOUS
      <4>3. QED BY <1>0, <4>1, <4>2
    <3>3. QED BY <3>1, <3>2 DEF Blanks
  <2>3. lines = Kept(text, solid)
    BY DEF LinesStripped
  <2> HIDE DEF solid, lines
  <2>4. lines \in Texts /\ Alike(text, lines, dropped)
    BY <2>2, <2>3, KeptAlike
  <2>5. lines \in Seq(STRING) /\ Len(lines) \in Nat /\ DOMAIN lines = 1..Len(lines)
    BY <2>4, LenProperties DEF Texts
  <2>6. \A i \in DOMAIN lines : lines[i] \notin dropped => i \in few
    <3> SUFFICES ASSUME NEW i \in DOMAIN lines, lines[i] # Newline PROVE i \in few
      BY <2>1 DEF Blanks
    <3>1. i \in i - 2..i
      BY <2>5
    <3>2. QED BY <3>1
  <2>7. RewrittenProse(pass, text, s) = Kept(lines, few)
    BY <1>1 DEF RewrittenProse, NormaliseWhitespace, lines
  <2> HIDE DEF few
  <2>8. Kept(lines, few) \in Texts /\ Alike(lines, Kept(lines, few), dropped)
    BY <2>4, <2>6, KeptAlike
  <2>9. QED BY <2>4, <2>7, <2>8, AlikeTransitive
<1>2. CASE pass = "filler"
  <2> DEFINE Whole(i) == \A j \in {i - 1, i + 1} \intersect DOMAIN text : text[j] \in Blanks
             Stays(i) == text[i] \notin Blanks /\ ~(Whole(i) /\ text[i] \in s.fillers)
             Parts(i) == /\ i < Len(text) /\ Stays(i + 1)
                         /\ \E j \in 1..i - 1 : Stays(j) /\ Newline \notin {text[k] : k \in j..i}
             places == {i \in DOMAIN text :
                          text[i] = Newline \/ Stays(i) \/ (text[i] = Space /\ Parts(i))}
  <2>1. Blanks \union s.fillers \subseteq dropped
    BY <1>2 DEF Drops
  <2>2. RewrittenProse(pass, text, s) = Kept(text, places)
    BY <1>2 DEF RewrittenProse, FilterProse
  <2>3. \A i \in DOMAIN text : text[i] \notin dropped => i \in places
    BY <2>1
  <2> HIDE DEF places
  <2>4. QED BY <2>2, <2>3, KeptAlike
<1>3. CASE pass = "learned"
  <2> DEFINE places == {i \in DOMAIN text : text[i] \notin Dull}
  <2>1. Dull \subseteq dropped
    BY <1>3 DEF Drops
  <2>2. RewrittenProse(pass, text, s) = Kept(text, places)
    BY <1>3 DEF RewrittenProse, Reduced
  <2>3. \A i \in DOMAIN text : text[i] \notin dropped => i \in places
    BY <2>1
  <2> HIDE DEF places
  <2>4. QED BY <2>2, <2>3, KeptAlike
<1>4. QED BY <1>1, <1>2, <1>3 DEF Rewriters

\* Span by span: what may be changed is changed alike, and the rest stays.
SpansAlike(a, b, dropped) ==
    /\ Len(a) = Len(b)
    /\ \A i \in DOMAIN a : /\ a[i].mutable = b[i].mutable
                           /\ Alike(a[i].text, b[i].text, dropped)

LEMMA RewrittenSpansAre ==
    ASSUME NEW spans \in Seq(SpanSet), NEW s, NEW pass \in Rewriters, NEW dropped,
           Drops(pass, s) \subseteq dropped
    PROVE  /\ RewrittenSpans(pass, spans, s) \in Seq(SpanSet)
           /\ SpansAlike(spans, RewrittenSpans(pass, spans, s), dropped)
<1> DEFINE R == RewrittenSpans(pass, spans, s)
           New(i) == IF spans[i].mutable THEN Span(RewrittenProse(pass, spans[i].text, s), TRUE)
                     ELSE spans[i]
<1>1. R = [i \in DOMAIN spans |-> New(i)]
  BY DEF RewrittenSpans
<1>2. ASSUME NEW i \in DOMAIN spans
      PROVE  /\ New(i) \in SpanSet
             /\ New(i).mutable = spans[i].mutable
             /\ Alike(spans[i].text, New(i).text, dropped)
  <2>1. spans[i] \in SpanSet
    BY ElementOfSeq, LenProperties
  <2>2. spans[i].text \in Texts /\ spans[i].mutable \in BOOLEAN
    BY <2>1 DEF SpanSet
  <2>3. /\ RewrittenProse(pass, spans[i].text, s) \in Texts
        /\ Alike(spans[i].text, RewrittenProse(pass, spans[i].text, s), dropped)
    BY <2>2, RewrittenProseIs
  <2>4. CASE spans[i].mutable
    <3>1. New(i) = [text |-> RewrittenProse(pass, spans[i].text, s), mutable |-> TRUE]
      BY <2>4 DEF Span
    <3> HIDE DEF New
    <3>2. New(i) \in SpanSet /\ New(i).text = RewrittenProse(pass, spans[i].text, s) /\ New(i).mutable = TRUE
      BY <2>3, <3>1 DEF SpanSet
    <3>3. spans[i].mutable = TRUE
      BY <2>2, <2>4
    <3>4. QED BY <2>3, <3>2, <3>3
  <2>5. CASE ~spans[i].mutable
    BY <2>1, <2>5 DEF Alike
  <2>6. QED BY <2>4, <2>5
<1> HIDE DEF New
<1>3. R \in [DOMAIN spans -> SpanSet]
  BY <1>1, <1>2
<1>4. R \in Seq(SpanSet) /\ Len(R) = Len(spans)
  <2> HIDE DEF R
  <2>1. QED BY <1>3, AsSeq
<1>5. \A i \in DOMAIN spans : R[i] = New(i)
  BY <1>1
<1>6. QED BY <1>2, <1>4, <1>5 DEF SpansAlike, R

LEMMA SpansAlikeSay ==
    ASSUME NEW a \in Seq(SpanSet), NEW b \in Seq(SpanSet), NEW dropped, SpansAlike(a, b, dropped)
    PROVE  Alike(SpansText(a), SpansText(b), dropped)
<1> DEFINE t == SpanTexts(a)
           u == SpanTexts(b)
<1>1. /\ t \in Seq(Texts) /\ Len(t) = Len(a) /\ SpansText(a) = FlattenSeq(t)
      /\ u \in Seq(Texts) /\ Len(u) = Len(b) /\ SpansText(b) = FlattenSeq(u)
  BY SpanTextsType
<1>2. t \in Seq(Seq(STRING)) /\ u \in Seq(Seq(STRING))
  BY <1>1 DEF Texts
<1>3. Len(a) = Len(b) /\ \A i \in DOMAIN a : Alike(a[i].text, b[i].text, dropped)
  BY DEF SpansAlike
<1>4. DOMAIN a = 1..Len(a) /\ DOMAIN b = 1..Len(a)
  BY <1>3, LenProperties
<1>5. \A i \in 1..Len(a) : t[i] = a[i].text /\ u[i] = b[i].text
  BY <1>4 DEF SpanTexts
<1> HIDE DEF t, u
<1>6. \A i \in 1..Len(t) : Sifted(t[i], dropped) = Sifted(u[i], dropped)
  BY <1>1, <1>3, <1>4, <1>5 DEF Alike
<1>7. Sifted(FlattenSeq(t), dropped) = Sifted(FlattenSeq(u), dropped)
  BY <1>1, <1>2, <1>3, <1>6, SiftedFlatten
<1>8. \A i \in 1..Len(u) : ToSet(u[i]) \subseteq ToSet(t[i]) \union {}
  BY <1>1, <1>3, <1>4, <1>5 DEF Alike
<1>9. ToSet(FlattenSeq(u)) \subseteq ToSet(FlattenSeq(t)) \union {}
  BY <1>1, <1>2, <1>3, <1>8, FlattenSubset
<1>10. QED BY <1>1, <1>7, <1>9 DEF Alike

LEMMA RewrittenTextIs ==
    ASSUME NEW text \in Texts, NEW s, NEW pass \in Rewriters, NEW dropped,
           Drops(pass, s) \subseteq dropped
    PROVE  /\ RewrittenText(pass, text, s) \in Texts
           /\ Alike(text, RewrittenText(pass, text, s), dropped)
<1>1. Spans(text) \in Seq(SpanSet) /\ SpansText(Spans(text)) = text
  BY SpansSayText
<1>2. /\ RewrittenSpans(pass, Spans(text), s) \in Seq(SpanSet)
      /\ SpansAlike(Spans(text), RewrittenSpans(pass, Spans(text), s), dropped)
  BY <1>1, RewrittenSpansAre
<1>3. Alike(SpansText(Spans(text)), SpansText(RewrittenSpans(pass, Spans(text), s)), dropped)
  BY <1>1, <1>2, SpansAlikeSay
<1>4. SpansText(RewrittenSpans(pass, Spans(text), s)) \in Texts
  BY <1>2, SpanTextsType
<1>5. QED BY <1>1, <1>3, <1>4 DEF RewrittenText

-----------------------------------------------------------------------------
(* What the chain may make of a request, up to the last pass: the same     *)
(* messages, whose texts are alike, and whose results may be stubs.        *)

BlockAlike(a, b, s) ==
    /\ a.type = b.type /\ a.id = b.id /\ a.cached = b.cached
    /\ IF a.type = "text" THEN Alike(a.text, b.text, Droppable(s)) ELSE a.text = b.text
    /\ a.payload = b.payload \/ (s.elide /\ a.type = "tool_result" /\ b.payload = Stub)

BlocksAlike(a, b, s) == Len(a) = Len(b) /\ \A i \in DOMAIN a : BlockAlike(a[i], b[i], s)

MessageAlike(a, b, s) ==
    /\ a.role = b.role
    /\ IF a.raw = NoRaw THEN b.raw = NoRaw /\ SpansAlike(a.spans, b.spans, Droppable(s))
       ELSE /\ b.raw # NoRaw /\ a.raw.role = b.raw.role
            /\ a.raw.content.kind = b.raw.content.kind /\ a.raw.content.text = b.raw.content.text
            /\ BlocksAlike(a.raw.content.blocks, b.raw.content.blocks, s)

RequestAlike(a, b, s) ==
    /\ a.dialect = b.dialect /\ a.tools = b.tools
    /\ a.breakpoint = 0 => b.breakpoint = 0
    /\ a.system = NoSystem <=> b.system = NoSystem
    /\ a.system # NoSystem => Alike(a.system, b.system, Droppable(s))
    /\ Len(a.messages) = Len(b.messages)
    /\ \A i \in DOMAIN a.messages : MessageAlike(a.messages[i], b.messages[i], s)

LEMMA BlockAlikeReflexive == ASSUME NEW a, NEW s PROVE BlockAlike(a, a, s)
BY DEF BlockAlike, Alike

LEMMA MessageAlikeReflexive == ASSUME NEW a, NEW s PROVE MessageAlike(a, a, s)
BY BlockAlikeReflexive DEF MessageAlike, BlocksAlike, SpansAlike, Alike

LEMMA RequestAlikeReflexive == ASSUME NEW a, NEW s PROVE RequestAlike(a, a, s)
BY MessageAlikeReflexive DEF RequestAlike, Alike

LEMMA BlockAlikeTransitive ==
    ASSUME NEW a, NEW b, NEW c, NEW s, BlockAlike(a, b, s), BlockAlike(b, c, s)
    PROVE  BlockAlike(a, c, s)
BY AlikeTransitive DEF BlockAlike

LEMMA MessageAlikeTransitive ==
    ASSUME NEW a \in Messages, NEW b \in Messages, NEW c \in Messages, NEW s,
           MessageAlike(a, b, s), MessageAlike(b, c, s)
    PROVE  MessageAlike(a, c, s)
<1>1. CASE a.raw = NoRaw
  <2>1. /\ b.raw = NoRaw /\ c.raw = NoRaw /\ a.role = c.role
        /\ SpansAlike(a.spans, b.spans, Droppable(s)) /\ SpansAlike(b.spans, c.spans, Droppable(s))
    BY <1>1 DEF MessageAlike
  <2>2. DOMAIN a.spans = DOMAIN b.spans
    BY <2>1, MessageFields, LenProperties DEF SpansAlike
  <2>3. SpansAlike(a.spans, c.spans, Droppable(s))
    BY <2>1, <2>2, AlikeTransitive DEF SpansAlike
  <2>4. QED BY <1>1, <2>1, <2>3 DEF MessageAlike
<1>2. CASE a.raw # NoRaw
  <2> DEFINE A == a.raw.content
             B == b.raw.content
             C == c.raw.content
  <2>1. /\ b.raw # NoRaw /\ c.raw # NoRaw /\ a.role = c.role /\ a.raw.role = c.raw.role
        /\ A.kind = C.kind /\ A.text = C.text
        /\ BlocksAlike(A.blocks, B.blocks, s) /\ BlocksAlike(B.blocks, C.blocks, s)
    BY <1>2 DEF MessageAlike
  <2>2. A \in Contents /\ B \in Contents
    BY <1>2, <2>1, MessageFields
  <2> HIDE DEF A, B, C
  <2>3. DOMAIN A.blocks = DOMAIN B.blocks
    BY <2>1, <2>2, ContentFields, LenProperties DEF BlocksAlike
  <2>4. BlocksAlike(A.blocks, C.blocks, s)
    BY <2>1, <2>3, BlockAlikeTransitive DEF BlocksAlike
  <2>5. QED BY <1>2, <2>1, <2>4 DEF MessageAlike, A, C
<1>3. QED BY <1>1, <1>2

LEMMA RequestAlikeTransitive ==
    ASSUME NEW a \in Requests, NEW b \in Requests, NEW c \in Requests, NEW s,
           RequestAlike(a, b, s), RequestAlike(b, c, s)
    PROVE  RequestAlike(a, c, s)
<1>1. DOMAIN a.messages = DOMAIN b.messages /\ DOMAIN a.messages = DOMAIN c.messages
  BY RequestFields DEF RequestAlike
<1>2. \A i \in DOMAIN a.messages :
         /\ a.messages[i] \in Messages /\ b.messages[i] \in Messages /\ c.messages[i] \in Messages
         /\ MessageAlike(a.messages[i], b.messages[i], s)
         /\ MessageAlike(b.messages[i], c.messages[i], s)
  BY <1>1, RequestFields DEF RequestAlike
<1>3. \A i \in DOMAIN a.messages : MessageAlike(a.messages[i], c.messages[i], s)
  BY <1>2, MessageAlikeTransitive
<1>4. a.system # NoSystem => Alike(a.system, c.system, Droppable(s))
  BY AlikeTransitive DEF RequestAlike
<1>5. QED BY <1>3, <1>4 DEF RequestAlike

Reblocked(m, blocks) == [m EXCEPT !.raw.content.blocks = blocks]

\* A structured message with other blocks.
LEMMA WithBlocks ==
    ASSUME NEW m \in Messages, m.raw # NoRaw, NEW blocks \in Seq(Blocks),
           Len(blocks) = Len(m.raw.content.blocks),
           NEW n, n = Reblocked(m, blocks)
    PROVE  /\ n \in Messages /\ n.role = m.role /\ n.raw # NoRaw
           /\ n.raw.role = m.raw.role /\ n.raw.content.kind = m.raw.content.kind
           /\ n.raw.content.text = m.raw.content.text /\ n.raw.content.blocks = blocks
<1> DEFINE c == m.raw.content
           d == [kind |-> c.kind, text |-> c.text, blocks |-> blocks]
           item == [role |-> m.raw.role, content |-> d]
<1>1. /\ m.role \in STRING /\ m.spans = << >> /\ m.raw \in Items /\ m.raw.role \in STRING
      /\ c \in Contents /\ m = [role |-> m.role, spans |-> m.spans, raw |-> m.raw]
  BY MessageFields
<1>2. m.raw = [role |-> m.raw.role, content |-> c]
  BY <1>1, ItemFields
<1> HIDE DEF c
<1>3. /\ c.kind \in {"none", "text", "blocks", "other"} /\ c.text \in Texts /\ c.blocks \in Seq(Blocks)
      /\ c.kind = "blocks" => c.text = << >>
      /\ c.kind # "blocks" => c.blocks = << >>
      /\ c = [kind |-> c.kind, text |-> c.text, blocks |-> c.blocks]
  BY <1>1, ContentFields
<1>4. c.kind # "blocks" => blocks = << >>
  <2>1. c.kind # "blocks" => Len(blocks) = 0
    BY <1>3, LenProperties DEF c
  <2>2. QED BY <2>1, EmptySeq
<1>5. d \in Contents
  BY <1>3, <1>4 DEF Contents
<1>6. n = [role |-> m.role, spans |-> m.spans, raw |-> item]
  <2>1. n = [m EXCEPT !.raw = [m.raw EXCEPT !.content = [c EXCEPT !.blocks = blocks]]]
    BY DEF c, Reblocked
  <2>2. [c EXCEPT !.blocks = blocks] = d
    BY <1>3
  <2> HIDE DEF d
  <2>3. [m.raw EXCEPT !.content = d] = item
    BY <1>2
  <2> HIDE DEF item
  <2>4. QED BY <1>1, <2>1, <2>2, <2>3
<1>7. item \in Items
  BY <1>1, <1>5 DEF Items
<1>8. item # NoRaw
  BY <1>7, TokenAssumption
<1>9. item.role = m.raw.role /\ item.content = d
  OBVIOUS
<1>10. d.kind = c.kind /\ d.text = c.text /\ d.blocks = blocks
  OBVIOUS
<1> HIDE DEF item, d
<1>11. << >> \in Seq(SpanSet)
  OBVIOUS
<1>12. n \in Messages
  BY <1>1, <1>6, <1>7, <1>11 DEF Messages
<1>13. n.role = m.role /\ n.raw = item
  BY <1>6
<1>14. QED BY <1>8, <1>9, <1>10, <1>12, <1>13 DEF c

\* A message of spans with other spans.
LEMMA WithSpans ==
    ASSUME NEW m \in Messages, m.raw = NoRaw, NEW spans \in Seq(SpanSet),
           NEW n, n = [m EXCEPT !.spans = spans]
    PROVE  n \in Messages /\ n.role = m.role /\ n.raw = NoRaw /\ n.spans = spans
<1>1. m.role \in STRING /\ m = [role |-> m.role, spans |-> m.spans, raw |-> m.raw]
  BY MessageFields
<1>2. n = [role |-> m.role, spans |-> spans, raw |-> NoRaw]
  BY <1>1
<1>3. QED BY <1>1, <1>2 DEF Messages

LEMMA BlockFields ==
    ASSUME NEW b \in Blocks
    PROVE  /\ b.type \in STRING /\ b.id \in STRING /\ b.text \in Texts /\ b.payload \in Texts
           /\ b.cached \in BOOLEAN
           /\ b = [type |-> b.type, id |-> b.id, text |-> b.text, payload |-> b.payload,
                   cached |-> b.cached]
BY DEF Blocks

LEMMA RewrittenBlockIs ==
    ASSUME NEW b \in Blocks, NEW s, NEW pass \in Rewriters, Drops(pass, s) \subseteq Droppable(s)
    PROVE  RewrittenBlock(pass, b, s) \in Blocks /\ BlockAlike(b, RewrittenBlock(pass, b, s), s)
<1>1. CASE b.type = "text"
  <2>1. RewrittenBlock(pass, b, s) = [type |-> b.type, id |-> b.id, text |-> RewrittenText(pass, b.text, s),
                                      payload |-> b.payload, cached |-> b.cached]
    BY <1>1, BlockFields DEF RewrittenBlock
  <2>2. /\ RewrittenText(pass, b.text, s) \in Texts
        /\ Alike(b.text, RewrittenText(pass, b.text, s), Droppable(s))
    BY BlockFields, RewrittenTextIs
  <2>3. RewrittenBlock(pass, b, s) \in Blocks
    BY <2>1, <2>2, BlockFields DEF Blocks
  <2>4. QED BY <1>1, <2>1, <2>2, <2>3 DEF BlockAlike
<1>2. CASE b.type # "text"
  BY <1>2, BlockAlikeReflexive DEF RewrittenBlock
<1>3. QED BY <1>1, <1>2

LEMMA RewrittenMessageIs ==
    ASSUME NEW m \in Messages, NEW s, NEW pass \in Rewriters, Drops(pass, s) \subseteq Droppable(s)
    PROVE  RewrittenMessage(pass, m, s) \in Messages /\ MessageAlike(m, RewrittenMessage(pass, m, s), s)
<1>1. CASE m.raw = NoRaw
  <2> DEFINE R == RewrittenSpans(pass, m.spans, s)
  <2>1. R \in Seq(SpanSet) /\ SpansAlike(m.spans, R, Droppable(s))
    BY MessageFields, RewrittenSpansAre
  <2>2. RewrittenMessage(pass, m, s) = [m EXCEPT !.spans = R]
    BY <1>1 DEF RewrittenMessage
  <2> HIDE DEF R
  <2>3. QED BY <1>1, <2>1, <2>2, WithSpans DEF MessageAlike
<1>2. CASE m.raw # NoRaw
  <2> DEFINE old == m.raw.content.blocks
             new == [i \in DOMAIN old |-> RewrittenBlock(pass, old[i], s)]
             n == RewrittenMessage(pass, m, s)
  <2>1. old \in Seq(Blocks)
    BY <1>2, MessageFields, ContentFields
  <2>2. n = Reblocked(m, new)
    BY <1>2 DEF RewrittenMessage, Reblocked
  <2> HIDE DEF old
  <2>3. \A i \in DOMAIN old : new[i] \in Blocks /\ BlockAlike(old[i], new[i], s)
    BY <2>1, RewrittenBlockIs, ElementOfSeq, LenProperties
  <2>4. new \in [DOMAIN old -> Blocks]
    BY <2>3
  <2> HIDE DEF new, n
  <2>5. new \in Seq(Blocks) /\ Len(new) = Len(old)
    BY <2>1, <2>4, AsSeq
  <2>6. /\ n \in Messages /\ n.role = m.role /\ n.raw # NoRaw
        /\ n.raw.role = m.raw.role /\ n.raw.content.kind = m.raw.content.kind
        /\ n.raw.content.text = m.raw.content.text /\ n.raw.content.blocks = new
    BY <1>2, <2>2, <2>5, WithBlocks DEF old
  <2>7. BlocksAlike(old, new, s)
    BY <2>3, <2>5 DEF BlocksAlike
  <2>8. QED BY <1>2, <2>6, <2>7 DEF MessageAlike, n, old
<1>3. QED BY <1>1, <1>2

\* A request with other messages and another system prompt.
LEMMA WithMessages ==
    ASSUME NEW r \in Requests, NEW messages \in Seq(Messages), NEW system \in Texts \union {NoSystem},
           NEW breakpoint \in Nat, NEW n,
           n = [dialect |-> r.dialect, system |-> system, messages |-> messages,
                tools |-> r.tools, breakpoint |-> breakpoint]
    PROVE  n \in Requests
BY RequestFields DEF Requests

LEMMA RewrittenIs ==
    ASSUME NEW r \in Requests, NEW s, NEW pass \in Rewriters, Drops(pass, s) \subseteq Droppable(s)
    PROVE  Rewritten(pass, r, s) \in Requests /\ RequestAlike(r, Rewritten(pass, r, s), s)
<1> DEFINE old == r.messages
           new == [i \in DOMAIN old |-> RewrittenMessage(pass, old[i], s)]
           system == IF r.system = NoSystem THEN NoSystem ELSE RewrittenText(pass, r.system, s)
           n == Rewritten(pass, r, s)
<1>1. n = [dialect |-> r.dialect, system |-> system, messages |-> new, tools |-> r.tools, breakpoint |-> 0]
  <2>1. r = [dialect |-> r.dialect, system |-> r.system, messages |-> r.messages,
             tools |-> r.tools, breakpoint |-> r.breakpoint]
    BY RequestFields
  <2>2. n = [r EXCEPT !.messages = new, !.system = system, !.breakpoint = 0]
    BY DEF Rewritten
  <2> HIDE DEF new, system, n
  <2>3. QED BY <2>1, <2>2
<1>2. old \in Seq(Messages) /\ \A i \in DOMAIN old : old[i] \in Messages
  BY RequestFields
<1> HIDE DEF old, n
<1>3. \A i \in DOMAIN old : new[i] \in Messages /\ MessageAlike(old[i], new[i], s)
  BY <1>2, RewrittenMessageIs
<1>4. new \in [DOMAIN old -> Messages]
  BY <1>3
<1> HIDE DEF new
<1>5. new \in Seq(Messages) /\ Len(new) = Len(old)
  BY <1>2, <1>4, AsSeq
<1>6. /\ system \in Texts \union {NoSystem}
      /\ system = NoSystem <=> r.system = NoSystem
      /\ r.system # NoSystem => Alike(r.system, system, Droppable(s))
  <2>1. CASE r.system = NoSystem
    BY <2>1
  <2>2. CASE r.system # NoSystem
    <3>1. r.system \in Texts
      BY <2>2, RequestFields
    <3>2. /\ RewrittenText(pass, r.system, s) \in Texts
          /\ Alike(r.system, RewrittenText(pass, r.system, s), Droppable(s))
      BY <3>1, RewrittenTextIs
    <3>3. NoSystem \notin Texts
      BY TokenAssumption
    <3>4. QED BY <2>2, <3>2, <3>3
  <2>3. QED BY <2>1, <2>2
<1> HIDE DEF system
<1>7. n \in Requests
  BY <1>1, <1>5, <1>6, WithMessages
<1>8. RequestAlike(r, n, s)
  BY <1>1, <1>3, <1>5, <1>6 DEF RequestAlike, old
<1>9. QED BY <1>7, <1>8 DEF n

\* Where there is no prose, nothing is rewritten.
LEMMA NoProseSpans ==
    ASSUME NEW spans \in Seq(SpanSet), NEW s, NEW pass, \A j \in DOMAIN spans : ~spans[j].mutable
    PROVE  RewrittenSpans(pass, spans, s) = spans
<1>1. spans = [j \in DOMAIN spans |-> spans[j]]
  BY LenProperties
<1>2. RewrittenSpans(pass, spans, s) = [j \in DOMAIN spans |-> spans[j]]
  BY DEF RewrittenSpans
<1>3. QED BY <1>1, <1>2

LEMMA NoProse ==
    ASSUME NEW r \in Requests, NEW s, NEW pass, ~HasProse(r)
    PROVE  /\ Rewritten(pass, r, s) \in Requests /\ RequestAlike(r, Rewritten(pass, r, s), s)
           /\ Rewritten(pass, r, s).messages = r.messages
<1>1. ASSUME NEW text \in Texts, \A i \in DOMAIN Spans(text) : ~Spans(text)[i].mutable
      PROVE  RewrittenText(pass, text, s) = text
  BY <1>1, SpansSayText, NoProseSpans DEF RewrittenText
<1>2. ASSUME NEW i \in DOMAIN r.messages
      PROVE  RewrittenMessage(pass, r.messages[i], s) = r.messages[i]
  <2> DEFINE m == r.messages[i]
  <2>1. m \in Messages
    BY RequestFields
  <2>2. CASE m.raw = NoRaw
    <3>1. \A j \in DOMAIN m.spans : ~m.spans[j].mutable
      BY <2>2 DEF HasProse
    <3>2. m.spans \in Seq(SpanSet) /\ m = [role |-> m.role, spans |-> m.spans, raw |-> m.raw]
      BY <2>1, MessageFields
    <3>3. RewrittenSpans(pass, m.spans, s) = m.spans
      BY <3>1, <3>2, NoProseSpans
    <3>4. RewrittenMessage(pass, m, s) = [m EXCEPT !.spans = RewrittenSpans(pass, m.spans, s)]
      BY <2>2 DEF RewrittenMessage
    <3> HIDE DEF m
    <3>5. QED BY <3>2, <3>3, <3>4 DEF m
  <2>3. CASE m.raw # NoRaw
    <3> DEFINE c == m.raw.content
               old == c.blocks
               new == [j \in DOMAIN old |-> RewrittenBlock(pass, old[j], s)]
    <3>1. c \in Contents /\ m.raw \in Items /\ m = [role |-> m.role, spans |-> m.spans, raw |-> m.raw]
      BY <2>1, <2>3, MessageFields
    <3>2. old \in Seq(Blocks)
      BY <3>1, ContentFields
    <3>3. ASSUME NEW j \in DOMAIN old PROVE RewrittenBlock(pass, old[j], s) = old[j]
      <4>1. old[j] \in Blocks
        BY <3>2, ElementOfSeq, LenProperties
      <4>2. CASE old[j].type = "text"
        <5>1. \A k \in DOMAIN Spans(old[j].text) : ~Spans(old[j].text)[k].mutable
          BY <2>3, <3>3, <4>2 DEF HasProse
        <5>2. RewrittenText(pass, old[j].text, s) = old[j].text
          BY <1>1, <4>1, <5>1, BlockFields
        <5>3. RewrittenBlock(pass, old[j], s) = [old[j] EXCEPT !.text = old[j].text]
          BY <4>2, <5>2 DEF RewrittenBlock
        <5> DEFINE b == old[j]
        <5> HIDE DEF b, m, c, old, new
        <5>4. [b EXCEPT !.text = b.text] = b
          BY <4>1, BlockFields DEF b
        <5>5. QED BY <5>3, <5>4 DEF b
      <4>3. CASE old[j].type # "text"
        BY <4>3 DEF RewrittenBlock
      <4>4. QED BY <4>2, <4>3
    <3>4. new = [j \in DOMAIN old |-> old[j]]
      BY <3>3
    <3>5. RewrittenMessage(pass, m, s)
            = [m EXCEPT !.raw = [m.raw EXCEPT !.content = [c EXCEPT !.blocks = new]]]
      BY <2>3 DEF RewrittenMessage
    <3> HIDE DEF new
    <3>6. new = old
      <4> HIDE DEF m, c, old
      <4>1. old = [j \in DOMAIN old |-> old[j]]
        BY <3>2, LenProperties
      <4>2. QED BY <3>4, <4>1
    <3>7. [c EXCEPT !.blocks = old] = c
      BY <3>1, ContentFields
    <3>8. [m.raw EXCEPT !.content = c] = m.raw
      BY <3>1, ItemFields
    <3>9. [m EXCEPT !.raw = m.raw] = m
      BY <3>1
    <3> HIDE DEF m, c, old
    <3>10. QED BY <3>5, <3>6, <3>7, <3>8, <3>9 DEF m
  <2>4. QED BY <2>2, <2>3
<1>3. r.system # NoSystem => RewrittenText(pass, r.system, s) = r.system
  <2> SUFFICES ASSUME r.system # NoSystem PROVE RewrittenText(pass, r.system, s) = r.system
    OBVIOUS
  <2>1. r.system \in Texts
    BY RequestFields
  <2>2. \A i \in DOMAIN Spans(r.system) : ~Spans(r.system)[i].mutable
    BY DEF HasProse
  <2>3. QED BY <1>1, <2>1, <2>2
<1> DEFINE new == [i \in DOMAIN r.messages |-> RewrittenMessage(pass, r.messages[i], s)]
           system == IF r.system = NoSystem THEN NoSystem ELSE RewrittenText(pass, r.system, s)
           n == Rewritten(pass, r, s)
<1>4. n = [r EXCEPT !.messages = new, !.system = system, !.breakpoint = 0]
  BY DEF Rewritten
<1>5. new = r.messages
  <2>1. new = [i \in DOMAIN r.messages |-> r.messages[i]]
    BY <1>2
  <2>2. r.messages \in Seq(Messages)
    BY RequestFields
  <2> HIDE DEF new
  <2>3. QED BY <2>1, <2>2, LenProperties
<1>6. system = r.system
  BY <1>3
<1> HIDE DEF new, system, n
<1>7. n = [dialect |-> r.dialect, system |-> r.system, messages |-> r.messages,
           tools |-> r.tools, breakpoint |-> 0]
  <2>1. r = [dialect |-> r.dialect, system |-> r.system, messages |-> r.messages,
             tools |-> r.tools, breakpoint |-> r.breakpoint]
    BY RequestFields
  <2>2. QED BY <1>4, <1>5, <1>6, <2>1
<1>8. n \in Requests
  BY <1>7, RequestFields, WithMessages
<1>9. RequestAlike(r, n, s)
  BY <1>7, MessageAlikeReflexive DEF RequestAlike, Alike
<1>10. QED BY <1>7, <1>8, <1>9 DEF n

-----------------------------------------------------------------------------
(* Elision.                                                                *)

LEMMA ElidedBlockIs ==
    ASSUME NEW b \in Blocks, NEW s, s.elide
    PROVE  ElidedBlock(b) \in Blocks /\ BlockAlike(b, ElidedBlock(b), s)
<1>1. CASE Elidable(b)
  <2>1. ElidedBlock(b) = [type |-> b.type, id |-> b.id, text |-> b.text, payload |-> Stub,
                          cached |-> b.cached]
    BY <1>1, BlockFields DEF ElidedBlock
  <2>2. ElidedBlock(b) \in Blocks
    BY <2>1, BlockFields, TextAssumption DEF Blocks
  <2>3. b.type = "tool_result"
    BY <1>1 DEF Elidable
  <2>4. QED BY <2>1, <2>2, <2>3 DEF BlockAlike
<1>2. CASE ~Elidable(b)
  BY <1>2, BlockAlikeReflexive DEF ElidedBlock
<1>3. QED BY <1>1, <1>2

ElidedMessage(m) ==
    [m EXCEPT !.raw.content.blocks = [j \in DOMAIN @ |-> ElidedBlock(@[j])]]

LEMMA ElidedMessageIs ==
    ASSUME NEW m \in Messages, NEW s, s.elide, m.raw # NoRaw
    PROVE  ElidedMessage(m) \in Messages /\ MessageAlike(m, ElidedMessage(m), s)
<1> DEFINE old == m.raw.content.blocks
           new == [i \in DOMAIN old |-> ElidedBlock(old[i])]
           n == ElidedMessage(m)
<1>1. old \in Seq(Blocks)
  BY MessageFields, ContentFields
<1>2. n = Reblocked(m, new)
  BY DEF ElidedMessage, Reblocked
<1> HIDE DEF old
<1>3. \A i \in DOMAIN old : new[i] \in Blocks /\ BlockAlike(old[i], new[i], s)
  BY <1>1, ElidedBlockIs, ElementOfSeq, LenProperties
<1>4. new \in [DOMAIN old -> Blocks]
  BY <1>3
<1> HIDE DEF new, n
<1>5. new \in Seq(Blocks) /\ Len(new) = Len(old)
  BY <1>1, <1>4, AsSeq
<1>6. /\ n \in Messages /\ n.role = m.role /\ n.raw # NoRaw
      /\ n.raw.role = m.raw.role /\ n.raw.content.kind = m.raw.content.kind
      /\ n.raw.content.text = m.raw.content.text /\ n.raw.content.blocks = new
  BY <1>2, <1>5, WithBlocks DEF old
<1>7. BlocksAlike(old, new, s)
  BY <1>3, <1>5 DEF BlocksAlike
<1>8. QED BY <1>6, <1>7 DEF MessageAlike, n, old

Elided(r, s) ==
    [r EXCEPT !.messages =
        [i \in DOMAIN @ |-> IF @[i].raw = NoRaw \/ ~Stale(r, i, s) THEN @[i]
                            ELSE ElidedMessage(@[i])]]

LEMMA ElisionIs ==
    ASSUME NEW r \in Requests, NEW s, s.elide
    PROVE  /\ Elision(r, s) = IF Elided(r, s) = r THEN Untouched(r)
                              ELSE Measured("elision", r, Elided(r, s), "none", s)
           /\ Elided(r, s) \in Requests /\ RequestAlike(r, Elided(r, s), s)
<1> DEFINE old == r.messages
           new == [i \in DOMAIN old |-> IF old[i].raw = NoRaw \/ ~Stale(r, i, s) THEN old[i]
                                        ELSE ElidedMessage(old[i])]
           n == Elided(r, s)
<1>1. Elision(r, s) = IF n = r THEN Untouched(r) ELSE Measured("elision", r, n, "none", s)
  BY DEF Elision, Elided, ElidedMessage
<1>2. n = [r EXCEPT !.messages = new]
  BY DEF Elided
<1>3. old \in Seq(Messages) /\ \A i \in DOMAIN old : old[i] \in Messages
  BY RequestFields
<1> HIDE DEF old, n
<1>4. \A i \in DOMAIN old : new[i] \in Messages /\ MessageAlike(old[i], new[i], s)
  BY <1>3, ElidedMessageIs, MessageAlikeReflexive
<1>5. new \in [DOMAIN old -> Messages]
  BY <1>4
<1> HIDE DEF new
<1>6. new \in Seq(Messages) /\ Len(new) = Len(old)
  BY <1>3, <1>5, AsSeq
<1>7. n = [dialect |-> r.dialect, system |-> r.system, messages |-> new,
           tools |-> r.tools, breakpoint |-> r.breakpoint]
  <2>1. r = [dialect |-> r.dialect, system |-> r.system, messages |-> r.messages,
             tools |-> r.tools, breakpoint |-> r.breakpoint]
    BY RequestFields
  <2>2. QED BY <1>2, <2>1
<1>8. n \in Requests
  BY <1>6, <1>7, RequestFields, WithMessages
<1>9. RequestAlike(r, n, s)
  BY <1>4, <1>6, <1>7 DEF RequestAlike, Alike, old
<1>10. QED BY <1>1, <1>8, <1>9 DEF n

-----------------------------------------------------------------------------
(* Statistics.                                                             *)

Sizes(s) == {Size(r, s) : r \in Requests}

LEMMA AccountEmpty == ASSUME NEW x PROVE Account(<< >>, x, x)
BY DEF Account

LEMMA AccountSingle ==
    ASSUME NEW counts, NEW x \in counts, NEW y \in counts,
           NEW name \in {"memory", "lossless", "filler", "learned", "elision", "dedup"},
           NEW ok \in {"none", "good", "bad"}
    PROVE  <<Stage(name, x, y, ok)>> \in Seq(StagesOf(counts)) /\ Account(<<Stage(name, x, y, ok)>>, x, y)
<1>1. Stage(name, x, y, ok) \in StagesOf(counts)
  BY DEF Stage, StagesOf
<1>2. Stage(name, x, y, ok).before = x /\ Stage(name, x, y, ok).after = y
  BY DEF Stage
<1> DEFINE e == Stage(name, x, y, ok)
<1> HIDE DEF e
<1>3. <<e>> \in Seq(StagesOf(counts)) /\ <<e>> # << >> /\ Len(<<e>>) = 1 /\ <<e>>[1] = e
  BY <1>1 DEF e
<1>4. \A i \in 2..Len(<<e>>) : FALSE
  BY <1>3
<1>5. QED BY <1>2, <1>3, <1>4 DEF Account, e

LEMMA AccountConcat ==
    ASSUME NEW S, NEW a \in Seq(S), NEW b \in Seq(S), NEW x, NEW y, NEW z,
           Account(a, x, y), Account(b, y, z)
    PROVE  a \o b \in Seq(S) /\ Account(a \o b, x, z)
<1>1. /\ a \o b \in Seq(S) /\ Len(a) \in Nat /\ Len(b) \in Nat /\ Len(a \o b) = Len(a) + Len(b)
      /\ \A i \in 1..Len(a) : (a \o b)[i] = a[i]
      /\ \A i \in Len(a) + 1..Len(a) + Len(b) : (a \o b)[i] = b[i - Len(a)]
  BY ConcatProperties, LenProperties
<1>2. CASE a = << >>
  <2>1. a \o b = b /\ x = y
    BY <1>2 DEF Account
  <2>2. QED BY <1>1, <2>1
<1>3. CASE a # << >> /\ b = << >>
  <2>1. a \o b = a /\ z = y
    BY <1>3 DEF Account
  <2>2. QED BY <1>1, <2>1
<1>4. CASE a # << >> /\ b # << >>
  <2> DEFINE c == a \o b
             A == Len(a)
             B == Len(b)
  <2> HIDE DEF c, A, B
  <2>1. A \in Nat \ {0} /\ B \in Nat \ {0} /\ Len(c) = A + B
    BY <1>1, <1>4, EmptySeq DEF A, B, c
  <2>2. /\ a[1].before = x /\ a[A].after = y
        /\ \A i \in 2..A : a[i].before = a[i - 1].after
        /\ b[1].before = y /\ b[B].after = z
        /\ \A i \in 2..B : b[i].before = b[i - 1].after
    BY <1>4 DEF Account, A, B
  <2>3. /\ \A i \in 1..A : c[i] = a[i]
        /\ \A i \in A + 1..A + B : c[i] = b[i - A]
    BY <1>1 DEF A, B, c
  <2>4. c[1] = a[1]
    BY <2>1, <2>3
  <2>5. c[A + B] = b[B]
    BY <2>1, <2>3
  <2>6. ASSUME NEW i \in 2..A + B PROVE c[i].before = c[i - 1].after
    <3>1. CASE i <= A
      <4>1. i \in 1..A /\ i - 1 \in 1..A /\ i \in 2..A
        BY <2>1, <3>1
      <4>2. QED BY <2>2, <2>3, <4>1
    <3>2. CASE i = A + 1
      <4>1. A \in 1..A /\ A + 1 \in A + 1..A + B /\ (A + 1) - 1 = A /\ (A + 1) - A = 1
        BY <2>1
      <4>2. QED BY <2>2, <2>3, <3>2, <4>1
    <3>3. CASE i > A + 1
      <4>1. /\ i \in A + 1..A + B /\ i - 1 \in A + 1..A + B /\ i - A \in 2..B
            /\ (i - 1) - A = (i - A) - 1
        BY <2>1, <3>3
      <4>2. c[i] = b[i - A] /\ c[i - 1] = b[(i - A) - 1]
        BY <2>3, <4>1
      <4>3. b[i - A].before = b[(i - A) - 1].after
        BY <2>2, <4>1
      <4>4. QED BY <4>2, <4>3
    <3>4. QED BY <2>1, <3>1, <3>2, <3>3
  <2>7. c # << >>
    BY <2>1, EmptySeq
  <2>8. Account(c, x, z)
    BY <2>1, <2>2, <2>4, <2>5, <2>6, <2>7 DEF Account
  <2>9. QED BY <1>1, <2>8 DEF c
<1>5. QED BY <1>2, <1>3, <1>4

\* What came of a request, and the statistics that account for it.
Measures(r, outcome, s) ==
    /\ outcome.request \in Requests
    /\ outcome.stats \in Seq(StagesOf(Sizes(s)))
    /\ Account(outcome.stats, Size(r, s), Size(outcome.request, s))

Keeps(r, outcome, s) == Measures(r, outcome, s) /\ RequestAlike(r, outcome.request, s)

LEMMA UntouchedIs ==
    ASSUME NEW r \in Requests, NEW s
    PROVE  Keeps(r, Untouched(r), s)
<1>1. Untouched(r).request = r /\ Untouched(r).stats = << >>
  BY DEF Untouched, Outcome
<1>2. << >> \in Seq(StagesOf(Sizes(s)))
  OBVIOUS
<1>3. QED BY <1>1, <1>2, AccountEmpty, RequestAlikeReflexive DEF Keeps, Measures

LEMMA MeasuredIs ==
    ASSUME NEW r \in Requests, NEW next \in Requests, NEW s,
           NEW name \in {"memory", "lossless", "filler", "learned", "elision", "dedup"},
           NEW ok \in {"none", "good", "bad"}
    PROVE  /\ Measures(r, Measured(name, r, next, ok, s), s)
           /\ Measured(name, r, next, ok, s).request = next
<1> DEFINE o == Measured(name, r, next, ok, s)
<1>1. o.request = next /\ o.stats = <<Stage(name, Size(r, s), Size(next, s), ok)>>
  BY DEF Measured, Outcome
<1>2. Size(r, s) \in Sizes(s) /\ Size(next, s) \in Sizes(s)
  BY DEF Sizes
<1> DEFINE x == Size(r, s)
           y == Size(next, s)
           counts == Sizes(s)
<1> HIDE DEF o, x, y, counts
<1>3. <<Stage(name, x, y, ok)>> \in Seq(StagesOf(counts)) /\ Account(<<Stage(name, x, y, ok)>>, x, y)
  BY <1>2, AccountSingle DEF x, y, counts
<1>4. QED BY <1>1, <1>3 DEF Measures, o, x, y, counts

Learns(s) == s.learned \in {"off", "on", "missing"}

LEMMA PassIs ==
    ASSUME NEW r \in Requests, NEW s, Learns(s),
           NEW name \in {"lossless", "filler", "learned", "elision"}, InChain(name, s)
    PROVE  Keeps(r, Pass(name, r, s), s)
<1>1. ASSUME NEW next \in Requests, RequestAlike(r, next, s), NEW ok \in {"none", "good", "bad"},
             Pass(name, r, s) = Measured(name, r, next, ok, s)
      PROVE  Keeps(r, Pass(name, r, s), s)
  BY <1>1, MeasuredIs DEF Keeps
<1>2. CASE name = "lossless"
  <2> DEFINE next == Rewritten(name, r, s)
  <2>1. Drops(name, s) \subseteq Droppable(s)
    BY <1>2 DEF Drops, Droppable
  <2>2. next \in Requests /\ RequestAlike(r, next, s)
    BY <1>2, <2>1, RewrittenIs DEF Rewriters
  <2>3. Pass(name, r, s) = Measured(name, r, next, Verdict(Equivalent(name, r, next, s), s), s)
    BY <1>2 DEF Pass, Lossless, Checked
  <2>4. Verdict(Equivalent(name, r, next, s), s) \in {"none", "good", "bad"}
    BY DEF Verdict
  <2> HIDE DEF next
  <2>5. QED BY <1>1, <2>2, <2>3, <2>4
<1>3. CASE name = "filler"
  <2> DEFINE next == Rewritten(name, r, s)
  <2>0. s.filler
    BY <1>3 DEF InChain
  <2>1. Drops(name, s) \subseteq Droppable(s)
    BY <1>3, <2>0 DEF Drops, Droppable
  <2>2. next \in Requests /\ RequestAlike(r, next, s)
    BY <1>3, <2>1, RewrittenIs DEF Rewriters
  <2>3. Pass(name, r, s) = Measured(name, r, next, Verdict(Equivalent(name, r, next, s), s), s)
    BY <1>3 DEF Pass, Filler, Checked
  <2>4. Verdict(Equivalent(name, r, next, s), s) \in {"none", "good", "bad"}
    BY DEF Verdict
  <2> HIDE DEF next
  <2>5. QED BY <1>1, <2>2, <2>3, <2>4
<1>4. CASE name = "learned"
  <2> DEFINE next == Rewritten(name, r, s)
  <2>1. s.learned # "off" /\ Pass(name, r, s) = Learned(r, s)
    BY <1>4 DEF InChain, Pass
  <2>2. CASE s.learned = "missing" /\ HasProse(r)
    BY <2>1, <2>2, UntouchedIs DEF Learned
  <2>3. CASE ~(s.learned = "missing" /\ HasProse(r))
    <3>1. Pass(name, r, s) = Measured(name, r, next, "none", s)
      BY <1>4, <2>1, <2>3 DEF Learned
    <3>2. next \in Requests /\ RequestAlike(r, next, s)
      <4>1. CASE ~HasProse(r)
        BY <4>1, NoProse
      <4>2. CASE HasProse(r)
        <5>1. s.learned = "on"
          BY <2>1, <2>3, <4>2 DEF Learns
        <5>2. Drops(name, s) \subseteq Droppable(s)
          BY <1>4, <5>1 DEF Drops, Droppable
        <5>3. QED BY <1>4, <5>2, RewrittenIs DEF Rewriters
      <4>3. QED BY <4>1, <4>2
    <3> HIDE DEF next
    <3>3. QED BY <1>1, <3>1, <3>2
  <2>4. QED BY <2>2, <2>3
<1>5. CASE name = "elision"
  <2> DEFINE next == Elided(r, s)
  <2>1. s.elide /\ Pass(name, r, s) = Elision(r, s)
    BY <1>5 DEF InChain, Pass
  <2>2. next \in Requests /\ RequestAlike(r, next, s)
    BY <2>1, ElisionIs
  <2>3. Pass(name, r, s) = IF next = r THEN Untouched(r) ELSE Measured(name, r, next, "none", s)
    BY <1>5, <2>1, ElisionIs
  <2> HIDE DEF next
  <2>4. QED BY <1>1, <2>2, <2>3, UntouchedIs
<1>6. QED BY <1>2, <1>3, <1>4, <1>5

LEMMA ThenMeasures ==
    ASSUME NEW r \in Requests, NEW s, NEW done, Measures(r, done, s), NEW name,
           Measures(done.request, Pass(name, done.request, s), s)
    PROVE  Measures(r, Then(done, name, s), s)
<1> DEFINE o == Pass(name, done.request, s)
<1>1. CASE ~InChain(name, s)
  BY <1>1 DEF Then
<1>2. CASE InChain(name, s)
  <2>1. Then(done, name, s) = [request |-> o.request, stats |-> done.stats \o o.stats]
    BY <1>2 DEF Then, Outcome
  <2>2. /\ o.request \in Requests /\ o.stats \in Seq(StagesOf(Sizes(s)))
        /\ Account(o.stats, Size(done.request, s), Size(o.request, s))
        /\ done.stats \in Seq(StagesOf(Sizes(s)))
        /\ Account(done.stats, Size(r, s), Size(done.request, s))
    BY DEF Measures
  <2> HIDE DEF o
  <2>3. /\ done.stats \o o.stats \in Seq(StagesOf(Sizes(s)))
        /\ Account(done.stats \o o.stats, Size(r, s), Size(o.request, s))
    BY <2>2, AccountConcat
  <2>4. QED BY <2>1, <2>2, <2>3 DEF Measures
<1>3. QED BY <1>1, <1>2

LEMMA ThenKeeps ==
    ASSUME NEW r \in Requests, NEW s, Learns(s), NEW done, Keeps(r, done, s),
           NEW name \in {"lossless", "filler", "learned", "elision"}
    PROVE  Keeps(r, Then(done, name, s), s)
<1>1. CASE ~InChain(name, s)
  BY <1>1 DEF Then
<1>2. CASE InChain(name, s)
  <2>1. Keeps(done.request, Pass(name, done.request, s), s)
    BY <1>2, PassIs DEF Keeps, Measures
  <2>2. Measures(r, Then(done, name, s), s)
    BY <2>1, ThenMeasures DEF Keeps
  <2>3. Then(done, name, s).request = Pass(name, done.request, s).request
    BY <1>2 DEF Then, Outcome
  <2>4. RequestAlike(r, Then(done, name, s).request, s)
    BY <2>1, <2>3, RequestAlikeTransitive DEF Keeps, Measures
  <2>5. QED BY <2>2, <2>4 DEF Keeps
<1>3. QED BY <1>1, <1>2

\* The chain, but for its last pass.
BeforeDedup(r, s) ==
    Then(Then(Then(Then(Untouched(r), "lossless", s), "filler", s), "learned", s), "elision", s)

\* The recursive function that says what the chain makes of a request is the
\* five passes, one after the other.
LEMMA ChainIs ==
    ASSUME NEW r, NEW s
    PROVE  Compressed(r, s) = Then(BeforeDedup(r, s), "dedup", s)
<1> DEFINE t0 == Untouched(r)
           t1 == Then(t0, "lossless", s)
           t2 == Then(t1, "filler", s)
           t3 == Then(t2, "learned", s)
           t4 == Then(t3, "elision", s)
           t5 == Then(t4, "dedup", s)
           Runs(g) == g = [n \in 0..Len(Passes) |->
                              IF n = 0 THEN Untouched(r) ELSE Then(g[n - 1], Passes[n], s)]
           f == [n \in 0..5 |-> IF n = 0 THEN t0 ELSE IF n = 1 THEN t1 ELSE IF n = 2 THEN t2
                               ELSE IF n = 3 THEN t3 ELSE IF n = 4 THEN t4 ELSE t5]
           outcome == CHOOSE g : Runs(g)
<1>1. /\ Len(Passes) = 5 /\ Passes[1] = "lossless" /\ Passes[2] = "filler"
      /\ Passes[3] = "learned" /\ Passes[4] = "elision" /\ Passes[5] = "dedup"
  BY DEF Passes
<1>2. BeforeDedup(r, s) = t4
  BY DEF BeforeDedup
<1>3. Compressed(r, s) = outcome[Len(Passes)]
  BY DEF Compressed
<1>4. t0 = Untouched(r)
  OBVIOUS
<1>5. /\ t1 = Then(t0, "lossless", s) /\ t2 = Then(t1, "filler", s) /\ t3 = Then(t2, "learned", s)
      /\ t4 = Then(t3, "elision", s) /\ t5 = Then(t4, "dedup", s)
  OBVIOUS
<1> HIDE DEF t0, t1, t2, t3, t4, t5
<1>6. /\ f[0] = t0 /\ f[1] = t1 /\ f[2] = t2 /\ f[3] = t3 /\ f[4] = t4 /\ f[5] = t5
      /\ f = [n \in 0..5 |-> f[n]]
  OBVIOUS
<1> HIDE DEF f
<1>7. ASSUME NEW n \in 0..5
      PROVE  f[n] = IF n = 0 THEN Untouched(r) ELSE Then(f[n - 1], Passes[n], s)
  <2>1. n = 0 \/ n = 1 \/ n = 2 \/ n = 3 \/ n = 4 \/ n = 5
    OBVIOUS
  <2>2. CASE n = 0 BY <2>2, <1>4, <1>6
  <2>3. CASE n = 1 BY <2>3, <1>1, <1>5, <1>6
  <2>4. CASE n = 2 BY <2>4, <1>1, <1>5, <1>6
  <2>5. CASE n = 3 BY <2>5, <1>1, <1>5, <1>6
  <2>6. CASE n = 4 BY <2>6, <1>1, <1>5, <1>6
  <2>7. CASE n = 5 BY <2>7, <1>1, <1>5, <1>6
  <2>8. QED BY <2>1, <2>2, <2>3, <2>4, <2>5, <2>6, <2>7
<1>8. Runs(f)
  BY <1>1, <1>6, <1>7
<1>9. Runs(outcome)
  BY <1>8
<1> HIDE DEF outcome
<1>10. /\ outcome[0] = Untouched(r)
       /\ \A n \in 1..5 : outcome[n] = Then(outcome[n - 1], Passes[n], s)
  <2>1. \A n \in 0..5 :
           outcome[n] = IF n = 0 THEN Untouched(r) ELSE Then(outcome[n - 1], Passes[n], s)
    BY <1>1, <1>9
  <2>2. QED BY <2>1
<1>11. outcome[5] = t5
  <2>1. outcome[0] = t0 BY <1>4, <1>10
  <2>2. outcome[1] = t1 BY <2>1, <1>1, <1>5, <1>10
  <2>3. outcome[2] = t2 BY <2>2, <1>1, <1>5, <1>10
  <2>4. outcome[3] = t3 BY <2>3, <1>1, <1>5, <1>10
  <2>5. outcome[4] = t4 BY <2>4, <1>1, <1>5, <1>10
  <2>6. QED BY <2>5, <1>1, <1>5, <1>10
<1>12. QED BY <1>1, <1>2, <1>3, <1>5, <1>11

LEMMA BeforeDedupKeeps ==
    ASSUME NEW r \in Requests, NEW s, Learns(s)
    PROVE  /\ Keeps(r, BeforeDedup(r, s), s)
           /\ Compressed(r, s) = Then(BeforeDedup(r, s), "dedup", s)
<1>1. Keeps(r, Then(Untouched(r), "lossless", s), s)
  BY UntouchedIs, ThenKeeps
<1>2. Keeps(r, Then(Then(Untouched(r), "lossless", s), "filler", s), s)
  BY <1>1, ThenKeeps
<1>3. Keeps(r, Then(Then(Then(Untouched(r), "lossless", s), "filler", s), "learned", s), s)
  BY <1>2, ThenKeeps
<1>4. Keeps(r, BeforeDedup(r, s), s)
  BY <1>3, ThenKeeps DEF BeforeDedup
<1>5. QED BY <1>4, ChainIs

-----------------------------------------------------------------------------
(* Dedup, the last pass.                                                   *)

Redundant(r, p, s) == s.dedup /\ Large(SpanAt(r, p).text, s) /\ Repeats(r, p)

\* Every span is itself, or the marker in the place of a repeat.
Deduped(a, b, s) ==
    /\ a.dialect = b.dialect /\ a.tools = b.tools /\ a.system = b.system
    /\ a.breakpoint = b.breakpoint
    /\ Len(a.messages) = Len(b.messages)
    /\ \A i \in DOMAIN a.messages :
          /\ a.messages[i].role = b.messages[i].role /\ a.messages[i].raw = b.messages[i].raw
          /\ Len(a.messages[i].spans) = Len(b.messages[i].spans)
          /\ \A j \in DOMAIN a.messages[i].spans :
                b.messages[i].spans[j] =
                    IF Redundant(a, <<i, j>>, s) THEN Span(Marker, FALSE) ELSE a.messages[i].spans[j]

MarkedSpans(r, i, s) ==
    [j \in DOMAIN r.messages[i].spans |->
        IF Redundant(r, <<i, j>>, s) THEN Span(Marker, FALSE) ELSE r.messages[i].spans[j]]

MarkedRepeats(r, s) ==
    [r EXCEPT !.messages =
        [i \in DOMAIN r.messages |-> [r.messages[i] EXCEPT !.spans = MarkedSpans(r, i, s)]]]

LEMMA PlacesAre ==
    ASSUME NEW r \in Requests
    PROVE  /\ \A p \in Places(r) : /\ p = <<p[1], p[2]>>
                                   /\ p[1] \in DOMAIN r.messages
                                   /\ p[2] \in DOMAIN r.messages[p[1]].spans
           /\ \A i \in DOMAIN r.messages : \A j \in DOMAIN r.messages[i].spans :
                 <<i, j>> \in Places(r)
           /\ \A p \in Places(r) : SpanAt(r, p) \in SpanSet /\ p[1] \in Nat /\ p[2] \in Nat
<1>1. /\ \A p \in Places(r) : /\ p = <<p[1], p[2]>>
                              /\ p[1] \in DOMAIN r.messages
                              /\ p[2] \in DOMAIN r.messages[p[1]].spans
      /\ \A i \in DOMAIN r.messages : \A j \in DOMAIN r.messages[i].spans : <<i, j>> \in Places(r)
  BY DEF Places
<1>2. ASSUME NEW i \in DOMAIN r.messages, NEW j \in DOMAIN r.messages[i].spans
      PROVE  r.messages[i].spans[j] \in SpanSet /\ i \in Nat /\ j \in Nat
  <2>1. r.messages[i].spans \in Seq(SpanSet) /\ i \in 1..Len(r.messages) /\ Len(r.messages) \in Nat
    BY RequestFields, MessageFields
  <2>2. QED BY <2>1, ElementOfSeq, LenProperties
<1>3. QED BY <1>1, <1>2 DEF SpanAt

LEMMA MarkedRepeatsIs ==
    ASSUME NEW r \in Requests, NEW s
    PROVE  MarkedRepeats(r, s) \in Requests /\ Deduped(r, MarkedRepeats(r, s), s)
<1> DEFINE old == r.messages
           spans(i) == [j \in DOMAIN old[i].spans |->
                            IF Redundant(r, <<i, j>>, s) THEN Span(Marker, FALSE) ELSE old[i].spans[j]]
           new == [i \in DOMAIN old |-> [old[i] EXCEPT !.spans = spans(i)]]
           n == MarkedRepeats(r, s)
<1>1. n = [r EXCEPT !.messages = new]
  BY DEF MarkedRepeats, MarkedSpans
<1>2. old \in Seq(Messages) /\ \A i \in DOMAIN old : old[i] \in Messages
  BY RequestFields
<1> HIDE DEF old, n
<1>3. Span(Marker, FALSE) \in SpanSet
  BY TextAssumption DEF Span, SpanSet
<1>4. ASSUME NEW i \in DOMAIN old
      PROVE  /\ new[i] \in Messages
             /\ new[i].role = old[i].role /\ new[i].raw = old[i].raw
             /\ new[i].spans = spans(i) /\ Len(new[i].spans) = Len(old[i].spans)
  <2>1. /\ old[i].role \in STRING /\ old[i].spans \in Seq(SpanSet)
        /\ old[i].raw # NoRaw => old[i].spans = << >>
        /\ old[i] = [role |-> old[i].role, spans |-> old[i].spans, raw |-> old[i].raw]
        /\ old[i].raw \in Items \union {NoRaw}
    BY <1>2, MessageFields
  <2>2. \A j \in DOMAIN old[i].spans : old[i].spans[j] \in SpanSet
    BY <2>1, ElementOfSeq, LenProperties
  <2>3. spans(i) \in [DOMAIN old[i].spans -> SpanSet]
    BY <1>3, <2>2
  <2> DEFINE x == spans(i)
  <2> HIDE DEF spans
  <2>4. x \in Seq(SpanSet) /\ Len(x) = Len(old[i].spans)
    BY <2>1, <2>3, AsSeq
  <2>5. new[i] = [role |-> old[i].role, spans |-> x, raw |-> old[i].raw]
    BY <2>1
  <2>6. old[i].raw # NoRaw => x = << >>
    <3>1. old[i].raw # NoRaw => Len(x) = 0
      BY <2>1, <2>4, LenProperties
    <3>2. QED BY <2>4, <3>1, EmptySeq
  <2> HIDE DEF x, new
  <2>7. new[i] \in Messages
    BY <2>1, <2>4, <2>5, <2>6 DEF Messages
  <2>8. QED BY <2>4, <2>5, <2>7 DEF x
<1>5. \A i \in DOMAIN old : \A j \in DOMAIN old[i].spans :
         spans(i)[j] = IF Redundant(r, <<i, j>>, s) THEN Span(Marker, FALSE) ELSE old[i].spans[j]
  OBVIOUS
<1>6. new \in [DOMAIN old -> Messages]
  BY <1>4
<1> HIDE DEF new, spans
<1>7. new \in Seq(Messages) /\ Len(new) = Len(old)
  BY <1>2, <1>6, AsSeq
<1>8. n = [dialect |-> r.dialect, system |-> r.system, messages |-> new,
           tools |-> r.tools, breakpoint |-> r.breakpoint]
  <2>1. r = [dialect |-> r.dialect, system |-> r.system, messages |-> r.messages,
             tools |-> r.tools, breakpoint |-> r.breakpoint]
    BY RequestFields
  <2>2. QED BY <1>1, <2>1
<1>9. n \in Requests
  BY <1>7, <1>8, RequestFields, WithMessages
<1>10. Deduped(r, n, s)
  BY <1>4, <1>5, <1>7, <1>8 DEF Deduped, old
<1>11. QED BY <1>9, <1>10 DEF n

LEMMA DedupIs ==
    ASSUME NEW r \in Requests, NEW s, InChain("dedup", s)
    PROVE  /\ Measures(r, Dedup(r, s), s)
           /\ Deduped(r, Dedup(r, s).request, s)
<1> DEFINE none == \A p \in Places(r) : ~Redundant(r, p, s)
           next == MarkedRepeats(r, s)
<1>0. s.dedup
  BY DEF InChain
<1>1. Dedup(r, s) = IF none THEN Untouched(r) ELSE Measured("dedup", r, next, "none", s)
  <2> DEFINE again(p) == Large(SpanAt(r, p).text, s) /\ Repeats(r, p)
             marked(i) == [j \in DOMAIN r.messages[i].spans |->
                              IF again(<<i, j>>) THEN Span(Marker, FALSE) ELSE r.messages[i].spans[j]]
             messages == [i \in DOMAIN r.messages |-> [r.messages[i] EXCEPT !.spans = marked(i)]]
  <2>1. \A p : Redundant(r, p, s) <=> again(p)
    BY <1>0 DEF Redundant
  <2>2. Dedup(r, s) = IF \A p \in Places(r) : ~again(p) THEN Untouched(r)
                      ELSE Measured("dedup", r, [r EXCEPT !.messages = messages], "none", s)
    BY DEF Dedup
  <2> HIDE DEF again
  <2>3. \A i \in DOMAIN r.messages : marked(i) = MarkedSpans(r, i, s)
    BY <2>1 DEF MarkedSpans
  <2> HIDE DEF marked
  <2>4. [r EXCEPT !.messages = messages] = next
    BY <2>3 DEF MarkedRepeats
  <2> HIDE DEF next, messages
  <2>5. QED BY <2>1, <2>2, <2>4
<1>2. CASE none
  <2>1. Measures(r, Untouched(r), s) /\ Untouched(r).request = r
    BY UntouchedIs DEF Keeps, Untouched, Outcome
  <2>2. Deduped(r, r, s)
    BY <1>2, PlacesAre DEF Deduped
  <2>3. QED BY <1>1, <1>2, <2>1, <2>2
<1>3. CASE ~none
  <2>1. next \in Requests /\ Deduped(r, next, s)
    BY MarkedRepeatsIs
  <2> HIDE DEF none, next
  <2>2. QED BY <1>1, <1>3, <2>1, MeasuredIs
<1>4. QED BY <1>2, <1>3

\* What the chain makes of a request.
LEMMA CompressedIs ==
    ASSUME NEW r \in Requests, NEW s, Learns(s)
    PROVE  /\ Measures(r, Compressed(r, s), s)
           /\ RequestAlike(r, BeforeDedup(r, s).request, s)
           /\ BeforeDedup(r, s).request \in Requests
           /\ Deduped(BeforeDedup(r, s).request, Compressed(r, s).request, s)
<1> DEFINE done == BeforeDedup(r, s)
<1>1. Keeps(r, done, s) /\ Compressed(r, s) = Then(done, "dedup", s)
  BY BeforeDedupKeeps
<1>2. done.request \in Requests /\ Measures(r, done, s) /\ RequestAlike(r, done.request, s)
  BY <1>1 DEF Keeps, Measures
<1> HIDE DEF done
<1>3. CASE ~InChain("dedup", s)
  <2>1. ~s.dedup /\ Compressed(r, s) = done
    BY <1>1, <1>3 DEF InChain, Then
  <2>2. Deduped(done.request, done.request, s)
    BY <2>1 DEF Deduped, Redundant
  <2>3. QED BY <1>2, <2>1, <2>2 DEF done
<1>4. CASE InChain("dedup", s)
  <2>1. Pass("dedup", done.request, s) = Dedup(done.request, s)
    BY DEF Pass
  <2>2. Measures(done.request, Dedup(done.request, s), s) /\ Deduped(done.request, Dedup(done.request, s).request, s)
    BY <1>2, <1>4, DedupIs
  <2>3. Measures(r, Then(done, "dedup", s), s)
    BY <1>2, <2>1, <2>2, ThenMeasures
  <2>4. Then(done, "dedup", s).request = Dedup(done.request, s).request
    BY <1>4, <2>1 DEF Then, Outcome
  <2>5. QED BY <1>1, <1>2, <2>2, <2>3, <2>4 DEF done
<1>5. QED BY <1>3, <1>4

-----------------------------------------------------------------------------
(* The memory.  What it holds can be encoded: it is made of clean tokens.  *)

Clean == STRING \ Unencodable

LEMMA EncodableIs ==
    ASSUME NEW text \in Texts
    PROVE  Encodable(text) <=> text \in Seq(Clean)
<1>1. text \in Seq(STRING) /\ DOMAIN text = 1..Len(text) /\ Len(text) \in Nat
      /\ \A i \in 1..Len(text) : text[i] \in STRING
  BY LenProperties, ElementOfSeq DEF Texts
<1>2. ASSUME Encodable(text) PROVE text \in Seq(Clean)
  <2>1. \A i \in 1..Len(text) : text[i] \in Clean
    BY <1>1, <1>2 DEF Encodable, ToSet, Clean
  <2>2. text \in [1..Len(text) -> Clean]
    BY <1>1, <2>1, LenProperties
  <2>3. QED BY <1>1, <2>2, AsSeq
<1>3. ASSUME text \in Seq(Clean) PROVE Encodable(text)
  <2>1. \A i \in 1..Len(text) : text[i] \in Clean
    BY <1>3, ElementOfSeq
  <2>2. QED BY <1>1, <2>1 DEF Encodable, ToSet, Clean
<1>4. QED BY <1>2, <1>3

LEMMA BlanksClean == Blanks \subseteq Clean /\ {ContextHeader, SummaryHeader} \subseteq Clean
BY HeaderAssumption, TokenAssumption DEF Clean

LEMMA Extremes ==
    ASSUME NEW n \in Nat, NEW S, S \subseteq 1..n, S # {}
    PROVE  /\ Max(S) \in S /\ \A y \in S : Max(S) >= y
           /\ Min(S) \in S /\ \A y \in S : Min(S) <= y
<1> DEFINE M == {k \in Nat : \A T \in SUBSET (1..k) : T # {} =>
                    /\ \E x \in T : \A y \in T : x >= y
                    /\ \E x \in T : \A y \in T : x <= y}
<1>1. 0 \in M
  <2>1. \A T \in SUBSET (1..0) : T = {}
    OBVIOUS
  <2>2. QED BY <2>1
<1>2. ASSUME NEW k \in Nat, k \in M PROVE k + 1 \in M
  <2> SUFFICES ASSUME NEW T \in SUBSET (1..k + 1), T # {}
               PROVE  /\ \E x \in T : \A y \in T : x >= y
                      /\ \E x \in T : \A y \in T : x <= y
    OBVIOUS
  <2>1. CASE k + 1 \notin T
    <3>1. T \in SUBSET (1..k)
      BY <2>1
    <3>2. QED BY <1>2, <3>1
  <2>2. CASE k + 1 \in T
    <3>1. \A y \in T : k + 1 >= y /\ y \in Nat
      OBVIOUS
    <3>2. \E x \in T : \A y \in T : x <= y
      <4>1. CASE T = {k + 1}
        BY <4>1
      <4>2. CASE T # {k + 1}
        <5> DEFINE U == T \ {k + 1}
        <5>1. U \in SUBSET (1..k) /\ U # {}
          BY <2>2, <4>2
        <5>2. PICK x \in U : \A y \in U : x <= y
          BY <1>2, <5>1
        <5>3. x <= k + 1 /\ x \in T
          BY <3>1
        <5>4. QED BY <5>2, <5>3
      <4>3. QED BY <4>1, <4>2
    <3>3. QED BY <2>2, <3>1, <3>2
  <2>3. QED BY <2>1, <2>2
<1> HIDE DEF M
<1>3. n \in M
  BY <1>1, <1>2, NatSetInduction
<1>4. /\ \E x \in S : \A y \in S : x >= y
      /\ \E x \in S : \A y \in S : x <= y
  BY <1>3 DEF M
<1>5. QED BY <1>4 DEF Max, Min

LEMMA SubSeqType ==
    ASSUME NEW S, NEW s \in Seq(S), NEW a \in 1..Len(s) + 1, NEW b \in 0..Len(s)
    PROVE  SubSeq(s, a, b) \in Seq(S)
<1>1. Len(s) \in Nat
  BY LenProperties
<1>2. \A i \in a..b : s[i] \in S
  BY <1>1, ElementOfSeq
<1>3. a \in Int /\ b \in Int
  BY <1>1
<1>4. QED BY <1>2, <1>3, SubSeqProperties

LEMMA TrimmedIs ==
    ASSUME NEW S, NEW text \in Seq(S)
    PROVE  /\ Trimmed(text) \in Seq(S)
           /\ ToSet(text) \subseteq ToSet(Trimmed(text)) \union Blanks
<1> DEFINE solid == {i \in DOMAIN text : text[i] \notin Blanks}
           a == Min(solid)
           b == Max(solid)
<1>1. Len(text) \in Nat /\ DOMAIN text = 1..Len(text) /\ solid \subseteq 1..Len(text)
  BY LenProperties
<1>2. CASE solid = {}
  <2>1. Trimmed(text) = << >>
    BY <1>2 DEF Trimmed
  <2>2. ToSet(text) \subseteq Blanks
    BY <1>2 DEF ToSet
  <2>3. QED BY <2>1, <2>2
<1>3. CASE solid # {}
  <2>1. Trimmed(text) = SubSeq(text, a, b)
    BY <1>3 DEF Trimmed
  <2>2. b \in solid /\ (\A y \in solid : b >= y) /\ a \in solid /\ \A y \in solid : a <= y
    BY <1>1, <1>3, Extremes
  <2> HIDE DEF solid, a, b
  <2>3. a \in 1..Len(text) /\ b \in 1..Len(text) /\ a <= b
    BY <1>1, <2>2
  <2>4. /\ SubSeq(text, a, b) \in Seq(S) /\ Len(SubSeq(text, a, b)) = b - a + 1
        /\ \A i \in 1..b - a + 1 : SubSeq(text, a, b)[i] = text[a + i - 1]
    <3>1. \A i \in a..b : text[i] \in S
      BY <1>1, <2>3, ElementOfSeq
    <3>2. QED BY <1>1, <2>3, <3>1, SubSeqProperties
  <2>5. ASSUME NEW i \in DOMAIN text, text[i] \notin Blanks
        PROVE  text[i] \in ToSet(SubSeq(text, a, b))
    <3>1. i \in solid
      BY <2>5 DEF solid
    <3>2. i >= a /\ i <= b /\ i \in Int
      BY <1>1, <2>2, <3>1
    <3>3. i - a + 1 \in 1..b - a + 1 /\ a + (i - a + 1) - 1 = i
      BY <1>1, <2>3, <3>2
    <3>4. i - a + 1 \in DOMAIN SubSeq(text, a, b)
      BY <2>4, <3>3, LenProperties
    <3>5. SubSeq(text, a, b)[i - a + 1] = text[i]
      BY <2>4, <3>3
    <3>6. QED BY <3>4, <3>5 DEF ToSet
  <2>6. ToSet(text) \subseteq ToSet(SubSeq(text, a, b)) \union Blanks
    BY <2>5 DEF ToSet
  <2>7. QED BY <2>1, <2>4, <2>6
<1>4. QED BY <1>2, <1>3

\* What is ingested: facts and turns, of any tokens.
NodesOf(S) == [kind : {"fact", "turn"}, text : Seq(S)]

IngestedNodes(r) ==
    (IF r.system = NoSystem THEN << >> ELSE <<Node("fact", Trimmed(r.system))>>)
        \o [i \in DOMAIN r.messages |-> Node("turn", Trimmed(MessageText(r.messages[i])))]

LEMMA IngestibleIs ==
    ASSUME NEW r \in Requests
    PROVE  /\ IngestedNodes(r) \in Seq(NodesOf(STRING))
           /\ Ingestible(r) = Kept(IngestedNodes(r),
                                   {i \in DOMAIN IngestedNodes(r) : IngestedNodes(r)[i].text # << >>})
           /\ Ingestible(r) \in Seq(NodesOf(STRING))
<1> DEFINE facts == IF r.system = NoSystem THEN << >> ELSE <<Node("fact", Trimmed(r.system))>>
           turns == [i \in DOMAIN r.messages |-> Node("turn", Trimmed(MessageText(r.messages[i])))]
<1>1. facts \in Seq(NodesOf(STRING))
  <2>1. CASE r.system = NoSystem
    BY <2>1
  <2>2. CASE r.system # NoSystem
    <3>1. Trimmed(r.system) \in Seq(STRING)
      BY <2>2, RequestFields, TrimmedIs DEF Texts
    <3>2. Node("fact", Trimmed(r.system)) \in NodesOf(STRING)
      BY <3>1 DEF Node, NodesOf
    <3>3. \A x \in NodesOf(STRING) : <<x>> \in Seq(NodesOf(STRING))
      OBVIOUS
    <3>4. QED BY <2>2, <3>2, <3>3
  <2>3. QED BY <2>1, <2>2
<1>2. turns \in Seq(NodesOf(STRING))
  <2>1. ASSUME NEW i \in DOMAIN r.messages
        PROVE  Node("turn", Trimmed(MessageText(r.messages[i]))) \in NodesOf(STRING)
    <3>1. Trimmed(MessageText(r.messages[i])) \in Seq(STRING)
      BY RequestFields, MessageTextType, TrimmedIs DEF Texts
    <3>2. QED BY <3>1 DEF Node, NodesOf
  <2>2. turns \in [DOMAIN r.messages -> NodesOf(STRING)]
    BY <2>1
  <2> HIDE DEF turns
  <2>3. QED BY <2>2, RequestFields, AsSeq
<1>3. IngestedNodes(r) = facts \o turns
  BY DEF IngestedNodes
<1> HIDE DEF facts, turns
<1>4. IngestedNodes(r) \in Seq(NodesOf(STRING))
  BY <1>1, <1>2, <1>3, ConcatProperties
<1>5. Ingestible(r) = Kept(IngestedNodes(r),
                           {i \in DOMAIN IngestedNodes(r) : IngestedNodes(r)[i].text # << >>})
  BY DEF Ingestible, IngestedNodes
<1>6. QED BY <1>4, <1>5, KeptType

LEMMA CleanNode ==
    ASSUME NEW x \in NodesOf(STRING), Encodable(x.text)
    PROVE  x \in NodesOf(Clean)
<1>1. x.text \in Texts /\ x.kind \in {"fact", "turn"} /\ x = [kind |-> x.kind, text |-> x.text]
  BY DEF NodesOf, Texts
<1>2. x.text \in Seq(Clean)
  BY <1>1, EncodableIs
<1>3. QED BY <1>1, <1>2 DEF NodesOf

\* The memory: nodes that can be encoded, each once, and edges that join them.
GraphsOf(N) == [nodes : Seq(N), edges : Seq([src : N, dst : N])]

Sound(g) ==
    /\ g \in GraphsOf(NodesOf(Clean))
    /\ IsInjective(g.nodes)
    /\ \A i \in DOMAIN g.edges : {g.edges[i].src, g.edges[i].dst} \subseteq ToSet(g.nodes)

LEMMA NoGraphSound == Sound(NoGraph)
<1>1. NoGraph = [nodes |-> << >>, edges |-> << >>]
  BY DEF NoGraph
<1>2. << >> \in Seq(NodesOf(Clean)) /\ << >> \in Seq([src : NodesOf(Clean), dst : NodesOf(Clean)])
      /\ DOMAIN << >> = {}
  OBVIOUS
<1>3. QED BY <1>1, <1>2 DEF Sound, GraphsOf, IsInjective

LEMMA WithNodeIs ==
    ASSUME NEW g, Sound(g), NEW x \in NodesOf(Clean)
    PROVE  /\ Sound(WithNode(g, x)) /\ WithNode(g, x).edges = g.edges
           /\ ToSet(g.nodes) \union {x} = ToSet(WithNode(g, x).nodes)
<1> DEFINE N == NodesOf(Clean)
<1>1. g.nodes \in Seq(N) /\ g.edges \in Seq([src : N, dst : N])
      /\ g = [nodes |-> g.nodes, edges |-> g.edges]
  BY DEF Sound, GraphsOf
<1> HIDE DEF N
<1>2. CASE x \in ToSet(g.nodes)
  BY <1>2 DEF WithNode
<1>3. CASE x \notin ToSet(g.nodes)
  <2> DEFINE nodes == Append(g.nodes, x)
  <2>1. WithNode(g, x) = [nodes |-> nodes, edges |-> g.edges]
    BY <1>1, <1>3 DEF WithNode
  <2>2. /\ nodes \in Seq(N) /\ Len(nodes) = Len(g.nodes) + 1 /\ Len(g.nodes) \in Nat
        /\ \A i \in 1..Len(g.nodes) : nodes[i] = g.nodes[i]
        /\ nodes[Len(g.nodes) + 1] = x
        /\ DOMAIN g.nodes = 1..Len(g.nodes) /\ DOMAIN nodes = 1..Len(g.nodes) + 1
    BY <1>1, AppendProperties, LenProperties DEF N
  <2> HIDE DEF nodes
  <2>3. \A i \in 1..Len(g.nodes) : g.nodes[i] # x
    BY <1>3, <2>2 DEF ToSet
  <2>4. IsInjective(nodes)
    <3> SUFFICES ASSUME NEW a \in DOMAIN nodes, NEW b \in DOMAIN nodes, nodes[a] = nodes[b]
                 PROVE  a = b
      BY DEF IsInjective
    <3>1. a \in 1..Len(g.nodes) \/ a = Len(g.nodes) + 1
      BY <2>2
    <3>2. b \in 1..Len(g.nodes) \/ b = Len(g.nodes) + 1
      BY <2>2
    <3>3. \A c, d \in 1..Len(g.nodes) : g.nodes[c] = g.nodes[d] => c = d
      BY <2>2 DEF Sound, IsInjective
    <3>4. QED BY <2>2, <2>3, <3>1, <3>2, <3>3
  <2>5. ToSet(nodes) = ToSet(g.nodes) \union {x}
    <3>1. DOMAIN nodes = DOMAIN g.nodes \union {Len(g.nodes) + 1}
      BY <2>2
    <3>2. QED BY <2>2, <3>1 DEF ToSet
  <2>6. WithNode(g, x).nodes = nodes /\ WithNode(g, x).edges = g.edges
    BY <2>1
  <2>7. WithNode(g, x) \in GraphsOf(N)
    BY <1>1, <2>1, <2>2 DEF GraphsOf
  <2>8. QED BY <2>4, <2>5, <2>6, <2>7 DEF Sound, N
<1>4. QED BY <1>2, <1>3

LEMMA WithTurnIs ==
    ASSUME NEW g, Sound(g), NEW nodes \in Seq(NodesOf(Clean)), NEW i \in DOMAIN nodes,
           i > 1 => nodes[i - 1] \in ToSet(g.nodes)
    PROVE  /\ Sound(WithTurn(g, nodes, i))
           /\ ToSet(g.nodes) \union {nodes[i]} = ToSet(WithTurn(g, nodes, i).nodes)
<1> DEFINE N == NodesOf(Clean)
           E == [src : N, dst : N]
           h == WithNode(g, nodes[i])
           e == Edge(nodes[i - 1], nodes[i])
<1>1. i \in 1..Len(nodes) /\ Len(nodes) \in Nat /\ nodes[i] \in N
  BY LenProperties, ElementOfSeq
<1>2. Sound(h) /\ ToSet(g.nodes) \union {nodes[i]} = ToSet(h.nodes)
  BY <1>1, WithNodeIs
<1>3. CASE i > 1 /\ nodes[i - 1].kind = "turn"
  <2>1. i - 1 \in 1..Len(nodes)
    BY <1>1, <1>3
  <2>2. nodes[i - 1] \in N
    BY <2>1, ElementOfSeq
  <2>3. e \in E /\ e.src = nodes[i - 1] /\ e.dst = nodes[i]
    BY <1>1, <2>2 DEF Edge
  <2>4. WithTurn(g, nodes, i) = [h EXCEPT !.edges = Append(@, e)]
    BY <1>3 DEF WithTurn
  <2>5. h.nodes \in Seq(N) /\ h.edges \in Seq(E) /\ h = [nodes |-> h.nodes, edges |-> h.edges]
    BY <1>2 DEF Sound, GraphsOf
  <2> HIDE DEF E, e, h, N
  <2>6. /\ Append(h.edges, e) \in Seq(E) /\ Len(h.edges) \in Nat
        /\ DOMAIN Append(h.edges, e) = 1..Len(h.edges) + 1 /\ DOMAIN h.edges = 1..Len(h.edges)
        /\ \A k \in 1..Len(h.edges) : Append(h.edges, e)[k] = h.edges[k]
        /\ Append(h.edges, e)[Len(h.edges) + 1] = e
    BY <2>3, <2>5, AppendProperties, LenProperties
  <2> DEFINE edges == Append(h.edges, e)
  <2> HIDE DEF edges
  <2>7. WithTurn(g, nodes, i) = [nodes |-> h.nodes, edges |-> edges]
    BY <2>4, <2>5 DEF edges
  <2>8. WithTurn(g, nodes, i) \in GraphsOf(N)
    BY <2>5, <2>6, <2>7 DEF GraphsOf, E, edges
  <2>9. ASSUME NEW k \in DOMAIN edges
        PROVE  {edges[k].src, edges[k].dst} \subseteq ToSet(h.nodes)
    <3>1. CASE k \in 1..Len(h.edges)
      BY <1>2, <2>6, <3>1 DEF Sound, edges
    <3>2. CASE k = Len(h.edges) + 1
      BY <1>2, <1>3, <2>3, <2>6, <3>2 DEF edges
    <3>3. QED BY <2>6, <3>1, <3>2 DEF edges
  <2>10. WithTurn(g, nodes, i).nodes = h.nodes /\ WithTurn(g, nodes, i).edges = edges
    BY <2>7
  <2>11. Sound(WithTurn(g, nodes, i))
    BY <1>2, <2>8, <2>9, <2>10 DEF Sound, N
  <2>12. QED BY <1>2, <2>10, <2>11
<1>4. CASE ~(i > 1 /\ nodes[i - 1].kind = "turn")
  BY <1>2, <1>4 DEF WithTurn
<1>5. QED BY <1>3, <1>4

LEMMA WithTurnType ==
    ASSUME NEW N, NEW g \in GraphsOf(N), NEW nodes \in Seq(N), NEW i \in DOMAIN nodes
    PROVE  WithTurn(g, nodes, i) \in GraphsOf(N)
<1> DEFINE E == [src : N, dst : N]
           h == WithNode(g, nodes[i])
<1>1. i \in 1..Len(nodes) /\ Len(nodes) \in Nat /\ nodes[i] \in N
  BY LenProperties, ElementOfSeq
<1>2. g.nodes \in Seq(N) /\ g.edges \in Seq(E) /\ g = [nodes |-> g.nodes, edges |-> g.edges]
  BY DEF GraphsOf
<1> HIDE DEF E
<1>3. h.nodes \in Seq(N) /\ h.edges \in Seq(E) /\ h = [nodes |-> h.nodes, edges |-> h.edges]
  <2>1. CASE nodes[i] \in ToSet(g.nodes)
    BY <1>2, <2>1 DEF WithNode
  <2>2. CASE nodes[i] \notin ToSet(g.nodes)
    <3> DEFINE more == Append(g.nodes, nodes[i])
    <3>1. more \in Seq(N)
      BY <1>1, <1>2, AppendProperties
    <3>2. h = [g EXCEPT !.nodes = more]
      BY <2>2 DEF WithNode
    <3> HIDE DEF more, h
    <3>3. h = [nodes |-> more, edges |-> g.edges]
      BY <1>2, <3>2
    <3>4. QED BY <1>2, <3>1, <3>3
  <2>3. QED BY <2>1, <2>2
<1>4. CASE i > 1 /\ nodes[i - 1].kind = "turn"
  <2> DEFINE e == Edge(nodes[i - 1], nodes[i])
             edges == Append(h.edges, e)
  <2>1. i - 1 \in 1..Len(nodes)
    BY <1>1, <1>4
  <2>2. nodes[i - 1] \in N
    BY <2>1, ElementOfSeq
  <2>3. e \in E
    BY <1>1, <2>2 DEF Edge, E
  <2>4. WithTurn(g, nodes, i) = [h EXCEPT !.edges = edges]
    BY <1>4 DEF WithTurn
  <2> HIDE DEF e, h
  <2>5. edges \in Seq(E)
    BY <1>3, <2>3, AppendProperties
  <2> HIDE DEF edges
  <2>6. WithTurn(g, nodes, i) = [nodes |-> h.nodes, edges |-> edges]
    BY <1>3, <2>4
  <2>7. QED BY <1>3, <2>5, <2>6 DEF GraphsOf, E
<1>5. CASE ~(i > 1 /\ nodes[i - 1].kind = "turn")
  <2>1. WithTurn(g, nodes, i) = h
    BY <1>5 DEF WithTurn
  <2> HIDE DEF h
  <2>2. QED BY <1>3, <2>1 DEF GraphsOf, E
<1>6. QED BY <1>4, <1>5

\* What is ingested keeps the memory sound, wherever it stops.
LEMMA IngestedSound ==
    ASSUME NEW g, Sound(g), NEW r \in Requests
    PROVE  Sound(Ingested(g, r))
<1> DEFINE nodes == Ingestible(r)
           I == {i \in 1..Len(nodes) : ~Encodable(nodes[i].text)}
           bad == SelectInSeq(nodes, LAMBDA node : ~Encodable(node.text))
           N == IF bad = 0 THEN Len(nodes) ELSE bad - 1
           f == CHOOSE h : h = [n \in 0..N |-> IF n = 0 THEN g ELSE WithTurn(h[n - 1], nodes, n)]
           clean == SubSeq(nodes, 1, N)
           X == GraphsOf(NodesOf(Clean))
           G == [p \in X \X (1..N) |-> WithTurn(p[1], clean, p[2])]
<1>1. nodes \in Seq(NodesOf(STRING)) /\ Len(nodes) \in Nat
  BY IngestibleIs, LenProperties
<1>2. Ingested(g, r) = f[N]
  BY DEF Ingested
<1>3. bad = IF I # {} THEN Min(I) ELSE 0
  BY DEF SelectInSeq
<1> HIDE DEF nodes, bad, f
<1>4. /\ N \in 0..Len(nodes) /\ \A i \in 1..N : Encodable(nodes[i].text)
  <2>1. CASE I = {}
    BY <1>1, <1>3, <2>1
  <2>2. CASE I # {}
    <3>1. Min(I) \in I /\ \A y \in I : Min(I) <= y
      BY <1>1, <2>2, Extremes
    <3>2. bad = Min(I)
      BY <1>3, <2>2
    <3>3. bad \in 1..Len(nodes) /\ \A i \in 1..Len(nodes) : i < bad => Encodable(nodes[i].text)
      <4>1. bad \in I /\ \A y \in I : bad <= y
        BY <3>1, <3>2
      <4>2. ASSUME NEW i \in 1..Len(nodes), i < bad PROVE i \notin I
        <5> HIDE DEF I
        <5>1. i \in I => bad <= i
          BY <4>1
        <5>2. bad \in Int
          BY <1>1, <4>1 DEF I
        <5>3. QED BY <1>1, <4>2, <5>1, <5>2
      <4>3. QED BY <4>1, <4>2
    <3>4. N = bad - 1
      BY <3>3
    <3>5. QED BY <1>1, <3>3, <3>4
  <2>3. QED BY <2>1, <2>2
<1> HIDE DEF N, I
<1>5. \A i \in 1..N : nodes[i] \in NodesOf(Clean)
  BY <1>1, <1>4, CleanNode, ElementOfSeq
<1>6. /\ clean \in Seq(NodesOf(Clean)) /\ Len(clean) = N /\ DOMAIN clean = 1..N
      /\ \A i \in 1..N : clean[i] = nodes[i]
  BY <1>1, <1>4, <1>5, SubSeqProperties, LenProperties
<1> HIDE DEF clean
<1>7. ASSUME NEW x, NEW n \in 1..N
      PROVE  WithTurn(x, nodes, n) = WithTurn(x, clean, n)
  <2>1. n > 1 => n - 1 \in 1..N
    BY <1>1, <1>4
  <2>2. n > 1 => clean[n - 1] = nodes[n - 1]
    BY <1>6, <2>1
  <2>3. clean[n] = nodes[n]
    BY <1>6
  <2>4. QED BY <2>2, <2>3 DEF WithTurn
<1>8. /\ G \in [X \X (1..N) -> X] /\ g \in X /\ N \in Nat
      /\ \A x \in X, n \in 1..N : G[<<x, n>>] = WithTurn(x, clean, n)
  <2>1. \A x \in X, n \in 1..N : WithTurn(x, clean, n) \in X
    BY <1>6, WithTurnType
  <2>2. g \in X /\ N \in Nat
    BY <1>1, <1>4 DEF Sound
  <2> HIDE DEF X
  <2>3. QED BY <2>1, <2>2
<1> HIDE DEF G, X
<1>9. PICK h : Recursion(h, X, g, N, G)
  BY <1>8, RecursionExists
<1>10. h = [n \in 0..N |-> IF n = 0 THEN g ELSE WithTurn(h[n - 1], nodes, n)]
  <2>1. \A n \in 0..N : n # 0 => h[n - 1] \in X /\ n \in 1..N
    BY <1>8, <1>9 DEF Recursion
  <2>2. \A n \in 0..N : n # 0 => G[<<h[n - 1], n>>] = WithTurn(h[n - 1], nodes, n)
    BY <1>7, <1>8, <2>1
  <2>3. QED BY <1>9, <2>2 DEF Recursion
<1>11. f = [n \in 0..N |-> IF n = 0 THEN g ELSE WithTurn(f[n - 1], nodes, n)]
  BY <1>10 DEF f
<1> DEFINE M == {n \in Nat : Sound(f[n]) /\ \A i \in 1..n : clean[i] \in ToSet(f[n].nodes)}
<1>12. 0 \in M
  <2>1. f[0] = g
    BY <1>8, <1>11
  <2>2. \A i \in 1..0 : FALSE
    OBVIOUS
  <2>3. QED BY <2>1, <2>2
<1>13. ASSUME NEW n \in Nat, n < Len(clean), n \in M PROVE n + 1 \in M
  <2>1. n + 1 \in 0..N /\ n + 1 \in 1..N /\ n + 1 # 0 /\ (n + 1) - 1 = n
    BY <1>6, <1>8, <1>13
  <2>2. f[n + 1] = WithTurn(f[n], clean, n + 1)
    BY <1>7, <1>11, <2>1
  <2>3. Sound(f[n]) /\ \A i \in 1..n : clean[i] \in ToSet(f[n].nodes)
    BY <1>13
  <2>4. n + 1 > 1 => clean[(n + 1) - 1] \in ToSet(f[n].nodes)
    BY <2>1, <2>3
  <2>5. n + 1 \in DOMAIN clean
    BY <1>6, <2>1
  <2>6. /\ Sound(WithTurn(f[n], clean, n + 1))
        /\ ToSet(f[n].nodes) \union {clean[n + 1]} = ToSet(WithTurn(f[n], clean, n + 1).nodes)
    BY <1>6, <2>3, <2>4, <2>5, WithTurnIs
  <2>7. \A i \in 1..n + 1 : i \in 1..n \/ i = n + 1
    OBVIOUS
  <2> HIDE DEF M
  <2>8. Sound(f[n + 1]) /\ \A i \in 1..n + 1 : clean[i] \in ToSet(f[n + 1].nodes)
    BY <2>2, <2>3, <2>6, <2>7
  <2>9. QED BY <2>8 DEF M
<1> HIDE DEF M
<1>14. N \in M
  BY <1>6, <1>8, <1>12, <1>13, PartsInduction
<1>15. QED BY <1>2, <1>14 DEF M

-----------------------------------------------------------------------------
(* Retrieval, summaries, and the request that is rewritten with them.      *)

LEMMA FirstOfIs ==
    ASSUME NEW S, NEW s \in Seq(S), NEW n \in Int
    PROVE  FirstOf(s, n) \in Seq(S)
<1> DEFINE m == CASE n < 0 -> Len(s) + n
                  [] n \in 0..Len(s) -> n
                  [] n > Len(s) -> Len(s)
<1>0. Len(s) \in Nat
  BY LenProperties
<1>1. Len(s) \in Nat /\ m \in Int /\ m <= Len(s)
  BY <1>0
<1>2. FirstOf(s, n) = SubSeq(s, 1, m)
  BY DEF FirstOf
<1> HIDE DEF m
<1>3. \A i \in 1..m : s[i] \in S
  BY <1>1, ElementOfSeq
<1>4. QED BY <1>1, <1>2, <1>3, SubSeqProperties

LEMMA RankedIs ==
    ASSUME NEW N, NEW g, g.nodes \in Seq(N), NEW terms
    PROVE  Ranked(g, terms) \in Seq(N)
<1> DEFINE found == Kept(g.nodes, {i \in DOMAIN g.nodes : Overlap(g.nodes[i], terms) > 0})
           Ahead(i) == {j \in DOMAIN found : Better(found[j], found[i], terms)}
           Place(n) == {i \in DOMAIN found : Cardinality(Ahead(i)) = n - 1}
           parts == [n \in DOMAIN found |-> Kept(found, Place(n))]
<1>1. found \in Seq(N)
  BY KeptType
<1>2. Ranked(g, terms) = FlattenSeq(parts)
  BY DEF Ranked
<1> HIDE DEF found, Place
<1>3. parts \in [DOMAIN found -> Seq(N)]
  BY <1>1, KeptType
<1> HIDE DEF parts
<1>4. parts \in Seq(Seq(N))
  BY <1>1, <1>3, AsSeq
<1>5. QED BY <1>2, <1>4, FlattenType

LEMMA RelevantIs ==
    ASSUME NEW g, Sound(g), NEW query, NEW limit \in Int
    PROVE  Relevant(g, query, limit) \in Seq(Seq(Clean))
<1> DEFINE best == FirstOf(Ranked(g, Terms(query)), limit)
           texts == [i \in DOMAIN best |-> best[i].text]
<1>1. g.nodes \in Seq(NodesOf(Clean))
  BY DEF Sound, GraphsOf
<1>2. best \in Seq(NodesOf(Clean))
  BY <1>1, RankedIs, FirstOfIs
<1>3. Relevant(g, query, limit) = texts
  BY DEF Relevant
<1> HIDE DEF best
<1>4. \A i \in DOMAIN best : best[i] \in NodesOf(Clean)
  BY <1>2, LenProperties, ElementOfSeq
<1>5. texts \in [DOMAIN best -> Seq(Clean)]
  BY <1>4 DEF NodesOf
<1> HIDE DEF texts
<1>6. QED BY <1>2, <1>3, <1>5, AsSeq

LEMMA LeadIs ==
    ASSUME NEW S, NEW text \in Seq(S)
    PROVE  Lead(text) \in Seq(S)
<1> DEFINE trimmed == Trimmed(text)
           I == {i \in 1..Len(trimmed) : trimmed[i] = Newline}
           end == SelectInSeq(trimmed, LAMBDA t : t = Newline)
<1>1. trimmed \in Seq(S) /\ Len(trimmed) \in Nat
  BY TrimmedIs, LenProperties
<1>2. Lead(text) = IF end = 0 THEN trimmed ELSE SubSeq(trimmed, 1, end - 1)
  BY DEF Lead
<1>3. end = IF I # {} THEN Min(I) ELSE 0
  BY DEF SelectInSeq
<1> HIDE DEF trimmed, end
<1>4. end \in 0..Len(trimmed)
  <2>1. CASE I = {}
    BY <1>1, <1>3, <2>1
  <2>2. CASE I # {}
    <3>1. Min(I) \in I
      BY <1>1, <2>2, Extremes
    <3>2. end \in I
      BY <1>3, <2>2, <3>1
    <3>3. QED BY <1>1, <3>2
  <2>3. QED BY <2>1, <2>2
<1>5. CASE end = 0
  BY <1>1, <1>2, <1>5
<1>6. CASE end # 0
  <2>1. end - 1 \in 0..Len(trimmed) /\ 1 \in 1..Len(trimmed) + 1
    BY <1>1, <1>4, <1>6
  <2>2. SubSeq(trimmed, 1, end - 1) \in Seq(S)
    BY <1>1, <2>1, SubSeqType
  <2>3. QED BY <1>2, <1>6, <2>2
<1>7. QED BY <1>5, <1>6

LEMMA LeadsAre ==
    ASSUME NEW S, NEW texts \in Seq(Seq(S)), NEW items \in Int
    PROVE  Leads(texts, items) \in Seq(Seq(S))
<1> DEFINE leads == [i \in DOMAIN texts |-> Lead(texts[i])]
           New(i) == leads[i] # << >> /\ \A j \in 1..i - 1 : leads[j] # leads[i]
           parts == [i \in DOMAIN leads |-> IF New(i) THEN <<leads[i]>> ELSE << >>]
           most == IF items < 1 THEN 1 ELSE items
<1>1. Leads(texts, items) = FirstOf(FlattenSeq(parts), most) /\ most \in Int
  BY DEF Leads
<1> HIDE DEF most
<1>2. leads \in [DOMAIN texts -> Seq(S)]
  <2>1. \A i \in DOMAIN texts : texts[i] \in Seq(S)
    BY LenProperties, ElementOfSeq
  <2>2. QED BY <2>1, LeadIs
<1> HIDE DEF leads
<1>3. leads \in Seq(Seq(S))
  BY <1>2, AsSeq
<1>4. \A i \in DOMAIN leads : leads[i] \in Seq(S)
  BY <1>3, LenProperties, ElementOfSeq
<1> HIDE DEF New
<1>5. parts \in [DOMAIN leads -> Seq(Seq(S))]
  <2>1. \A w \in Seq(S) : <<w>> \in Seq(Seq(S))
    OBVIOUS
  <2>2. << >> \in Seq(Seq(S))
    OBVIOUS
  <2>3. QED BY <1>4, <2>1, <2>2
<1> HIDE DEF parts
<1>6. parts \in Seq(Seq(Seq(S)))
  BY <1>3, <1>5, AsSeq
<1>7. FlattenSeq(parts) \in Seq(Seq(S))
  BY <1>6, FlattenType
<1>8. QED BY <1>1, <1>7, FirstOfIs

LEMMA BulletedIs ==
    ASSUME NEW S, NEW header \in S, Newline \in S, NEW points \in Seq(Seq(S))
    PROVE  Bulleted(header, points) \in Seq(S)
<1> DEFINE parts == [i \in DOMAIN points |-> points[i] \o <<Newline>>]
<1>1. <<Newline>> \in Seq(S) /\ <<header, Newline>> \in Seq(S)
  OBVIOUS
<1>2. parts \in [DOMAIN points -> Seq(S)]
  <2>1. \A i \in DOMAIN points : points[i] \in Seq(S)
    BY LenProperties, ElementOfSeq
  <2>2. \A i \in DOMAIN points : points[i] \o <<Newline>> \in Seq(S)
    BY <1>1, <2>1, ConcatProperties
  <2>3. QED BY <2>2
<1>3. Bulleted(header, points) = (<<header, Newline>> \o FlattenSeq(parts)) \o <<Newline>>
  BY DEF Bulleted
<1> HIDE DEF parts
<1>4. FlattenSeq(parts) \in Seq(S)
  BY <1>2, AsSeq, FlattenType
<1>5. <<header, Newline>> \o FlattenSeq(parts) \in Seq(S)
  BY <1>1, <1>4, ConcatProperties
<1> DEFINE x == <<header, Newline>> \o FlattenSeq(parts)
<1> HIDE DEF x
<1>6. x \o <<Newline>> \in Seq(S)
  BY <1>1, <1>5, ConcatProperties DEF x
<1>7. QED BY <1>3, <1>6 DEF x

LEMMA WindowStartIs ==
    ASSUME NEW r \in Requests, NEW keep \in Int, keep > 0,
           WindowStart(r.messages, keep) > 1
    PROVE  /\ WindowStart(r.messages, keep) \in 2..Len(r.messages) - keep + 1
           /\ r.messages[WindowStart(r.messages, keep)].role = "user"
<1> DEFINE messages == r.messages
           target == IF keep < Len(messages) THEN Len(messages) - keep + 1 ELSE 1
           starts == {i \in 1..target : IsUser(messages[i])}
           start == WindowStart(messages, keep)
<1>1. Len(messages) \in Nat
  BY RequestFields
<1>2. start = IF starts = {} THEN 0 ELSE Max(starts)
  BY DEF WindowStart
<1>3. start > 1
  OBVIOUS
<1> HIDE DEF start, messages
<1>4. starts # {}
  BY <1>2, <1>3
<1>5. target \in Nat /\ (target # 1 => keep < Len(messages) /\ target = Len(messages) - keep + 1)
  BY <1>1
<1> HIDE DEF target
<1>6. Max(starts) \in starts
  BY <1>4, <1>5, Extremes
<1>7. start \in 1..target /\ IsUser(messages[start])
  BY <1>2, <1>4, <1>6
<1>8. start \in 2..target
  BY <1>3, <1>5, <1>7
<1>9. QED BY <1>1, <1>5, <1>7, <1>8 DEF IsUser, start, messages

Headed(m, header) == [m EXCEPT !.spans = <<Span(header, FALSE)>> \o @]

\* A request without its older turns.
Windowed(a, b, start, header) ==
    /\ start \in 2..Len(a.messages)
    /\ b.dialect = a.dialect /\ b.system = a.system /\ b.tools = a.tools /\ b.breakpoint = 0
    /\ Len(b.messages) = Len(a.messages) - start + 1
    /\ b.messages[1] = Headed(a.messages[start], header)
    /\ \A i \in 2..Len(b.messages) : b.messages[i] = a.messages[start + i - 1]

LEMMA PrependIs ==
    ASSUME NEW S, NEW e \in S, NEW s \in Seq(S)
    PROVE  /\ <<e>> \o s \in Seq(S) /\ Len(s) \in Nat /\ Len(<<e>> \o s) = Len(s) + 1
           /\ (<<e>> \o s)[1] = e
           /\ \A i \in 2..Len(s) + 1 : (<<e>> \o s)[i] = s[i - 1]
           /\ DOMAIN (<<e>> \o s) = 1..Len(s) + 1 /\ DOMAIN s = 1..Len(s)
<1> DEFINE f == <<e>>
           w == f \o s
<1>1. f \in Seq(S) /\ Len(f) = 1 /\ f[1] = e
  OBVIOUS
<1> HIDE DEF f
<1>2. /\ w \in Seq(S) /\ Len(w) = Len(f) + Len(s)
      /\ \A i \in 1..Len(f) + Len(s) : w[i] = IF i <= Len(f) THEN f[i] ELSE s[i - Len(f)]
  BY <1>1, ConcatProperties
<1> HIDE DEF w
<1>3. Len(s) \in Nat /\ DOMAIN s = 1..Len(s) /\ DOMAIN w = 1..Len(w)
  BY <1>2, LenProperties
<1>4. w[1] = e /\ \A i \in 2..Len(s) + 1 : w[i] = s[i - 1]
  BY <1>1, <1>2, <1>3
<1>5. Len(w) = Len(s) + 1
  BY <1>1, <1>2, <1>3
<1>6. QED BY <1>2, <1>3, <1>4, <1>5 DEF w, f

LEMMA HeadedIs ==
    ASSUME NEW m \in Messages, m.raw = NoRaw, NEW header \in Texts
    PROVE  /\ Headed(m, header) \in Messages
           /\ Headed(m, header).role = m.role /\ Headed(m, header).raw = NoRaw
           /\ Headed(m, header).spans = <<Span(header, FALSE)>> \o m.spans
           /\ MessageText(Headed(m, header)) = header \o MessageText(m)
<1> DEFINE first == <<Span(header, FALSE)>>
           spans == first \o m.spans
<1>1. m.spans \in Seq(SpanSet)
  BY MessageFields
<1>2. Span(header, FALSE) \in SpanSet /\ Span(header, FALSE).text = header
  BY DEF Span, SpanSet
<1>3. first \in Seq(SpanSet)
  <2>1. \A x \in SpanSet : <<x>> \in Seq(SpanSet)
    OBVIOUS
  <2>2. QED BY <1>2, <2>1
<1>4. Headed(m, header) = [m EXCEPT !.spans = spans]
  BY DEF Headed
<1>5. spans \in Seq(SpanSet)
  BY <1>1, <1>3, ConcatProperties
<1>6. SpansText(spans) = header \o SpansText(m.spans)
  <2> DEFINE t == SpanTexts(m.spans)
             u == SpanTexts(spans)
             h == <<header>>
  <2>1. /\ t \in Seq(Texts) /\ Len(t) = Len(m.spans) /\ SpansText(m.spans) = FlattenSeq(t)
        /\ u \in Seq(Texts) /\ Len(u) = Len(spans) /\ SpansText(spans) = FlattenSeq(u)
    BY <1>1, <1>5, SpanTextsType
  <2>2. h \in Seq(Texts) /\ Len(h) = 1 /\ h[1] = header
    <3>1. \A w \in Texts : <<w>> \in Seq(Texts) /\ Len(<<w>>) = 1 /\ <<w>>[1] = w
      OBVIOUS
    <3>2. QED BY <3>1
  <2>3. /\ Len(spans) = Len(m.spans) + 1 /\ Len(m.spans) \in Nat
        /\ spans[1] = Span(header, FALSE)
        /\ \A i \in 2..Len(m.spans) + 1 : spans[i] = m.spans[i - 1]
        /\ DOMAIN spans = 1..Len(m.spans) + 1 /\ DOMAIN m.spans = 1..Len(m.spans)
    BY <1>1, <1>2, PrependIs
  <2> HIDE DEF first, spans
  <2>4. u = h \o t
    <3>1. u[1] = header
      <4>1. 1 \in DOMAIN spans
        BY <2>3
      <4>2. QED BY <1>2, <2>3, <4>1 DEF SpanTexts
    <3>2. ASSUME NEW i \in 2..Len(m.spans) + 1 PROVE u[i] = t[i - 1]
      <4>1. i \in DOMAIN spans /\ i - 1 \in DOMAIN m.spans
        BY <2>3
      <4>2. QED BY <2>3, <4>1 DEF SpanTexts
    <3> HIDE DEF u, t
    <3> DEFINE w == h \o t
    <3>3. /\ w \in Seq(Texts) /\ Len(w) = Len(t) + 1
          /\ w[1] = header /\ \A i \in 2..Len(t) + 1 : w[i] = t[i - 1]
      BY <2>1, PrependIs DEF h
    <3> HIDE DEF w
    <3>4. \A i \in 1..Len(u) : u[i] = w[i]
      <4>1. \A i \in 1..Len(m.spans) + 1 : i = 1 \/ i \in 2..Len(m.spans) + 1
        BY <2>3
      <4>2. QED BY <2>1, <2>3, <3>1, <3>2, <3>3, <4>1
    <3>5. Len(u) = Len(w)
      BY <2>1, <2>3, <3>3
    <3>6. QED BY <2>1, <3>3, <3>4, <3>5, SeqEqual DEF w
  <2> HIDE DEF t, u, h
  <2>5. FlattenSeq(h \o t) = FlattenSeq(h) \o FlattenSeq(t)
    BY <2>1, <2>2, FlattenConcat DEF Texts
  <2>6. FlattenSeq(h) = header
    BY FlattenSingle DEF h, Texts
  <2>7. QED BY <2>1, <2>4, <2>5, <2>6
<1> HIDE DEF spans
<1>7. /\ Headed(m, header) \in Messages /\ Headed(m, header).role = m.role
      /\ Headed(m, header).raw = NoRaw /\ Headed(m, header).spans = spans
  BY <1>4, <1>5, WithSpans
<1>8. MessageText(Headed(m, header)) = header \o MessageText(m)
  BY <1>6, <1>7 DEF MessageText
<1>9. QED BY <1>7, <1>8 DEF spans

LEMMA RewriteIs ==
    ASSUME NEW r \in Requests, NEW start \in 2..Len(r.messages), r.messages[start].raw = NoRaw,
           NEW header \in Texts
    PROVE  Rewrite(r, start, header) \in Requests /\ Windowed(r, Rewrite(r, start, header), start, header)
<1> DEFINE L == Len(r.messages)
           kept == SubSeq(r.messages, start, L)
           first == Headed(kept[1], header)
           messages == <<first>> \o Tail(kept)
           n == Rewrite(r, start, header)
<1>1. r.messages \in Seq(Messages) /\ L \in Nat /\ \A i \in 1..L : r.messages[i] \in Messages
  BY RequestFields
<1> HIDE DEF L
<1>2. start \in 2..L
  BY DEF L
<1>3. /\ kept \in Seq(Messages) /\ Len(kept) = L - start + 1
      /\ \A i \in 1..L - start + 1 : kept[i] = r.messages[start + i - 1]
  <2>1. \A i \in start..L : r.messages[i] \in Messages
    BY <1>1, <1>2
  <2>2. QED BY <1>1, <1>2, <2>1, SubSeqProperties
<1> HIDE DEF kept
<1>4. kept[1] = r.messages[start] /\ kept[1] \in Messages /\ kept # << >>
  <2>1. 1 \in 1..L - start + 1 /\ start + 1 - 1 = start
    BY <1>1, <1>2
  <2>2. Len(kept) # 0
    BY <1>1, <1>2, <1>3
  <2>3. QED BY <1>1, <1>2, <1>3, <2>1, <2>2
<1>5. first \in Messages
  BY <1>4, HeadedIs
<1>6. /\ Tail(kept) \in Seq(Messages) /\ Len(Tail(kept)) = L - start
      /\ \A i \in 1..L - start : Tail(kept)[i] = r.messages[start + i]
  <2>1. /\ Tail(kept) \in Seq(Messages) /\ Len(Tail(kept)) = Len(kept) - 1
        /\ \A i \in 1..Len(Tail(kept)) : Tail(kept)[i] = kept[i + 1]
    BY <1>3, <1>4, HeadTailProperties
  <2>2. ASSUME NEW i \in 1..L - start PROVE Tail(kept)[i] = r.messages[start + i]
    <3>1. i \in 1..Len(Tail(kept)) /\ i + 1 \in 1..L - start + 1 /\ start + (i + 1) - 1 = start + i
      BY <1>1, <1>2, <1>3, <2>1
    <3>2. QED BY <1>3, <2>1, <3>1
  <2>3. QED BY <1>1, <1>2, <1>3, <2>1, <2>2
<1>7. n = [r EXCEPT !.messages = messages, !.breakpoint = 0]
  BY DEF Rewrite, Headed, kept, L
<1> HIDE DEF first, n
<1>8. /\ messages \in Seq(Messages) /\ Len(messages) = L - start + 1
      /\ messages[1] = first
      /\ \A i \in 2..L - start + 1 : messages[i] = r.messages[start + i - 1]
  <2> DEFINE b == Tail(kept)
  <2>1. b \in Seq(Messages) /\ Len(b) = L - start /\ \A i \in 1..L - start : b[i] = r.messages[start + i]
    BY <1>6
  <2> HIDE DEF b
  <2>2. /\ <<first>> \o b \in Seq(Messages) /\ Len(<<first>> \o b) = Len(b) + 1
        /\ (<<first>> \o b)[1] = first
        /\ \A i \in 2..Len(b) + 1 : (<<first>> \o b)[i] = b[i - 1]
    BY <1>5, <2>1, PrependIs
  <2> DEFINE w == <<first>> \o b
  <2> HIDE DEF w
  <2>3. ASSUME NEW i \in 2..L - start + 1 PROVE w[i] = r.messages[start + i - 1]
    <3>1. i \in 2..Len(b) + 1 /\ i - 1 \in 1..L - start /\ start + (i - 1) = start + i - 1
      BY <1>1, <1>2, <2>1
    <3>2. QED BY <2>1, <2>2, <3>1 DEF w
  <2>4. Len(w) = L - start + 1
    BY <1>1, <1>2, <2>1, <2>2 DEF w
  <2>5. QED BY <2>2, <2>3, <2>4 DEF w, b
<1> HIDE DEF messages
<1>9. n = [dialect |-> r.dialect, system |-> r.system, messages |-> messages,
           tools |-> r.tools, breakpoint |-> 0]
  <2>1. r = [dialect |-> r.dialect, system |-> r.system, messages |-> r.messages,
             tools |-> r.tools, breakpoint |-> r.breakpoint]
    BY RequestFields
  <2>2. QED BY <1>7, <2>1
<1>10. n \in Requests
  BY <1>8, <1>9, RequestFields, WithMessages
<1>11. Windowed(r, n, start, header)
  BY <1>2, <1>4, <1>8, <1>9 DEF Windowed, first, L
<1>12. QED BY <1>10, <1>11 DEF n

\* What is ingested whole can be encoded.
LEMMA IngestsClean ==
    ASSUME NEW r \in Requests, Ingests(r)
    PROVE  /\ \A i \in DOMAIN r.messages : MessageText(r.messages[i]) \in Seq(Clean)
           /\ SystemText(r) \in Seq(Clean)
<1> DEFINE nodes == IngestedNodes(r)
           facts == IF r.system = NoSystem THEN << >> ELSE <<Node("fact", Trimmed(r.system))>>
           turns == [i \in DOMAIN r.messages |-> Node("turn", Trimmed(MessageText(r.messages[i])))]
           places == {i \in DOMAIN nodes : nodes[i].text # << >>}
<1>1. nodes \in Seq(NodesOf(STRING)) /\ Ingestible(r) = Kept(nodes, places)
  BY IngestibleIs
<1>2. nodes = facts \o turns
  BY DEF IngestedNodes
<1> HIDE DEF nodes
<1>3. ASSUME NEW x \in ToSet(nodes) PROVE Encodable(x.text)
  <2>1. PICK i \in DOMAIN nodes : nodes[i] = x
    BY DEF ToSet
  <2>2. CASE x.text = << >>
    <3>1. ToSet(<< >>) = {}
      BY DEF ToSet
    <3>2. QED BY <2>2, <3>1 DEF Encodable
  <2>3. CASE x.text # << >>
    <3>1. i \in places
      BY <2>1, <2>3
    <3>2. ToSet(Kept(nodes, places)) = {nodes[k] : k \in (DOMAIN nodes \intersect places)}
      BY <1>1, KeptHolds
    <3> HIDE DEF places
    <3>3. x \in ToSet(Ingestible(r))
      BY <1>1, <2>1, <3>1, <3>2
    <3>4. QED BY <3>3 DEF Ingests, ToSet
  <2>4. QED BY <2>2, <2>3
<1>4. ASSUME NEW text \in Texts, Encodable(Trimmed(text)) PROVE text \in Seq(Clean)
  <2>1. ToSet(text) \subseteq ToSet(Trimmed(text)) \union Blanks
    BY TrimmedIs DEF Texts
  <2>2. Unencodable \intersect Blanks = {}
    BY HeaderAssumption
  <2>3. Encodable(text)
    BY <1>4, <2>1, <2>2 DEF Encodable
  <2>4. QED BY <2>3, EncodableIs
<1>5. facts \in Seq(NodesOf(STRING)) /\ turns \in Seq(NodesOf(STRING))
  <2>2. ASSUME NEW text \in Texts, NEW kind \in {"fact", "turn"}
        PROVE  Node(kind, Trimmed(text)) \in NodesOf(STRING)
    <3>1. Trimmed(text) \in Seq(STRING)
      BY TrimmedIs DEF Texts
    <3>2. QED BY <3>1 DEF Node, NodesOf
  <2>3. facts \in Seq(NodesOf(STRING))
    <3>1. \A x \in NodesOf(STRING) : <<x>> \in Seq(NodesOf(STRING))
      OBVIOUS
    <3>2. r.system # NoSystem => Node("fact", Trimmed(r.system)) \in NodesOf(STRING)
      BY <2>2, RequestFields
    <3>3. << >> \in Seq(NodesOf(STRING))
      OBVIOUS
    <3>4. QED BY <3>1, <3>2, <3>3
  <2>4. turns \in [DOMAIN r.messages -> NodesOf(STRING)]
    BY <2>2, RequestFields, MessageTextType
  <2> HIDE DEF turns, facts
  <2>5. QED BY <2>3, <2>4, RequestFields, AsSeq
<1>6. ToSet(nodes) = ToSet(facts) \union ToSet(turns)
  <2> HIDE DEF facts, turns
  <2>1. QED BY <1>2, <1>5, ConcatHolds
<1>7. ASSUME NEW i \in DOMAIN r.messages PROVE MessageText(r.messages[i]) \in Seq(Clean)
  <2>1. Node("turn", Trimmed(MessageText(r.messages[i]))) \in ToSet(turns)
    BY DEF ToSet
  <2> HIDE DEF facts, turns
  <2>2. Encodable(Node("turn", Trimmed(MessageText(r.messages[i]))).text)
    BY <1>3, <1>6, <2>1
  <2>3. Encodable(Trimmed(MessageText(r.messages[i])))
    BY <2>2 DEF Node
  <2>4. MessageText(r.messages[i]) \in Texts
    BY RequestFields, MessageTextType
  <2>5. QED BY <1>4, <2>3, <2>4
<1>8. SystemText(r) \in Seq(Clean)
  <2>1. CASE r.system = NoSystem
    BY <2>1 DEF SystemText
  <2>2. CASE r.system # NoSystem
    <3> DEFINE x == Node("fact", Trimmed(r.system))
    <3>1. facts = <<x>>
      BY <2>2
    <3> HIDE DEF x
    <3>2. 1 \in DOMAIN <<x>> /\ <<x>>[1] = x
      OBVIOUS
    <3>3. x \in ToSet(facts)
      BY <3>1, <3>2 DEF ToSet
    <3> HIDE DEF facts, turns
    <3>4. Encodable(x.text)
      BY <1>3, <1>6, <3>3
    <3>5. Encodable(Trimmed(r.system))
      BY <3>4 DEF x, Node
    <3>6. r.system \in Texts
      BY <2>2, RequestFields
    <3>7. r.system \in Seq(Clean)
      BY <1>4, <3>5, <3>6
    <3>8. QED BY <2>2, <3>7 DEF SystemText
  <2>3. QED BY <2>1, <2>2
<1>9. QED BY <1>7, <1>8

Headings(r, g, s) ==
    IF s.memory = "summary" THEN CompactBySummary(r, s) ELSE CompactWithMemory(r, g, s)

\* A request is left as it is, or its older turns give way to a heading.
LEMMA CompactedIs ==
    ASSUME NEW r \in Requests, NEW g, Sound(g), NEW s, Ingests(r),
           \A i \in DOMAIN r.messages : r.messages[i].raw = NoRaw,
           s.keepRecentTurns \in Int, s.retrieve \in Int, s.items \in Int
    PROVE  \/ Headings(r, g, s) = r
           \/ \E header \in Seq(Clean) :
                 LET start == WindowStart(r.messages, s.keepRecentTurns)
                 IN  /\ Headings(r, g, s) \in Requests
                     /\ Windowed(r, Headings(r, g, s), start, header)
                     /\ start \in 2..Len(r.messages) - s.keepRecentTurns + 1
                     /\ s.keepRecentTurns > 0
                     /\ r.messages[start].role = "user"
<1> DEFINE start == WindowStart(r.messages, s.keepRecentTurns)
           snippets == Relevant(g, LatestUserText(r.messages), s.retrieve)
           older == [i \in 1..start - 1 |-> MessageText(r.messages[i])]
           leads == Leads(older, s.items)
           header == IF s.memory = "summary" THEN Bulleted(SummaryHeader, leads)
                     ELSE Bulleted(ContextHeader, snippets)
<1>1. CASE CanCompact(r, s) /\ Headings(r, g, s) # r
  <2>1. s.keepRecentTurns > 0 /\ start > 1
    BY <1>1 DEF CanCompact, LooksPastTheEnd
  <2>2. start \in 2..Len(r.messages) - s.keepRecentTurns + 1 /\ r.messages[start].role = "user"
    BY <2>1, WindowStartIs
  <2>3. Headings(r, g, s) = Rewrite(r, start, header)
    <3>1. CASE s.memory = "summary"
      <4>1. Headings(r, g, s) = CompactBySummary(r, s) /\ header = Bulleted(SummaryHeader, leads)
        BY <3>1 DEF Headings
      <4>2. CompactBySummary(r, s) = r \/ CompactBySummary(r, s) = Rewrite(r, start, Bulleted(SummaryHeader, leads))
        BY DEF CompactBySummary
      <4>3. QED BY <1>1, <4>1, <4>2
    <3>2. CASE s.memory # "summary"
      <4>1. Headings(r, g, s) = CompactWithMemory(r, g, s) /\ header = Bulleted(ContextHeader, snippets)
        BY <3>2 DEF Headings
      <4>2. CompactWithMemory(r, g, s) = r \/ CompactWithMemory(r, g, s) = Rewrite(r, start, Bulleted(ContextHeader, snippets))
        BY DEF CompactWithMemory
      <4>3. QED BY <1>1, <4>1, <4>2
    <3>3. QED BY <3>1, <3>2
  <2>4. start \in 2..Len(r.messages) /\ DOMAIN r.messages = 1..Len(r.messages) /\ Len(r.messages) \in Nat
    BY <2>1, <2>2, RequestFields
  <2>5. snippets \in Seq(Seq(Clean))
    BY RelevantIs
  <2> HIDE DEF start, snippets
  <2>6. leads \in Seq(Seq(Clean))
    <3>1. \A i \in 1..start - 1 : MessageText(r.messages[i]) \in Seq(Clean)
      <4>1. \A i \in 1..start - 1 : i \in DOMAIN r.messages
        BY <2>4
      <4>2. QED BY <4>1, IngestsClean
    <3>2. start - 1 \in Nat
      BY <2>4
    <3>3. older \in Seq(Seq(Clean))
      BY <3>1, <3>2, IsASeq
    <3> HIDE DEF older
    <3>4. QED BY <3>3, LeadsAre
  <2> HIDE DEF leads
  <2>7. header \in Seq(Clean)
    <3>1. ContextHeader \in Clean /\ SummaryHeader \in Clean /\ Newline \in Clean
      BY BlanksClean DEF Blanks
    <3>2. Bulleted(SummaryHeader, leads) \in Seq(Clean) /\ Bulleted(ContextHeader, snippets) \in Seq(Clean)
      BY <2>5, <2>6, <3>1, BulletedIs
    <3>3. QED BY <3>2
  <2>8. header \in Texts
    <3>1. Clean \subseteq STRING
      BY DEF Clean
    <3> HIDE DEF header
    <3>2. QED BY <2>7, <3>1, SeqMonotonic DEF Texts
  <2> HIDE DEF header
  <2>9. r.messages[start].raw = NoRaw
    BY <2>4
  <2>10. Rewrite(r, start, header) \in Requests /\ Windowed(r, Rewrite(r, start, header), start, header)
    BY <2>4, <2>8, <2>9, RewriteIs
  <2>11. QED BY <2>1, <2>2, <2>3, <2>7, <2>10 DEF start
<1>2. CASE ~CanCompact(r, s)
  BY <1>2 DEF Headings, CompactBySummary, CompactWithMemory
<1>3. QED BY <1>1, <1>2

-----------------------------------------------------------------------------
(* Where requests agree from the start, so do the requests that the passes *)
(* but elision make of them.                                               *)

Agree(a, b, n) ==
    /\ n \in DOMAIN a.messages /\ n \in DOMAIN b.messages
    /\ \A i \in 1..n : a.messages[i] = b.messages[i]

LEMMA AgreeBack == ASSUME NEW a, NEW b, NEW n, Agree(a, b, n) PROVE Agree(b, a, n)
BY DEF Agree

\* A place of the part that agrees is a message of both.
LEMMA AgreePlace ==
    ASSUME NEW a \in Requests, NEW b \in Requests, NEW n, Agree(a, b, n), NEW i \in 1..n
    PROVE  i \in DOMAIN a.messages /\ i \in DOMAIN b.messages /\ a.messages[i] = b.messages[i]
<1>1. /\ DOMAIN a.messages = 1..Len(a.messages) /\ Len(a.messages) \in Nat
      /\ DOMAIN b.messages = 1..Len(b.messages) /\ Len(b.messages) \in Nat
  BY RequestFields
<1>2. n \in 1..Len(a.messages) /\ n \in 1..Len(b.messages) /\ a.messages[i] = b.messages[i]
  BY <1>1 DEF Agree
<1> DEFINE la == Len(a.messages)
           lb == Len(b.messages)
<1>3. la \in Nat /\ lb \in Nat /\ n \in 1..la /\ n \in 1..lb
  BY <1>1, <1>2
<1> HIDE DEF la, lb
<1>4. i \in 1..la /\ i \in 1..lb
  BY <1>3
<1>5. QED BY <1>1, <1>2, <1>4 DEF la, lb

LEMMA RewrittenAgrees ==
    ASSUME NEW a \in Requests, NEW b \in Requests, NEW n, Agree(a, b, n), NEW pass, NEW s
    PROVE  Agree(Rewritten(pass, a, s), Rewritten(pass, b, s), n)
<1> DEFINE all(r) == [i \in DOMAIN r.messages |-> RewrittenMessage(pass, r.messages[i], s)]
<1>1. ASSUME NEW r \in Requests PROVE Rewritten(pass, r, s).messages = all(r)
  <2> DEFINE new == all(r)
             system == IF r.system = NoSystem THEN NoSystem ELSE RewrittenText(pass, r.system, s)
  <2>1. Rewritten(pass, r, s) = [r EXCEPT !.messages = new, !.system = system, !.breakpoint = 0]
    BY DEF Rewritten
  <2>2. r = [dialect |-> r.dialect, system |-> r.system, messages |-> r.messages,
             tools |-> r.tools, breakpoint |-> r.breakpoint]
    BY RequestFields
  <2> HIDE DEF new, system
  <2>3. QED BY <2>1, <2>2 DEF new
<1>2. n \in DOMAIN a.messages /\ n \in DOMAIN b.messages
  BY DEF Agree
<1>3. \A i \in 1..n : all(a)[i] = all(b)[i]
  BY AgreePlace
<1>4. n \in DOMAIN all(a) /\ n \in DOMAIN all(b)
  BY <1>2
<1> HIDE DEF all
<1>5. QED BY <1>1, <1>3, <1>4 DEF Agree

\* A pass that is not there leaves the messages alone, whether there is
\* anything to rewrite or not.
LEMMA LearnedMessages ==
    ASSUME NEW r \in Requests, NEW s
    PROVE  Learned(r, s).request.messages =
               IF s.learned = "missing" THEN r.messages ELSE Rewritten("learned", r, s).messages
<1>1. Untouched(r).request = r
  BY DEF Untouched, Outcome
<1>2. Measured("learned", r, Rewritten("learned", r, s), "none", s).request = Rewritten("learned", r, s)
  BY DEF Measured, Outcome
<1>3. CASE s.learned = "missing" /\ HasProse(r)
  BY <1>1, <1>3 DEF Learned
<1>4. CASE s.learned = "missing" /\ ~HasProse(r)
  BY <1>2, <1>4, NoProse DEF Learned
<1>5. CASE s.learned # "missing"
  BY <1>2, <1>5 DEF Learned
<1>6. QED BY <1>3, <1>4, <1>5

LEMMA PassAgrees ==
    ASSUME NEW a \in Requests, NEW b \in Requests, NEW n, Agree(a, b, n), NEW s,
           NEW name \in {"lossless", "filler", "learned"}
    PROVE  Agree(Pass(name, a, s).request, Pass(name, b, s).request, n)
<1>1. Agree(Rewritten(name, a, s), Rewritten(name, b, s), n)
  BY RewrittenAgrees
<1>2. CASE name = "lossless"
  <2>1. \A r : Pass(name, r, s).request = Rewritten(name, r, s)
    BY <1>2 DEF Pass, Lossless, Checked, Measured, Outcome
  <2>2. QED BY <1>1, <2>1
<1>3. CASE name = "filler"
  <2>1. \A r : Pass(name, r, s).request = Rewritten(name, r, s)
    BY <1>3 DEF Pass, Filler, Checked, Measured, Outcome
  <2>2. QED BY <1>1, <2>1
<1>4. CASE name = "learned"
  <2>1. Pass(name, a, s) = Learned(a, s) /\ Pass(name, b, s) = Learned(b, s)
    BY <1>4 DEF Pass
  <2>2. /\ Learned(a, s).request.messages =
              IF s.learned = "missing" THEN a.messages ELSE Rewritten("learned", a, s).messages
        /\ Learned(b, s).request.messages =
              IF s.learned = "missing" THEN b.messages ELSE Rewritten("learned", b, s).messages
    BY LearnedMessages
  <2>3. QED BY <1>1, <1>4, <2>1, <2>2 DEF Agree
<1>5. QED BY <1>2, <1>3, <1>4

\* Two runs of the chain, so far.
Abreast(a, c, b, d, n, s) == Keeps(a, c, s) /\ Keeps(b, d, s) /\ Agree(c.request, d.request, n)

LEMMA ThenAgrees ==
    ASSUME NEW a \in Requests, NEW b \in Requests, NEW c, NEW d, NEW n, NEW s, Learns(s),
           Abreast(a, c, b, d, n, s), NEW name \in {"lossless", "filler", "learned"}
    PROVE  Abreast(a, Then(c, name, s), b, Then(d, name, s), n, s)
<1>1. Keeps(a, Then(c, name, s), s) /\ Keeps(b, Then(d, name, s), s)
  BY ThenKeeps DEF Abreast
<1>2. Agree(Then(c, name, s).request, Then(d, name, s).request, n)
  <2>1. CASE ~InChain(name, s)
    BY <2>1 DEF Then, Abreast
  <2>2. CASE InChain(name, s)
    <3>1. /\ Then(c, name, s).request = Pass(name, c.request, s).request
          /\ Then(d, name, s).request = Pass(name, d.request, s).request
      BY <2>2 DEF Then, Outcome
    <3>2. c.request \in Requests /\ d.request \in Requests /\ Agree(c.request, d.request, n)
      BY DEF Abreast, Keeps, Measures
    <3>3. QED BY <3>1, <3>2, PassAgrees
  <2>3. QED BY <2>1, <2>2
<1>3. QED BY <1>1, <1>2 DEF Abreast

LEMMA BeforeDedupAgrees ==
    ASSUME NEW a \in Requests, NEW b \in Requests, NEW n, Agree(a, b, n),
           NEW s, Learns(s), ~s.elide
    PROVE  Agree(BeforeDedup(a, s).request, BeforeDedup(b, s).request, n)
<1>1. Abreast(a, Untouched(a), b, Untouched(b), n, s)
  BY UntouchedIs DEF Abreast, Untouched, Outcome
<1>2. Abreast(a, Then(Untouched(a), "lossless", s), b, Then(Untouched(b), "lossless", s), n, s)
  BY <1>1, ThenAgrees
<1>3. Abreast(a, Then(Then(Untouched(a), "lossless", s), "filler", s),
              b, Then(Then(Untouched(b), "lossless", s), "filler", s), n, s)
  BY <1>2, ThenAgrees
<1> DEFINE x == Then(Then(Then(Untouched(a), "lossless", s), "filler", s), "learned", s)
           y == Then(Then(Then(Untouched(b), "lossless", s), "filler", s), "learned", s)
<1>4. Abreast(a, x, b, y, n, s)
  BY <1>3, ThenAgrees
<1>5. ~InChain("elision", s)
  BY DEF InChain
<1>6. BeforeDedup(a, s) = Then(x, "elision", s) /\ BeforeDedup(b, s) = Then(y, "elision", s)
  BY DEF BeforeDedup
<1> HIDE DEF x, y
<1>7. BeforeDedup(a, s) = x /\ BeforeDedup(b, s) = y
  BY <1>5, <1>6 DEF Then
<1>8. QED BY <1>4, <1>7 DEF Abreast

\* A span that repeats an earlier one does so in both.
LEMMA RepeatsAgree ==
    ASSUME NEW a \in Requests, NEW b \in Requests, NEW n, Agree(a, b, n),
           NEW p, p \in Places(a), p[1] \in 1..n, Repeats(a, p)
    PROVE  p \in Places(b) /\ Repeats(b, p) /\ SpanAt(b, p) = SpanAt(a, p)
<1>1. n \in Nat
  <2>1. DOMAIN a.messages = 1..Len(a.messages) /\ Len(a.messages) \in Nat /\ n \in DOMAIN a.messages
    BY RequestFields DEF Agree
  <2>2. QED BY <2>1
<1>2. ASSUME NEW q \in Places(a), q[1] \in 1..n
      PROVE  q \in Places(b) /\ SpanAt(b, q) = SpanAt(a, q)
  <2> DEFINE i == q[1]
             j == q[2]
  <2>1. q = <<i, j>> /\ j \in DOMAIN a.messages[i].spans
    BY PlacesAre
  <2>2. i \in DOMAIN b.messages /\ b.messages[i] = a.messages[i]
    BY <1>2, AgreePlace
  <2> HIDE DEF i, j
  <2>3. <<i, j>> \in Places(b)
    BY <2>1, <2>2, PlacesAre
  <2>4. SpanAt(b, q) = SpanAt(a, q)
    BY <2>2 DEF SpanAt, i, j
  <2>5. QED BY <2>1, <2>3, <2>4
<1>3. PICK q \in Places(a) : Before(q, p) /\ SpanAt(a, q).text = SpanAt(a, p).text
  BY DEF Repeats
<1>4. q[1] \in 1..n
  <2>1. q[1] \in DOMAIN a.messages /\ q[1] <= p[1] /\ q[1] \in Nat /\ p[1] \in Nat
    BY <1>3, PlacesAre DEF Before
  <2>2. q[1] \in 1..Len(a.messages) /\ Len(a.messages) \in Nat
    BY <2>1, RequestFields
  <2>3. QED BY <1>1, <2>1, <2>2
<1>5. QED BY <1>2, <1>3, <1>4 DEF Repeats

\* What dedup makes of a message.
IsMarked(a, b, i, s) ==
    /\ b.messages[i].role = a.messages[i].role /\ b.messages[i].raw = a.messages[i].raw
    /\ Len(b.messages[i].spans) = Len(a.messages[i].spans)
    /\ \A j \in DOMAIN a.messages[i].spans :
          b.messages[i].spans[j] = IF Redundant(a, <<i, j>>, s) THEN Span(Marker, FALSE)
                                   ELSE a.messages[i].spans[j]

LEMMA RedundantAgrees ==
    ASSUME NEW a \in Requests, NEW b \in Requests, NEW n, Agree(a, b, n), NEW s,
           NEW i \in 1..n, NEW j \in DOMAIN a.messages[i].spans, Redundant(a, <<i, j>>, s)
    PROVE  Redundant(b, <<i, j>>, s)
<1> DEFINE p == <<i, j>>
<1>1. i \in DOMAIN a.messages
  BY AgreePlace
<1>2. p \in Places(a) /\ p[1] \in 1..n
  BY <1>1, PlacesAre
<1>3. s.dedup /\ Large(SpanAt(a, p).text, s) /\ Repeats(a, p)
  BY DEF Redundant
<1> HIDE DEF p
<1>4. Repeats(b, p) /\ SpanAt(b, p) = SpanAt(a, p)
  BY <1>2, <1>3, RepeatsAgree
<1>5. Redundant(b, p, s)
  BY <1>3, <1>4 DEF Redundant
<1>6. QED BY <1>5 DEF p

LEMMA SameMessage ==
    ASSUME NEW x \in Messages, NEW y \in Messages, x.role = y.role, x.raw = y.raw,
           Len(x.spans) = Len(y.spans), \A j \in DOMAIN x.spans : x.spans[j] = y.spans[j]
    PROVE  x = y
<1>1. /\ x.spans \in Seq(SpanSet) /\ y.spans \in Seq(SpanSet)
      /\ x = [role |-> x.role, spans |-> x.spans, raw |-> x.raw]
      /\ y = [role |-> y.role, spans |-> y.spans, raw |-> y.raw]
  BY MessageFields
<1>2. x.spans = y.spans
  <2> DEFINE u == x.spans
             v == y.spans
  <2>1. u \in Seq(SpanSet) /\ v \in Seq(SpanSet) /\ Len(u) = Len(v) /\ \A j \in DOMAIN u : u[j] = v[j]
    BY <1>1
  <2> HIDE DEF u, v
  <2>2. \A j \in 1..Len(u) : u[j] = v[j]
    BY <2>1, LenProperties
  <2>3. u = v
    BY <2>1, <2>2, SeqEqual
  <2>4. QED BY <2>3 DEF u, v
<1>3. QED BY <1>1, <1>2

LEMMA DedupedAgrees ==
    ASSUME NEW a \in Requests, NEW b \in Requests, NEW c \in Requests, NEW d \in Requests,
           NEW s, Deduped(a, c, s), Deduped(b, d, s), NEW n, Agree(a, b, n)
    PROVE  Agree(c, d, n)
<1>1. /\ \A i \in DOMAIN a.messages : IsMarked(a, c, i, s)
      /\ \A i \in DOMAIN b.messages : IsMarked(b, d, i, s)
  BY DEF Deduped, IsMarked
<1>2. DOMAIN c.messages = DOMAIN a.messages /\ DOMAIN d.messages = DOMAIN b.messages
  <2>1. Len(a.messages) = Len(c.messages) /\ Len(b.messages) = Len(d.messages)
    BY DEF Deduped
  <2>2. QED BY <2>1, RequestFields
<1>3. ASSUME NEW i \in 1..n PROVE c.messages[i] = d.messages[i]
  <2> DEFINE x == c.messages[i]
             y == d.messages[i]
             m == a.messages[i]
  <2>1. i \in DOMAIN a.messages /\ i \in DOMAIN b.messages /\ m = b.messages[i]
    BY AgreePlace
  <2>2. x \in Messages /\ y \in Messages /\ m \in Messages
    BY <1>2, <2>1, RequestFields
  <2>3. IsMarked(a, c, i, s) /\ IsMarked(b, d, i, s)
    BY <1>1, <2>1
  <2>4. \A j \in DOMAIN m.spans : Redundant(a, <<i, j>>, s) <=> Redundant(b, <<i, j>>, s)
    <3>1. Agree(b, a, n)
      BY AgreeBack
    <3>2. \A j \in DOMAIN m.spans : Redundant(a, <<i, j>>, s) => Redundant(b, <<i, j>>, s)
      BY RedundantAgrees
    <3>3. \A j \in DOMAIN m.spans : Redundant(b, <<i, j>>, s) => Redundant(a, <<i, j>>, s)
      BY <2>1, <3>1, RedundantAgrees
    <3>4. QED BY <3>2, <3>3
  <2>5. /\ x.role = m.role /\ x.raw = m.raw /\ Len(x.spans) = Len(m.spans)
        /\ y.role = m.role /\ y.raw = m.raw /\ Len(y.spans) = Len(m.spans)
    BY <2>1, <2>3 DEF IsMarked
  <2>6. \A j \in DOMAIN m.spans : x.spans[j] = y.spans[j]
    BY <2>1, <2>3, <2>4 DEF IsMarked
  <2>7. DOMAIN x.spans = DOMAIN m.spans
    <3> HIDE DEF x, y, m
    <3>1. x.spans \in Seq(SpanSet) /\ m.spans \in Seq(SpanSet)
      BY <2>2, MessageFields
    <3>2. QED BY <2>5, <3>1, LenProperties
  <2> HIDE DEF x, y, m
  <2>8. x = y
    BY <2>2, <2>5, <2>6, <2>7, SameMessage
  <2>9. QED BY <2>8 DEF x, y
<1>4. QED BY <1>2, <1>3 DEF Agree

LEMMA CompressedAgrees ==
    ASSUME NEW a \in Requests, NEW b \in Requests, NEW n, Agree(a, b, n),
           NEW s, Learns(s), ~s.elide
    PROVE  Agree(Compressed(a, s).request, Compressed(b, s).request, n)
<1>1. Agree(BeforeDedup(a, s).request, BeforeDedup(b, s).request, n)
  BY BeforeDedupAgrees
<1>2. /\ Compressed(a, s).request \in Requests /\ Compressed(b, s).request \in Requests
      /\ BeforeDedup(a, s).request \in Requests /\ BeforeDedup(b, s).request \in Requests
      /\ Deduped(BeforeDedup(a, s).request, Compressed(a, s).request, s)
      /\ Deduped(BeforeDedup(b, s).request, Compressed(b, s).request, s)
  BY CompressedIs DEF Measures
<1>3. QED BY <1>1, <1>2, DedupedAgrees

-----------------------------------------------------------------------------
(* Words.                                                                  *)

LEMMA OneElement ==
    ASSUME NEW S, NEW e \in S
    PROVE  <<e>> \in Seq(S) /\ Len(<<e>>) = 1 /\ <<e>>[1] = e /\ <<e>> # << >> /\ <<e>> = Append(<< >>, e)
OBVIOUS

\* u is s and then e.
Extends(u, s, e, S) ==
    /\ u \in Seq(S) /\ Len(u) = Len(s) + 1 /\ Len(s) \in Nat
    /\ u[Len(s) + 1] = e /\ u # << >>
    /\ \A i \in 1..Len(s) : u[i] = s[i]

LEMMA Extended ==
    ASSUME NEW S, NEW s \in Seq(S), NEW e \in S
    PROVE  Extends(Append(s, e), s, e, S)
BY AppendProperties, LenProperties DEF Extends

\* Whether the next token starts a word.
Closed(text) == text = << >> \/ text[Len(text)] \in Blanks

Prolonged(words, t) == [words EXCEPT ![Len(words)] = Append(@, t)]

NextWords(words, closed, t) ==
    IF t \in Blanks THEN words
    ELSE IF closed THEN Append(words, <<t>>) ELSE Prolonged(words, t)

Ends(text, n) == n = Len(text) \/ text[n + 1] \in Blanks
Opens(text, n) == n = 1 \/ text[n - 1] \in Blanks

LEMMA ProlongedType ==
    ASSUME NEW words \in Seq(Texts), NEW t \in STRING
    PROVE  Prolonged(words, t) \in Seq(Texts)
<1>1. DOMAIN words = 1..Len(words) /\ Len(words) \in Nat /\ \A i \in DOMAIN words : words[i] \in Texts
  BY LenProperties, ElementOfSeq
<1>2. \A x \in Texts : Append(x, t) \in Texts
  BY AppendProperties DEF Texts
<1> DEFINE F == Prolonged(words, t)
<1>3. F \in [DOMAIN words -> Texts]
  BY <1>1, <1>2 DEF Prolonged
<1> HIDE DEF F
<1>4. DOMAIN F = DOMAIN words /\ \A i \in DOMAIN words : F[i] \in Texts
  BY <1>3
<1>5. F = [i \in DOMAIN words |-> F[i]]
  BY <1>3
<1>6. F \in Seq(Texts)
  BY <1>3, <1>5, AsSeq
<1>7. QED BY <1>6 DEF F

LEMMA NextWordsType ==
    ASSUME NEW words \in Seq(Texts), NEW t \in STRING, NEW closed
    PROVE  NextWords(words, closed, t) \in Seq(Texts)
<1>1. <<t>> \in Texts
  <2>1. <<t>> \in Seq(STRING)
    BY ONLY OneElement, t \in STRING
  <2>2. QED BY <2>1 DEF Texts
<1>2. Append(words, <<t>>) \in Seq(Texts)
  BY <1>1, AppendProperties
<1>3. QED BY <1>2, ProlongedType DEF NextWords

\* Words(text), word by word.
Scan(f, text) ==
    /\ f[0] = << >>
    /\ \A n \in 0..Len(text) - 1 : f[n + 1] = NextWords(f[n], Opens(text, n + 1), text[n + 1])

LEMMA WordsIs ==
    ASSUME NEW text \in Texts
    PROVE  \E f : Words(text) = f[Len(text)] /\ Scan(f, text)
                  /\ \A n \in 0..Len(text) : f[n] \in Seq(Texts)
<1> DEFINE N == Len(text)
           X == Seq(Texts)
           Next(words, i) ==
            IF text[i] \in Blanks THEN words
            ELSE IF i = 1 \/ text[i - 1] \in Blanks THEN Append(words, <<text[i]>>)
            ELSE [words EXCEPT ![Len(words)] = Append(@, text[i])]
           G == [p \in X \X (1..N) |-> NextWords(p[1], Opens(text, p[2]), text[p[2]])]
           f == CHOOSE g : g = [n \in 0..N |-> IF n = 0 THEN << >> ELSE Next(g[n - 1], n)]
<1>1. N \in Nat /\ \A n \in 1..N : text[n] \in STRING
  BY LenProperties, ElementOfSeq DEF Texts
<1>2. \A words, i : Next(words, i) = NextWords(words, Opens(text, i), text[i])
  BY DEF NextWords, Prolonged, Opens
<1>3. Words(text) = f[N]
  BY DEF Words
<1> HIDE DEF Next
<1>4. G \in [X \X (1..N) -> X] /\ << >> \in X
      /\ \A x \in X, n \in 1..N : G[<<x, n>>] = Next(x, n)
  <2>1. \A x \in X, n \in 1..N : NextWords(x, Opens(text, n), text[n]) \in X
    BY <1>1, NextWordsType
  <2>2. G \in [X \X (1..N) -> X]
    BY <2>1
  <2>3. \A x \in X, n \in 1..N : G[<<x, n>>] = NextWords(x, Opens(text, n), text[n])
    OBVIOUS
  <2>4. << >> \in X
    OBVIOUS
  <2> HIDE DEF G, X
  <2>5. QED BY <1>2, <2>2, <2>3, <2>4
<1> HIDE DEF G
<1>5. PICK h : Recursion(h, X, << >>, N, G)
  <2> HIDE DEF N, X
  <2>1. QED BY <1>1, <1>4, RecursionExists
<1> HIDE DEF X
<1>6. \A n \in 0..N : n # 0 => h[n - 1] \in X /\ n \in 1..N
  BY <1>1, <1>5 DEF Recursion
<1>7. h = [n \in 0..N |-> IF n = 0 THEN << >> ELSE Next(h[n - 1], n)]
  <2>2. \A n \in 0..N : n # 0 => G[<<h[n - 1], n>>] = Next(h[n - 1], n)
    BY <1>4, <1>6
  <2>3. QED BY <2>2, <1>5 DEF Recursion
<1>8. f = [n \in 0..N |-> IF n = 0 THEN << >> ELSE Next(f[n - 1], n)]
  BY <1>7
<1> HIDE DEF f
<1> DEFINE M == {n \in Nat : f[n] \in X}
<1>9. f[0] = << >>
  BY <1>1, <1>8
<1>10. ASSUME NEW n \in 0..N - 1
       PROVE  f[n + 1] = NextWords(f[n], Opens(text, n + 1), text[n + 1])
  <2>1. n + 1 \in 0..N /\ n + 1 # 0 /\ (n + 1) - 1 = n
    BY <1>1
  <2>2. f[n + 1] = Next(f[(n + 1) - 1], n + 1)
    BY <1>8, <2>1
  <2>3. QED BY <2>1, <2>2, <1>2
<1>11. \A n \in 0..Len(text) : n \in M
  <2>1. 0 \in M
    BY <1>4, <1>9
  <2>2. ASSUME NEW n \in Nat, n < Len(text), n \in M PROVE n + 1 \in M
    <3>1. n \in 0..N - 1 /\ text[n + 1] \in STRING /\ f[n] \in Seq(Texts)
      BY <1>1, <2>2 DEF X
    <3>2. NextWords(f[n], Opens(text, n + 1), text[n + 1]) \in Seq(Texts)
      BY <3>1, NextWordsType
    <3>3. QED BY <3>1, <3>2, <1>10 DEF X
  <2> HIDE DEF M
  <2>3. text \in Seq(STRING)
    BY DEF Texts
  <2>4. QED BY <2>1, <2>2, <2>3, PartsInduction
<1>12. Scan(f, text)
  BY <1>9, <1>10 DEF Scan
<1>13. QED BY <1>3, <1>11, <1>12 DEF X

\* The words of a text that is one token longer.
LEMMA WordsAppend ==
    ASSUME NEW text \in Texts, NEW t \in STRING
    PROVE  Words(Append(text, t)) = NextWords(Words(text), Closed(text), t)
<1> DEFINE u == Append(text, t)
           N == Len(text)
<1>1. /\ u \in Texts /\ Len(u) = N + 1 /\ N \in Nat /\ u[N + 1] = t
      /\ \A i \in 1..N : u[i] = text[i]
  <2>1. text \in Seq(STRING)
    BY DEF Texts
  <2>2. Extends(u, text, t, STRING)
    BY <2>1, Extended
  <2> HIDE DEF u
  <2>3. QED BY <2>2 DEF Texts, Extends
<1> HIDE DEF u
<1>2. PICK f : Words(text) = f[N] /\ Scan(f, text)
  BY WordsIs
<1>3. PICK g : Words(u) = g[N + 1] /\ Scan(g, u)
  BY <1>1, WordsIs
<1> DEFINE M == {n \in Nat : f[n] = g[n]}
<1>4. \A n \in 0..Len(text) : n \in M
  <2>1. 0 \in M
    BY <1>2, <1>3 DEF Scan
  <2>2. ASSUME NEW n \in Nat, n < Len(text), n \in M PROVE n + 1 \in M
    <3>1. n \in 0..Len(text) - 1 /\ n \in 0..Len(u) - 1
      BY <1>1, <2>2
    <3>2. f[n + 1] = NextWords(f[n], Opens(text, n + 1), text[n + 1])
      BY <1>2, <3>1 DEF Scan
    <3>3. g[n + 1] = NextWords(g[n], Opens(u, n + 1), u[n + 1])
      BY <1>3, <3>1 DEF Scan
    <3>4. u[n + 1] = text[n + 1] /\ Opens(u, n + 1) = Opens(text, n + 1)
      <4>1. n + 1 \in 1..N /\ (n + 1 # 1 => (n + 1) - 1 \in 1..N)
        BY <1>1, <2>2
      <4>2. QED BY <4>1, <1>1 DEF Opens
    <3>5. f[n] = g[n]
      BY <2>2
    <3>6. QED BY <3>2, <3>3, <3>4, <3>5
  <2> HIDE DEF M
  <2>3. text \in Seq(STRING)
    BY DEF Texts
  <2>4. QED BY <2>1, <2>2, <2>3, PartsInduction
<1>5. g[N] = Words(text)
  BY <1>1, <1>2, <1>4
<1>6. g[N + 1] = NextWords(g[N], Opens(u, N + 1), u[N + 1])
  <2>1. N \in 0..Len(u) - 1
    BY <1>1
  <2>2. QED BY <2>1, <1>3 DEF Scan
<1>7. Opens(u, N + 1) = Closed(text)
  <2>1. text = << >> <=> N = 0
    BY EmptySeq, <1>1 DEF Texts
  <2>2. N # 0 => u[(N + 1) - 1] = text[Len(text)]
    BY <1>1
  <2>3. QED BY <1>1, <2>1, <2>2 DEF Opens, Closed
<1>8. QED BY <1>1, <1>3, <1>5, <1>6, <1>7 DEF u

LEMMA WordsEmpty == Words(<< >>) = << >>
<1>1. << >> \in Texts /\ Len(<< >>) = 0
  BY DEF Texts
<1>2. PICK f : Words(<< >>) = f[0] /\ Scan(f, << >>)
  BY <1>1, WordsIs
<1>3. QED BY <1>2 DEF Scan

LEMMA WordsType ==
    ASSUME NEW text \in Texts
    PROVE  Words(text) \in Seq(Texts)
<1>1. PICK f : Words(text) = f[Len(text)] /\ \A n \in 0..Len(text) : f[n] \in Seq(Texts)
  BY WordsIs
<1>2. Len(text) \in 0..Len(text)
  BY LenProperties DEF Texts
<1>3. QED BY <1>1, <1>2

LEMMA WordsBlank ==
    ASSUME NEW text \in Texts, NEW t \in Blanks
    PROVE  Words(Append(text, t)) = Words(text) /\ Closed(Append(text, t))
<1>1. t \in STRING
  BY TokenAssumption
<1>2. Words(Append(text, t)) = Words(text)
  BY <1>1, WordsAppend DEF NextWords
<1>3. text \in Seq(STRING)
  BY DEF Texts
<1>4. Extends(Append(text, t), text, t, STRING)
  BY <1>1, <1>3, Extended
<1>5. QED BY <1>2, <1>4 DEF Extends, Closed

\* The last element of a sequence that was kept.
LEMMA KeptLast ==
    ASSUME NEW S, NEW s \in Seq(S), NEW places, Kept(s, places) # << >>
    PROVE  \E k \in DOMAIN s : /\ k \in places
                               /\ Kept(s, places)[Len(Kept(s, places))] = s[k]
                               /\ \A i \in DOMAIN s : i > k => i \notin places
<1> DEFINE L(u) == Kept(u, places)
           Q(u) == L(u) # << >> => \E k \in DOMAIN u : /\ k \in places /\ L(u)[Len(L(u))] = u[k]
                                                       /\ \A i \in DOMAIN u : i > k => i \notin places
           P == {u \in Seq(S) : Q(u)}
<1>1. << >> \in P
  BY KeptEmpty
<1>2. ASSUME NEW u \in Seq(S), NEW e \in S, u \in P PROVE Append(u, e) \in P
  <2> DEFINE v == Append(u, e)
             n == Len(u)
  <2>1. /\ v \in Seq(S) /\ n \in Nat /\ DOMAIN v = 1..n + 1 /\ DOMAIN u = 1..n
        /\ v[n + 1] = e /\ \A i \in 1..n : v[i] = u[i]
    BY AppendProperties, LenProperties
  <2>2. L(v) = L(u) \o Piece(e, n + 1 \in places) /\ L(u) \in Seq(S)
    BY KeptAppend, KeptType
  <2> HIDE DEF v, L
  <2>3. CASE n + 1 \in places
    <3>1. L(v) = Append(L(u), e)
      BY <2>2, <2>3, AppendIsConcat DEF Piece
    <3>2. L(v)[Len(L(v))] = e
      <4>1. \A w \in Seq(S) : Append(w, e)[Len(Append(w, e))] = e
        BY AppendProperties
      <4>2. QED BY <4>1, <3>1, <2>2
    <3>3. n + 1 \in DOMAIN v /\ v[n + 1] = e /\ \A i \in DOMAIN v : ~(i > n + 1)
      BY <2>1
    <3>4. Q(v)
      BY <3>2, <3>3, <2>3
    <3>5. QED BY <3>4, <2>1 DEF v
  <2>4. CASE n + 1 \notin places
    <3>1. L(v) = L(u)
      BY <2>2, <2>4, ConcatEmptySeq DEF Piece
    <3>2. SUFFICES ASSUME L(v) # << >> PROVE Q(v)
      BY <2>1 DEF v
    <3>3. PICK k \in DOMAIN u : /\ k \in places /\ L(u)[Len(L(u))] = u[k]
                                /\ \A i \in DOMAIN u : i > k => i \notin places
      BY <1>2, <3>1, <3>2
    <3>4. k \in DOMAIN v /\ v[k] = u[k] /\ \A i \in DOMAIN v : i > k => i \notin places
      <4>1. \A i \in DOMAIN v : i \in DOMAIN u \/ i = n + 1
        BY <2>1
      <4>2. k \in DOMAIN v /\ v[k] = u[k]
        BY <2>1
      <4>3. QED BY <4>1, <4>2, <3>3, <2>4
    <3>5. QED BY <3>1, <3>3, <3>4
  <2>5. QED BY <2>3, <2>4
<1> HIDE DEF P
<1>3. s \in P
  BY <1>1, <1>2, SeqSetInduction
<1>4. QED BY <1>3 DEF P

\* A token that is a word.
WholeAt(text, i) == \A j \in {i - 1, i + 1} \intersect DOMAIN text : text[j] \in Blanks

\* What is left out is blank or a word that is a filler, no filler is kept, and
\* a word that is kept after a blank has a blank before it.
Separated(text, places, fillers) ==
    /\ \A i \in DOMAIN text : i \notin places =>
          text[i] \in Blanks \/ (text[i] \in fillers /\ WholeAt(text, i))
    /\ \A i \in DOMAIN text : i \in places /\ text[i] \notin Blanks =>
          ~(text[i] \in fillers /\ WholeAt(text, i))
    /\ \A n \in Nat :
          /\ n + 1 \in DOMAIN text /\ n + 1 \in places /\ text[n + 1] \notin Blanks
          /\ Closed(SubSeq(text, 1, n))
          => Closed(Kept(SubSeq(text, 1, n), places))

FillerWords(fillers) == {<<x>> : x \in fillers}

\* Up to the n-th token a text reads a, and of it b is kept.  The scan is between
\* words, in a word that is left out, or in one that is kept.
Between(a, b, D) == Closed(a) /\ Words(b) = Sifted(Words(a), D)

InFiller(text, n, places, a, b, D) ==
    /\ n \in DOMAIN text /\ n \notin places /\ text[n] \notin Blanks /\ <<text[n]>> \in D
    /\ \E w \in Seq(Texts) : Words(a) = Append(w, <<text[n]>>) /\ Words(b) = Sifted(w, D)

InWord(text, n, places, a, b, D) ==
    /\ n \in DOMAIN text /\ n \in places /\ text[n] \notin Blanks /\ ~Closed(b)
    /\ \E w \in Seq(Texts), x \in Texts :
          /\ Words(a) = Append(w, x) /\ Words(b) = Append(Sifted(w, D), x) /\ x # << >>
          /\ Len(x) = 1 => x = <<text[n]>> /\ Opens(text, n)

LEMMA SiftedLast ==
    ASSUME NEW S, NEW w \in Seq(S), NEW x \in S, NEW D
    PROVE  Sifted(Append(w, x), D) = IF x \in D THEN Sifted(w, D) ELSE Append(Sifted(w, D), x)
<1> DEFINE y == Piece(x, x \notin D)
<1>1. Sifted(Append(w, x), D) = Sifted(w, D) \o y
  BY SiftedAppend
<1>2. y = IF x \in D THEN << >> ELSE <<x>>
  BY DEF Piece
<1>3. Sifted(w, D) \in Seq(S)
  BY SiftedType
<1> HIDE DEF y
<1>4. Sifted(w, D) \o << >> = Sifted(w, D) /\ Sifted(w, D) \o <<x>> = Append(Sifted(w, D), x)
  BY <1>3, ConcatEmptySeq, AppendIsConcat
<1>5. QED BY <1>1, <1>2, <1>4

LEMMA ProlongedAppend ==
    ASSUME NEW w \in Seq(Texts), NEW x \in Texts, NEW t \in STRING
    PROVE  Prolonged(Append(w, x), t) = Append(w, Append(x, t)) /\ Append(x, t) \in Texts
<1> DEFINE u == Append(w, x)
           y == Append(x, t)
           v == Append(w, y)
<1>1. y \in Texts
  <2>1. x \in Seq(STRING)
    BY DEF Texts
  <2>2. Extends(y, x, t, STRING)
    BY <2>1, Extended
  <2>3. QED BY <2>2 DEF Extends, Texts
<1> HIDE DEF y
<1>2. Extends(u, w, x, Texts) /\ Extends(v, w, y, Texts)
  BY <1>1, Extended
<1> HIDE DEF u, v
<1>3. DOMAIN u = 1..Len(u) /\ DOMAIN v = 1..Len(v) /\ Len(u) = Len(v) /\ Len(u) \in Nat /\ Len(u) = Len(w) + 1
      /\ u[Len(u)] = x /\ v[Len(u)] = y /\ \A i \in 1..Len(w) : u[i] = v[i]
  BY <1>2, LenProperties DEF Extends
<1>4. Prolonged(u, t) = [i \in 1..Len(u) |-> IF i = Len(u) THEN y ELSE u[i]]
  BY <1>3 DEF Prolonged, y
<1>5. v = [i \in 1..Len(u) |-> v[i]]
  BY <1>2, <1>3 DEF Extends
<1>6. \A i \in 1..Len(u) : v[i] = IF i = Len(u) THEN y ELSE u[i]
  BY <1>3
<1>7. Prolonged(u, t) = v
  BY <1>4, <1>5, <1>6
<1>8. QED BY <1>1, <1>7 DEF u, v, y

LEMMA KeptLonger ==
    ASSUME NEW S, NEW s \in Seq(S), NEW n \in Nat, n < Len(s), NEW places
    PROVE  /\ Kept(SubSeq(s, 1, n), places) \in Seq(S)
           /\ Kept(SubSeq(s, 1, n + 1), places)
                = IF n + 1 \in places THEN Append(Kept(SubSeq(s, 1, n), places), s[n + 1])
                  ELSE Kept(SubSeq(s, 1, n), places)
<1> DEFINE a == SubSeq(s, 1, n)
           e == s[n + 1]
           x == Piece(e, Len(a) + 1 \in places)
<1>1. a \in Seq(S) /\ e \in S /\ SubSeq(s, 1, n + 1) = Append(a, e)
  BY Longer
<1>2. Len(a) = n
  BY LenProperties
<1> HIDE DEF a, e
<1>3. Kept(Append(a, e), places) = Kept(a, places) \o x
  BY <1>1, KeptAppend
<1>4. x = IF n + 1 \in places THEN <<e>> ELSE << >>
  BY <1>2 DEF Piece
<1>5. Kept(a, places) \in Seq(S)
  BY <1>1, KeptType
<1> HIDE DEF x
<1>6. Kept(a, places) \o << >> = Kept(a, places) /\ Kept(a, places) \o <<e>> = Append(Kept(a, places), e)
  BY <1>1, <1>5, ConcatEmptySeq, AppendIsConcat
<1>7. QED BY <1>1, <1>3, <1>4, <1>5, <1>6 DEF a, e

LEMMA WordsPrefix ==
    ASSUME NEW text \in Texts, NEW n \in Nat, n < Len(text)
    PROVE  /\ SubSeq(text, 1, n) \in Texts /\ text[n + 1] \in STRING
           /\ SubSeq(text, 1, n + 1) = Append(SubSeq(text, 1, n), text[n + 1])
           /\ Closed(SubSeq(text, 1, n)) <=> Opens(text, n + 1)
<1>1. text \in Seq(STRING) /\ Seq(STRING) = Texts
  BY DEF Texts
<1>2. /\ SubSeq(text, 1, n) \in Texts /\ text[n + 1] \in STRING
      /\ SubSeq(text, 1, n + 1) = Append(SubSeq(text, 1, n), text[n + 1])
  BY <1>1, Longer
<1>3. Len(SubSeq(text, 1, n)) = n /\ \A i \in 1..n : SubSeq(text, 1, n)[i] = text[i]
  BY <1>1, <1>2, LenProperties, SubSeqProperties
<1>4. SubSeq(text, 1, n) = << >> <=> n = 0
  BY <1>1, <1>2, <1>3, EmptySeq
<1>5. Closed(SubSeq(text, 1, n)) <=> Opens(text, n + 1)
  <2>1. n # 0 => SubSeq(text, 1, n)[n] = text[(n + 1) - 1]
    BY <1>3
  <2>2. n + 1 = 1 <=> n = 0
    OBVIOUS
  <2>3. QED BY <1>3, <1>4, <2>1, <2>2 DEF Closed, Opens
<1>6. QED BY <1>2, <1>5

\* At a blank, or at the end, the word that was read is whole.
LEMMA WordEnds ==
    ASSUME NEW text \in Texts, NEW n \in 1..Len(text), NEW places, NEW fillers,
           Separated(text, places, fillers), n \in places, text[n] \notin Blanks,
           Opens(text, n), Ends(text, n)
    PROVE  <<text[n]>> \notin FillerWords(fillers)
<1>1. DOMAIN text = 1..Len(text) /\ Len(text) \in Nat
  BY LenProperties DEF Texts
<1>2. WholeAt(text, n)
  <2>1. ASSUME NEW j \in {n - 1, n + 1} \intersect (1..Len(text)) PROVE text[j] \in Blanks
    <3> DEFINE N == Len(text)
    <3>1. j \in 1..N /\ n \in 1..N /\ N \in Nat
      BY <1>1
    <3> HIDE DEF N
    <3>2. j = n - 1 => n # 1
      BY <3>1
    <3>3. j = n + 1 => n # N
      BY <3>1
    <3>4. j = n - 1 \/ j = n + 1
      OBVIOUS
    <3>5. QED BY <3>2, <3>3, <3>4 DEF Opens, Ends, N
  <2>2. QED BY <2>1, <1>1 DEF WholeAt
<1>3. text[n] \notin fillers
  BY <1>1, <1>2 DEF Separated
<1>4. \A x \in fillers : <<text[n]>> # <<x>>
  BY <1>3
<1>5. QED BY <1>4 DEF FillerWords

LEMMA FillerEnds ==
    ASSUME NEW text \in Texts, NEW n, NEW places, NEW a, NEW b, NEW D,
           InFiller(text, n, places, a, b, D)
    PROVE  Words(b) = Sifted(Words(a), D)
<1>1. PICK w \in Seq(Texts) : Words(a) = Append(w, <<text[n]>>) /\ Words(b) = Sifted(w, D)
  BY DEF InFiller
<1>2. <<text[n]>> \in D /\ n \in DOMAIN text
  BY DEF InFiller
<1>3. <<text[n]>> \in Texts
  <2>1. text[n] \in STRING
    BY <1>2, LenProperties, ElementOfSeq DEF Texts
  <2>2. QED BY <2>1, OneElement DEF Texts
<1>4. Sifted(Append(w, <<text[n]>>), D) = Sifted(w, D)
  BY <1>2, <1>3, SiftedLast
<1>5. QED BY <1>1, <1>4

LEMMA KeptWordEnds ==
    ASSUME NEW text \in Texts, NEW n \in Nat, NEW places, NEW fillers, NEW a, NEW b,
           Separated(text, places, fillers), Ends(text, n),
           InWord(text, n, places, a, b, FillerWords(fillers))
    PROVE  Words(b) = Sifted(Words(a), FillerWords(fillers))
<1> DEFINE D == FillerWords(fillers)
<1>1. PICK w \in Seq(Texts), x \in Texts :
        /\ Words(a) = Append(w, x) /\ Words(b) = Append(Sifted(w, D), x) /\ x # << >>
        /\ Len(x) = 1 => x = <<text[n]>> /\ Opens(text, n)
  BY DEF InWord
<1>2. n \in places /\ text[n] \notin Blanks /\ n \in 1..Len(text)
  <2>1. DOMAIN text = 1..Len(text)
    BY LenProperties DEF Texts
  <2>2. QED BY <2>1 DEF InWord
<1>3. x \notin D
  <2>1. CASE Len(x) = 1
    BY <2>1, <1>1, <1>2, WordEnds
  <2>2. CASE Len(x) # 1
    BY <2>2 DEF FillerWords
  <2>3. QED BY <2>1, <2>2
<1> HIDE DEF D
<1>4. Sifted(Append(w, x), D) = Append(Sifted(w, D), x)
  BY <1>3, SiftedLast
<1>5. QED BY <1>1, <1>4 DEF D

Scanned(text, n, places, a, b, D) ==
    Between(a, b, D) \/ InFiller(text, n, places, a, b, D) \/ InWord(text, n, places, a, b, D)

LEMMA OpenNotBlank ==
    ASSUME NEW text \in Texts, NEW t \in STRING, t \notin Blanks
    PROVE  ~Closed(Append(text, t))
<1>1. text \in Seq(STRING)
  BY DEF Texts
<1>2. Extends(Append(text, t), text, t, STRING)
  BY <1>1, Extended
<1>3. QED BY <1>2 DEF Extends, Closed

\* A word starts.
LEMMA WordStarts ==
    ASSUME NEW text \in Texts, NEW n \in Nat, n < Len(text), NEW places, NEW fillers,
           Separated(text, places, fillers), text[n + 1] \notin Blanks,
           NEW a \in Texts, a = SubSeq(text, 1, n), NEW b \in Texts, b = Kept(a, places),
           NEW c, c = IF n + 1 \in places THEN Append(b, text[n + 1]) ELSE b,
           Between(a, b, FillerWords(fillers))
    PROVE  Scanned(text, n + 1, places, Append(a, text[n + 1]), c, FillerWords(fillers))
<1> DEFINE D == FillerWords(fillers)
           e == text[n + 1]
<1>1. /\ n + 1 \in DOMAIN text /\ e \in STRING /\ <<e>> \in Texts
      /\ Closed(a) <=> Opens(text, n + 1)
  <2>1. n + 1 \in DOMAIN text /\ text \in Seq(STRING)
    BY LenProperties DEF Texts
  <2>2. e \in STRING /\ (Closed(a) <=> Opens(text, n + 1))
    BY WordsPrefix
  <2>3. QED BY <2>1, <2>2, OneElement DEF Texts
<1>2. Closed(a) /\ Words(b) = Sifted(Words(a), D)
  BY DEF Between
<1>3. Words(Append(a, e)) = Append(Words(a), <<e>>)
  BY <1>1, <1>2, WordsAppend DEF NextWords
<1>4. Words(a) \in Seq(Texts)
  BY WordsType
<1>5. CASE n + 1 \notin places
  <2>1. <<e>> \in D
    <3>1. e \in fillers
      BY <1>1, <1>5 DEF Separated
    <3>2. QED BY <3>1 DEF FillerWords
  <2>2. c = b
    BY <1>5
  <2> HIDE DEF D
  <2>3. InFiller(text, n + 1, places, Append(a, e), c, D)
    BY <1>1, <1>2, <1>3, <1>4, <1>5, <2>1, <2>2 DEF InFiller
  <2>4. QED BY <2>3 DEF Scanned, D
<1>6. CASE n + 1 \in places
  <2>1. Closed(b)
    BY <1>1, <1>2, <1>6 DEF Separated
  <2>2. c = Append(b, e)
    BY <1>6
  <2>3. Words(c) = Append(Words(b), <<e>>) /\ ~Closed(c)
    BY <1>1, <2>1, <2>2, WordsAppend, OpenNotBlank DEF NextWords
  <2> HIDE DEF D
  <2>4. InWord(text, n + 1, places, Append(a, e), c, D)
    <3>1. <<e>> # << >> /\ Opens(text, n + 1)
      BY <1>1, <1>2
    <3>2. Words(c) = Append(Sifted(Words(a), D), <<e>>)
      BY <1>2, <2>3
    <3>3. QED BY <1>1, <1>3, <1>4, <1>6, <2>3, <3>1, <3>2 DEF InWord
  <2>5. QED BY <2>4 DEF Scanned, D
<1>7. QED BY <1>5, <1>6

\* A word goes on.
LEMMA WordGoesOn ==
    ASSUME NEW text \in Texts, NEW n \in Nat, n < Len(text), NEW places, NEW fillers,
           Separated(text, places, fillers), text[n + 1] \notin Blanks,
           NEW a \in Texts, a = SubSeq(text, 1, n), NEW b \in Texts, b = Kept(a, places),
           NEW c, c = IF n + 1 \in places THEN Append(b, text[n + 1]) ELSE b,
           InWord(text, n, places, a, b, FillerWords(fillers))
    PROVE  Scanned(text, n + 1, places, Append(a, text[n + 1]), c, FillerWords(fillers))
<1> DEFINE D == FillerWords(fillers)
           e == text[n + 1]
<1> HIDE DEF D
<1>1. /\ n + 1 \in DOMAIN text /\ n \in DOMAIN text /\ e \in STRING
      /\ Closed(a) <=> Opens(text, n + 1)
  <2>1. n + 1 \in DOMAIN text /\ text \in Seq(STRING)
    BY LenProperties DEF Texts
  <2>2. e \in STRING /\ (Closed(a) <=> Opens(text, n + 1))
    BY WordsPrefix
  <2>3. QED BY <2>1, <2>2 DEF InWord
<1>2. PICK w \in Seq(Texts), x \in Texts :
        Words(a) = Append(w, x) /\ Words(b) = Append(Sifted(w, D), x) /\ x # << >>
  BY DEF InWord, D
<1>3. text[n] \notin Blanks /\ ~Closed(b)
  BY DEF InWord
<1>4. ~Closed(a)
  <2>1. (n + 1) - 1 = n /\ n + 1 # 1
    <3>1. n # 0
      BY <1>1, LenProperties DEF Texts
    <3>2. QED BY <3>1
  <2>2. QED BY <1>1, <1>3, <2>1 DEF Opens
<1>5. n + 1 \in places
  <2>1. n \in {(n + 1) - 1, (n + 1) + 1} \intersect DOMAIN text
    BY <1>1
  <2>2. ~WholeAt(text, n + 1)
    BY <1>3, <2>1 DEF WholeAt
  <2>3. QED BY <1>1, <2>2 DEF Separated
<1>6. c = Append(b, e)
  BY <1>5
<1>7. Sifted(w, D) \in Seq(Texts)
  BY SiftedType
<1>8. Words(Append(a, e)) = Append(w, Append(x, e)) /\ Append(x, e) \in Texts
  <2>1. Words(Append(a, e)) = Prolonged(Words(a), e)
    BY <1>1, <1>3, <1>4, WordsAppend DEF NextWords
  <2>2. e \in STRING
    BY <1>1
  <2> HIDE DEF e
  <2>3. Prolonged(Append(w, x), e) = Append(w, Append(x, e)) /\ Append(x, e) \in Texts
    BY <2>2, ProlongedAppend
  <2>4. QED BY <1>2, <2>1, <2>3
<1>9. Words(c) = Append(Sifted(w, D), Append(x, e))
  <2>1. Words(c) = Prolonged(Words(b), e)
    BY <1>1, <1>3, <1>6, WordsAppend DEF NextWords
  <2>2. e \in STRING
    BY <1>1
  <2> DEFINE v == Sifted(w, D)
  <2> HIDE DEF e, v
  <2>3. Prolonged(Append(v, x), e) = Append(v, Append(x, e))
    BY <2>2, <1>7, ProlongedAppend DEF v
  <2>4. QED BY <1>2, <2>1, <2>3 DEF v
<1>10. ~Closed(c)
  BY <1>1, <1>6, OpenNotBlank
<1>11. Append(x, e) # << >> /\ Len(Append(x, e)) # 1
  <2>1. x \in Seq(STRING)
    BY DEF Texts
  <2>2. Extends(Append(x, e), x, e, STRING)
    BY <1>1, <2>1, Extended
  <2>3. Len(x) # 0
    BY <1>2, <2>1, EmptySeq
  <2>4. QED BY <2>2, <2>3 DEF Extends
<1>12. InWord(text, n + 1, places, Append(a, e), c, D)
  <2> DEFINE y == Append(x, e)
             z == Append(a, e)
  <2>1. y \in Texts /\ Words(z) = Append(w, y) /\ Words(c) = Append(Sifted(w, D), y) /\ y # << >> /\ Len(y) # 1
    BY <1>8, <1>9, <1>11
  <2> HIDE DEF y, z
  <2>2. InWord(text, n + 1, places, z, c, D)
    BY <1>1, <1>5, <1>10, <2>1 DEF InWord
  <2>3. QED BY <2>2 DEF z
<1>13. QED BY <1>12 DEF Scanned, D

\* A blank ends whatever word there was.
LEMMA WordsStop ==
    ASSUME NEW text \in Texts, NEW n \in Nat, NEW places, NEW fillers,
           Separated(text, places, fillers), Ends(text, n),
           NEW a, NEW b, Scanned(text, n, places, a, b, FillerWords(fillers))
    PROVE  Words(b) = Sifted(Words(a), FillerWords(fillers))
<1> DEFINE D == FillerWords(fillers)
<1>1. CASE Between(a, b, D)
  BY <1>1 DEF Between
<1>2. CASE InFiller(text, n, places, a, b, D)
  <2> HIDE DEF D
  <2>1. QED BY <1>2, FillerEnds DEF D
<1>3. CASE InWord(text, n, places, a, b, D)
  <2>1. InWord(text, n, places, a, b, FillerWords(fillers))
    BY <1>3
  <2>2. QED BY <2>1, KeptWordEnds
<1>4. QED BY <1>1, <1>2, <1>3 DEF Scanned

LEMMA ScanStep ==
    ASSUME NEW text \in Texts, NEW n \in Nat, n < Len(text), NEW places, NEW fillers,
           Separated(text, places, fillers),
           NEW a \in Texts, a = SubSeq(text, 1, n), NEW b \in Texts, b = Kept(a, places),
           NEW c, c = IF n + 1 \in places THEN Append(b, text[n + 1]) ELSE b,
           Scanned(text, n, places, a, b, FillerWords(fillers))
    PROVE  Scanned(text, n + 1, places, Append(a, text[n + 1]), c, FillerWords(fillers))
<1> DEFINE D == FillerWords(fillers)
<1>1. CASE text[n + 1] \in Blanks
  <2>1. Words(b) = Sifted(Words(a), D)
    BY <1>1, WordsStop DEF Ends
  <2>2. Words(Append(a, text[n + 1])) = Words(a) /\ Closed(Append(a, text[n + 1]))
    BY <1>1, WordsBlank
  <2>3. Words(c) = Words(b)
    BY <1>1, WordsBlank
  <2>4. QED BY <2>1, <2>2, <2>3 DEF Scanned, Between
<1>2. CASE text[n + 1] \notin Blanks
  <2>1. CASE Between(a, b, D)
    BY <1>2, <2>1, WordStarts
  <2>2. CASE InFiller(text, n, places, a, b, D)
    <3>1. n \in DOMAIN text /\ n + 1 \in DOMAIN text /\ n \notin places /\ text[n] \notin Blanks
      BY <2>2, LenProperties DEF InFiller, Texts
    <3>2. WholeAt(text, n)
      BY <3>1 DEF Separated
    <3>3. n + 1 \in {n - 1, n + 1} \intersect DOMAIN text
      BY <3>1
    <3>4. QED BY <1>2, <3>2, <3>3 DEF WholeAt
  <2>3. CASE InWord(text, n, places, a, b, D)
    BY <1>2, <2>3, WordGoesOn
  <2>4. QED BY <2>1, <2>2, <2>3 DEF Scanned
<1>3. QED BY <1>1, <1>2

\* The words of what is kept of a text are its words, less the fillers.
LEMMA KeptWords ==
    ASSUME NEW text \in Texts, NEW places, NEW fillers, Separated(text, places, fillers)
    PROVE  Words(Kept(text, places)) = Sifted(Words(text), FillerWords(fillers))
<1> DEFINE D == FillerWords(fillers)
           A(n) == SubSeq(text, 1, n)
           B(n) == Kept(A(n), places)
           M == {n \in Nat : Scanned(text, n, places, A(n), B(n), D)}
<1> HIDE DEF D
<1>1. text \in Seq(STRING) /\ Seq(STRING) = Texts /\ Len(text) \in Nat
  BY LenProperties DEF Texts
<1>2. 0 \in M
  <2>1. A(0) = << >>
    BY SubSeqEmpty
  <2>2. B(0) = << >>
    BY <2>1, KeptEmpty
  <2>3. Between(<< >>, << >>, D)
    BY WordsEmpty, SiftedEmpty DEF Between, Closed
  <2>4. QED BY <2>1, <2>2, <2>3 DEF Scanned
<1>3. ASSUME NEW n \in Nat, n < Len(text), n \in M PROVE n + 1 \in M
  <2>1. A(n) \in Texts /\ A(n + 1) = Append(A(n), text[n + 1])
    BY <1>3, WordsPrefix
  <2>2. B(n) \in Texts /\ B(n + 1) = IF n + 1 \in places THEN Append(B(n), text[n + 1]) ELSE B(n)
    BY <1>1, <1>3, KeptLonger
  <2>3. Scanned(text, n, places, A(n), B(n), D)
    BY <1>3
  <2> DEFINE a == A(n)
             b == B(n)
             c == B(n + 1)
  <2>4. a = SubSeq(text, 1, n) /\ b = Kept(a, places)
    OBVIOUS
  <2> HIDE DEF a, b, c
  <2>5. Scanned(text, n + 1, places, Append(a, text[n + 1]), c, D)
    <3>1. a \in Texts /\ b \in Texts /\ c = IF n + 1 \in places THEN Append(b, text[n + 1]) ELSE b
      BY <2>1, <2>2 DEF a, b, c
    <3>2. Scanned(text, n, places, a, b, D)
      BY <2>3 DEF a, b
    <3>3. QED BY <1>3, <2>4, <3>1, <3>2, ScanStep DEF D
  <2>6. Scanned(text, n + 1, places, A(n + 1), B(n + 1), D)
    BY <2>1, <2>5 DEF a, c
  <2>7. QED BY <2>6
<1> HIDE DEF M
<1>4. Len(text) \in M
  BY <1>1, <1>2, <1>3, PartsInduction
<1>5. A(Len(text)) = text
  BY <1>1, SubSeqFull
<1>6. Scanned(text, Len(text), places, text, Kept(text, places), D)
  BY <1>4, <1>5 DEF M
<1>7. Ends(text, Len(text))
  BY DEF Ends
<1>8. QED BY <1>1, <1>6, <1>7, WordsStop DEF D

\* What is kept ends as the last of its places does.
LEMMA KeptCloses ==
    ASSUME NEW text \in Texts, NEW n \in Nat, NEW places, n <= Len(text),
           \A k \in 1..n : k \in places /\ (\A i \in 1..n : i > k => i \notin places) => text[k] \in Blanks
    PROVE  Closed(Kept(SubSeq(text, 1, n), places))
<1> DEFINE a == SubSeq(text, 1, n)
           b == Kept(a, places)
<1>1. text \in Seq(STRING)
  BY DEF Texts
<1>2. a \in Seq(STRING) /\ Len(a) = n /\ DOMAIN a = 1..n /\ \A i \in 1..n : a[i] = text[i]
  BY <1>1, SubSeqProperties, LenProperties
<1> HIDE DEF a
<1>3. SUFFICES ASSUME b # << >> PROVE b[Len(b)] \in Blanks
  BY DEF Closed, a
<1>4. PICK k \in DOMAIN a : /\ k \in places /\ b[Len(b)] = a[k]
                            /\ \A i \in DOMAIN a : i > k => i \notin places
  BY <1>2, <1>3, KeptLast
<1> HIDE DEF b
<1>5. k \in 1..n /\ text[k] \in Blanks
  BY <1>2, <1>4
<1>6. QED BY <1>2, <1>4, <1>5

LEMMA SiftedNone ==
    ASSUME NEW S, NEW s \in Seq(S)
    PROVE  Sifted(s, {}) = s
<1> DEFINE P == {t \in Seq(S) : Sifted(t, {}) = t}
<1>1. << >> \in P
  BY SiftedEmpty
<1>2. ASSUME NEW t \in Seq(S), NEW e \in S, t \in P PROVE Append(t, e) \in P
  <2>1. Sifted(Append(t, e), {}) = Append(Sifted(t, {}), e)
    BY SiftedLast
  <2>2. Append(t, e) \in Seq(S)
    BY AppendProperties
  <2>3. QED BY <1>2, <2>1, <2>2
<1> HIDE DEF P
<1>3. s \in P
  BY <1>1, <1>2, SeqSetInduction
<1>4. QED BY <1>3 DEF P

\* The blanks that are left out are not all there is between two words.
LEMMA KeptSameWords ==
    ASSUME NEW text \in Texts, NEW places,
           \A i \in DOMAIN text : i \notin places => text[i] \in Blanks,
           \A n \in Nat : n + 1 \in DOMAIN text /\ text[n + 1] \notin Blanks
                          /\ Closed(SubSeq(text, 1, n))
                          => Closed(Kept(SubSeq(text, 1, n), places))
    PROVE  Words(Kept(text, places)) = Words(text)
<1>1. Separated(text, places, {})
  BY DEF Separated
<1>2. FillerWords({}) = {}
  BY DEF FillerWords
<1>3. Words(Kept(text, places)) = Sifted(Words(text), {})
  BY <1>1, <1>2, KeptWords
<1>4. Sifted(Words(text), {}) = Words(text)
  BY WordsType, SiftedNone
<1>5. QED BY <1>3, <1>4

LEMMA LinesStrippedWords ==
    ASSUME NEW text \in Texts
    PROVE  LinesStripped(text) \in Texts /\ Words(LinesStripped(text)) = Words(text)
<1> DEFINE Trailing(i) == \E j \in i..Len(text) :
                             /\ \A k \in i..j : text[k] = Space
                             /\ j = Len(text) \/ text[j + 1] = Newline
           P == {i \in DOMAIN text : ~Trailing(i)}
<1>1. text \in Seq(STRING) /\ DOMAIN text = 1..Len(text) /\ Len(text) \in Nat
  BY LenProperties DEF Texts
<1>2. LinesStripped(text) = Kept(text, P)
  BY DEF LinesStripped
<1>3. ASSUME NEW i \in DOMAIN text, i \notin P PROVE text[i] \in Blanks
  <2>1. PICK j \in i..Len(text) : \A k \in i..j : text[k] = Space
    BY <1>3
  <2>2. i \in i..j
    BY <1>1, <2>1
  <2>3. QED BY <2>1, <2>2 DEF Blanks
<1>4. ASSUME NEW n \in Nat, n + 1 \in DOMAIN text, text[n + 1] \notin Blanks, Closed(SubSeq(text, 1, n))
      PROVE  Closed(Kept(SubSeq(text, 1, n), P))
  <2>p. n < Len(text)
    <3>1. n + 1 \in 1..Len(text)
      BY <1>1, <1>4
    <3>2. QED BY <1>1, <3>1
  <2>1. ~Trailing(n)
    <3>1. ASSUME NEW j \in n..Len(text), \A k \in n..j : text[k] = Space,
                 j = Len(text) \/ text[j + 1] = Newline
          PROVE  FALSE
      <4>1. CASE j = n
        <5>1. n # Len(text)
          BY <2>p
        <5>2. text[n + 1] = Newline
          BY ONLY <3>1, <4>1, <5>1
        <5>3. QED BY <1>4, <5>2 DEF Blanks
      <4>2. CASE j # n
        <5>1. n + 1 \in n..j
          BY <1>1, <4>2
        <5>2. QED BY <1>4, <3>1, <5>1 DEF Blanks
      <4>3. QED BY <4>1, <4>2
    <3>2. QED BY <3>1
  <2>2. n # 0 => n \in P
    <3>1. n # 0 => n \in DOMAIN text
      BY <1>1, <1>4
    <3> HIDE DEF Trailing
    <3>2. QED BY <2>1, <3>1
  <2>3. n # 0 => text[n] \in Blanks
    <3>1. (n + 1) - 1 = n /\ (n # 0 => n + 1 # 1) /\ n < Len(text)
      BY <1>1, <1>4
    <3>2. Opens(text, n + 1)
      BY <1>4, <3>1, WordsPrefix
    <3>3. QED BY <3>1, <3>2 DEF Opens
  <2> HIDE DEF P
  <2>4. \A k \in 1..n : k \in P /\ (\A i \in 1..n : i > k => i \notin P) => text[k] \in Blanks
    <3>1. ASSUME NEW k \in 1..n, k \in P, \A i \in 1..n : i > k => i \notin P PROVE k = n
      BY <2>2, <3>1
    <3>2. QED BY <2>3, <3>1
  <2>5. n <= Len(text)
    BY <1>1, <1>4
  <2>6. QED BY <2>4, <2>5, KeptCloses
<1> HIDE DEF P
<1>5. Words(Kept(text, P)) = Words(text)
  BY <1>3, <1>4, KeptSameWords
<1>6. Kept(text, P) \in Texts
  BY <1>1, KeptType DEF Texts
<1>7. QED BY <1>2, <1>5, <1>6

\* Before a token that starts a word there is a blank, or nothing.
LEMMA BlankBefore ==
    ASSUME NEW text \in Texts, NEW n \in Nat, n + 1 \in DOMAIN text, Closed(SubSeq(text, 1, n))
    PROVE  n < Len(text) /\ (n # 0 => n \in DOMAIN text /\ text[n] \in Blanks)
<1>1. DOMAIN text = 1..Len(text) /\ Len(text) \in Nat
  BY LenProperties DEF Texts
<1>2. n < Len(text)
  <2>1. n + 1 \in 1..Len(text)
    BY <1>1
  <2>2. QED BY <1>1, <2>1
<1>3. Opens(text, n + 1)
  BY <1>2, WordsPrefix
<1>4. (n + 1) - 1 = n /\ (n # 0 => n + 1 # 1 /\ n \in 1..Len(text))
  BY <1>1, <1>2
<1>5. QED BY <1>1, <1>2, <1>3, <1>4 DEF Opens

\* Runs of line ends are cut from the third on.
LEMMA ShortRunsWords ==
    ASSUME NEW text \in Texts, NEW P,
           P = {i \in DOMAIN text : i < 3 \/ \E j \in i - 2..i : text[j] # Newline}
    PROVE  Words(Kept(text, P)) = Words(text)
<1>1. DOMAIN text = 1..Len(text) /\ Len(text) \in Nat
  BY LenProperties DEF Texts
<1>2. ASSUME NEW i \in 1..Len(text), i \notin P
      PROVE  \A j \in i - 2..i : text[j] = Newline
  BY <1>1, <1>2
<1>3. ASSUME NEW i \in DOMAIN text, i \notin P PROVE text[i] \in Blanks
  <2>1. i \in i - 2..i
    BY <1>1
  <2>2. QED BY <1>1, <1>2, <1>3, <2>1 DEF Blanks
<1>4. ASSUME NEW n \in Nat, n + 1 \in DOMAIN text, text[n + 1] \notin Blanks, Closed(SubSeq(text, 1, n))
      PROVE  Closed(Kept(SubSeq(text, 1, n), P))
  <2>1. n < Len(text) /\ (n # 0 => n \in DOMAIN text /\ text[n] \in Blanks)
    BY <1>4, BlankBefore
  <2>2. ASSUME NEW k \in 1..n, k \in P, \A i \in 1..n : i > k => i \notin P
        PROVE  text[k] \in Blanks
    <3>1. CASE k = n
      BY <2>1, <3>1
    <3>2. CASE k # n
      <4>1. k + 1 \in 1..n /\ k + 1 > k /\ k + 1 \in 1..Len(text) /\ k \in (k + 1) - 2..k + 1
        BY <1>1, <2>1, <3>2
      <4>2. text[k] = Newline
        BY <1>2, <2>2, <4>1
      <4>3. QED BY <4>2 DEF Blanks
    <3>3. QED BY <3>1, <3>2
  <2>3. n <= Len(text)
    BY <1>1, <2>1
  <2>4. QED BY <2>2, <2>3, KeptCloses
<1>5. QED BY <1>3, <1>4, KeptSameWords

LEMMA NormaliseWords ==
    ASSUME NEW text \in Texts
    PROVE  NormaliseWhitespace(text) \in Texts /\ Words(NormaliseWhitespace(text)) = Words(text)
<1> DEFINE lines == LinesStripped(text)
           P == {i \in DOMAIN lines : i < 3 \/ \E j \in i - 2..i : lines[j] # Newline}
<1>1. lines \in Texts /\ Words(lines) = Words(text)
  BY LinesStrippedWords
<1>2. NormaliseWhitespace(text) = Kept(lines, P)
  BY DEF NormaliseWhitespace
<1> HIDE DEF lines
<1>3. Words(Kept(lines, P)) = Words(lines)
  BY <1>1, ShortRunsWords
<1>4. Kept(lines, P) \in Texts
  BY <1>1, KeptType DEF Texts
<1>5. QED BY <1>1, <1>2, <1>3, <1>4

LEMMA FilterWords ==
    ASSUME NEW text \in Texts, NEW fillers
    PROVE  /\ FilterProse(text, fillers) \in Texts
           /\ Words(FilterProse(text, fillers)) = Sifted(Words(text), FillerWords(fillers))
<1> DEFINE Whole(i) == \A j \in {i - 1, i + 1} \intersect DOMAIN text : text[j] \in Blanks
           Stays(i) == text[i] \notin Blanks /\ ~(Whole(i) /\ text[i] \in fillers)
           Parts(i) == /\ i < Len(text) /\ Stays(i + 1)
                       /\ \E j \in 1..i - 1 : Stays(j) /\ Newline \notin {text[k] : k \in j..i}
           P == {i \in DOMAIN text :
                    text[i] = Newline \/ Stays(i) \/ (text[i] = Space /\ Parts(i))}
<1>1. text \in Seq(STRING) /\ DOMAIN text = 1..Len(text) /\ Len(text) \in Nat
  BY LenProperties DEF Texts
<1>2. FilterProse(text, fillers) = Kept(text, P)
  BY DEF FilterProse
<1>3. \A i : Whole(i) = WholeAt(text, i)
  BY DEF WholeAt
<1> HIDE DEF Whole
<1>4. \A i \in DOMAIN text : i \notin P =>
          text[i] \in Blanks \/ (text[i] \in fillers /\ WholeAt(text, i))
  BY <1>3
<1>5. \A i \in DOMAIN text : i \in P /\ text[i] \notin Blanks =>
          ~(text[i] \in fillers /\ WholeAt(text, i))
  BY <1>3 DEF Blanks
<1>6. \A i \in DOMAIN text : i \in P /\ text[i] \notin Blanks => Stays(i)
  BY DEF Blanks
<1>7. \A i \in DOMAIN text : text[i] = Newline => i \in P
  OBVIOUS
<1>8. \A i \in DOMAIN text : text[i] \in Blanks /\ i \notin P => text[i] = Space /\ ~Parts(i)
  BY DEF Blanks
<1> HIDE DEF P, Stays
<1>9. ASSUME NEW n \in Nat, n + 1 \in DOMAIN text, n + 1 \in P, text[n + 1] \notin Blanks,
             Closed(SubSeq(text, 1, n))
      PROVE  Closed(Kept(SubSeq(text, 1, n), P))
  <2>1. n < Len(text) /\ (n # 0 => n \in DOMAIN text /\ text[n] \in Blanks)
    BY <1>9, BlankBefore
  <2>2. ASSUME NEW k \in 1..n, k \in P, \A i \in 1..n : i > k => i \notin P
        PROVE  text[k] \in Blanks
    <3>1. CASE k = n
      BY <2>1, <3>1
    <3>2. CASE k # n
      <4>1. SUFFICES ASSUME text[k] \notin Blanks PROVE FALSE
        OBVIOUS
      <4>2. Stays(k) /\ k \in 1..n - 1
        BY <1>1, <1>6, <2>1, <2>2, <3>2, <4>1
      <4>3. ~Parts(n)
        <5>1. n \in DOMAIN text /\ text[n] \in Blanks /\ n \notin P
          BY <2>1, <2>2, <3>2
        <5>2. QED BY <5>1, <1>8
      <4>4. Stays(n + 1)
        BY <1>6, <1>9
      <4>5. Newline \in {text[i] : i \in k..n}
        BY <2>1, <4>2, <4>3, <4>4
      <4>6. PICK i \in k..n : text[i] = Newline
        BY <4>5
      <4>7. i # k
        BY <4>1, <4>6 DEF Blanks
      <4>8. i \in 1..n /\ i > k /\ i \in DOMAIN text
        BY <1>1, <2>1, <4>7
      <4>9. QED BY <1>7, <2>2, <4>6, <4>8
    <3>3. QED BY <3>1, <3>2
  <2>3. n <= Len(text)
    BY <1>1, <2>1
  <2> HIDE DEF Parts
  <2>4. QED BY <2>2, <2>3, KeptCloses
<1> HIDE DEF Parts
<1>10. Separated(text, P, fillers)
  BY <1>4, <1>5, <1>9 DEF Separated
<1>11. Kept(text, P) \in Texts
  BY <1>1, KeptType DEF Texts
<1>12. QED BY <1>2, <1>10, <1>11, KeptWords

-----------------------------------------------------------------------------
(* Sequences of words of which some are left out.                          *)

\* Of the words a only fillers are not among the words b.
Pruned(a, b, fillers) ==
    \E places : b = Kept(a, places)
                /\ \A i \in DOMAIN a : i \notin places => IsFiller(a[i], fillers)

LEMMA PrunedSelf ==
    ASSUME NEW a \in Seq(Texts), NEW fillers
    PROVE  Pruned(a, a, fillers)
<1>1. Sifted(a, {}) = a
  BY SiftedNone
<1> DEFINE P == {i \in DOMAIN a : a[i] \notin {}}
<1>2. a = Kept(a, P) /\ \A i \in DOMAIN a : i \in P
  BY <1>1 DEF Sifted
<1> HIDE DEF P
<1>3. QED BY <1>2 DEF Pruned

LEMMA PrunedNone ==
    ASSUME NEW a \in Seq(Texts), NEW b, Pruned(a, b, {})
    PROVE  b = a
<1>1. PICK P : b = Kept(a, P) /\ \A i \in DOMAIN a : i \notin P => IsFiller(a[i], {})
  BY DEF Pruned
<1> DEFINE Q == {i \in DOMAIN a : a[i] \notin {}}
<1>2. \A i \in DOMAIN a : i \in P <=> i \in Q
  BY <1>1 DEF IsFiller
<1>3. Kept(a, P) = Kept(a, Q)
  BY <1>2, KeptSame
<1>4. Kept(a, Q) = a
  BY SiftedNone DEF Sifted
<1>5. QED BY <1>1, <1>3, <1>4

LEMMA PrunedSifted ==
    ASSUME NEW a \in Seq(Texts), NEW fillers
    PROVE  Pruned(a, Sifted(a, FillerWords(fillers)), fillers)
<1> DEFINE P == {i \in DOMAIN a : a[i] \notin FillerWords(fillers)}
<1>1. Sifted(a, FillerWords(fillers)) = Kept(a, P)
  BY DEF Sifted
<1>2. ASSUME NEW i \in DOMAIN a, i \notin P PROVE IsFiller(a[i], fillers)
  <2>1. a[i] \in FillerWords(fillers)
    BY <1>2
  <2>2. PICK x \in fillers : a[i] = <<x>>
    BY <2>1 DEF FillerWords
  <2>3. QED BY <2>2 DEF IsFiller
<1> HIDE DEF P
<1>3. QED BY <1>1, <1>2 DEF Pruned

LEMMA KeptConcat ==
    ASSUME NEW S, NEW a \in Seq(S), NEW c \in Seq(S), NEW P, NEW R
    PROVE  Kept(a \o c, {i \in Nat : IF i <= Len(a) THEN i \in P ELSE i - Len(a) \in R})
             = Kept(a, P) \o Kept(c, R)
<1> DEFINE Q == {i \in Nat : IF i <= Len(a) THEN i \in P ELSE i - Len(a) \in R}
           I == {t \in Seq(S) : Kept(a \o t, Q) = Kept(a, P) \o Kept(t, R)}
<1>1. Len(a) \in Nat /\ DOMAIN a = 1..Len(a)
  BY LenProperties
<1>2. \A i \in DOMAIN a : i \in Q <=> i \in P
  BY <1>1
<1>3. \A i \in Nat : i # 0 => (Len(a) + i \in Q <=> i \in R)
  BY <1>1
<1> HIDE DEF Q
<1>4. Kept(a, Q) = Kept(a, P) /\ Kept(a, P) \in Seq(S)
  BY <1>2, KeptSame, KeptType
<1>5. << >> \in I
  <2>1. a \o << >> = a /\ Kept(a, P) \o << >> = Kept(a, P)
    BY <1>4, ConcatEmptySeq
  <2>2. QED BY <2>1, <1>4, KeptEmpty
<1>6. ASSUME NEW t \in Seq(S), NEW e \in S, t \in I PROVE Append(t, e) \in I
  <2> DEFINE x == Piece(e, Len(t) + 1 \in R)
             y == Piece(e, Len(a \o t) + 1 \in Q)
             b == Kept(t, R)
  <2>1. a \o Append(t, e) = Append(a \o t, e) /\ a \o t \in Seq(S) /\ Append(t, e) \in Seq(S)
    BY ConcatAppend, ConcatProperties, AppendProperties, SMTT(30)
  <2>2. Kept(Append(a \o t, e), Q) = Kept(a \o t, Q) \o y
    BY <2>1, KeptAppend
  <2>3. Kept(Append(t, e), R) = b \o x
    BY KeptAppend
  <2>4. y = x
    <3>1. Len(a \o t) + 1 = Len(a) + (Len(t) + 1) /\ Len(t) + 1 \in Nat /\ Len(t) + 1 # 0
      BY <1>1, ConcatProperties, LenProperties
    <3>2. QED BY <3>1, <1>3 DEF Piece
  <2>5. b \in Seq(S) /\ x \in Seq(S)
    BY KeptType, PieceType
  <2>6. Kept(a \o t, Q) = Kept(a, P) \o b
    BY <1>6
  <2> HIDE DEF x, y, b
  <2> DEFINE k == Kept(a, P)
  <2>7. k \in Seq(S)
    BY <1>4
  <2> HIDE DEF k
  <2>8. (k \o b) \o x = k \o (b \o x)
    BY ONLY <2>5, <2>7, ConcatAssociative, SMTT(30)
  <2>9. QED BY <2>1, <2>2, <2>3, <2>4, <2>6, <2>8 DEF k
<1> HIDE DEF I
<1>7. c \in I
  BY <1>5, <1>6, SeqSetInduction
<1>8. QED BY <1>7 DEF I, Q

LEMMA PrunedConcat ==
    ASSUME NEW a \in Seq(Texts), NEW b, NEW c \in Seq(Texts), NEW d, NEW fillers,
           Pruned(a, b, fillers), Pruned(c, d, fillers)
    PROVE  Pruned(a \o c, b \o d, fillers)
<1>1. PICK P : b = Kept(a, P) /\ \A i \in DOMAIN a : i \notin P => IsFiller(a[i], fillers)
  BY DEF Pruned
<1>2. PICK R : d = Kept(c, R) /\ \A i \in DOMAIN c : i \notin R => IsFiller(c[i], fillers)
  BY DEF Pruned
<1> DEFINE Q == {i \in Nat : IF i <= Len(a) THEN i \in P ELSE i - Len(a) \in R}
           s == a \o c
<1>3. b \o d = Kept(s, Q)
  <2>1. Kept(a \o c, Q) = Kept(a, P) \o Kept(c, R)
    BY KeptConcat
  <2> HIDE DEF Q
  <2>2. QED BY <2>1, <1>1, <1>2
<1>4. ASSUME NEW i \in DOMAIN s, i \notin Q PROVE IsFiller(s[i], fillers)
  <2>1. /\ DOMAIN s = 1..Len(a) + Len(c) /\ DOMAIN a = 1..Len(a) /\ DOMAIN c = 1..Len(c)
        /\ Len(a) \in Nat /\ Len(c) \in Nat
        /\ \A j \in 1..Len(a) + Len(c) : s[j] = IF j <= Len(a) THEN a[j] ELSE c[j - Len(a)]
    BY ConcatProperties, LenProperties
  <2>2. CASE i <= Len(a)
    BY <1>1, <1>4, <2>1, <2>2
  <2>3. CASE ~(i <= Len(a))
    <3>1. i - Len(a) \in DOMAIN c /\ i - Len(a) \notin R
      BY <1>4, <2>1, <2>3
    <3>2. QED BY <1>2, <2>1, <2>3, <3>1
  <2>4. QED BY <2>2, <2>3
<1> HIDE DEF Q, s
<1>5. Pruned(s, b \o d, fillers)
  BY <1>3, <1>4 DEF Pruned
<1>6. QED BY <1>5 DEF s

\* What is kept of the first part comes first in what is kept.
LEMMA KeptFirst ==
    ASSUME NEW S, NEW s \in Seq(S), NEW places, NEW n \in 0..Len(s)
    PROVE  LET m == Len(Kept(SubSeq(s, 1, n), places))
               b == Kept(s, places)
           IN  /\ m \in Nat /\ m <= Len(b)
               /\ n < Len(s) /\ n + 1 \in places => m + 1 \in DOMAIN b /\ b[m + 1] = s[n + 1]
<1> DEFINE B(k) == Kept(SubSeq(s, 1, k), places)
           Longer1(k) == /\ k >= n => Len(B(k)) >= Len(B(n))
                         /\ k > n /\ n + 1 \in places =>
                               Len(B(k)) >= Len(B(n)) + 1 /\ B(k)[Len(B(n)) + 1] = s[n + 1]
           M == {k \in Nat : k <= Len(s) => Longer1(k)}
<1>1. Len(s) \in Nat /\ n \in Nat
  BY LenProperties
<1>2. ASSUME NEW k \in Nat, k <= Len(s) PROVE B(k) \in Seq(S) /\ Len(B(k)) \in Nat
  <2>1. SubSeq(s, 1, k) \in Seq(S)
    BY <1>1, <1>2, SubSeqProperties
  <2>2. B(k) \in Seq(S)
    BY <2>1, KeptType
  <2>3. QED BY <2>2, LenProperties
<1>3. ASSUME NEW k \in Nat, k < Len(s)
      PROVE  /\ Len(B(k + 1)) >= Len(B(k))
             /\ \A i \in 1..Len(B(k)) : B(k + 1)[i] = B(k)[i]
             /\ k + 1 \in places => /\ Len(B(k + 1)) = Len(B(k)) + 1
                                    /\ B(k + 1)[Len(B(k)) + 1] = s[k + 1]
  <2>1. B(k + 1) = IF k + 1 \in places THEN Append(B(k), s[k + 1]) ELSE B(k)
    BY <1>3, KeptLonger
  <2>2. s[k + 1] \in S /\ B(k) \in Seq(S) /\ Len(B(k)) \in Nat
    BY <1>1, <1>2, <1>3, ElementOfSeq
  <2>3. Extends(Append(B(k), s[k + 1]), B(k), s[k + 1], S)
    BY <2>2, Extended
  <2> DEFINE u == B(k)
             v == B(k + 1)
             w == Append(u, s[k + 1])
  <2> HIDE DEF u, v, w, B
  <2>4. v = (IF k + 1 \in places THEN w ELSE u) /\ Len(u) \in Nat /\ Extends(w, u, s[k + 1], S)
    BY <2>1, <2>2, <2>3 DEF u, v, w
  <2>5. CASE k + 1 \in places
    BY <2>4, <2>5 DEF Extends, u, v
  <2>6. CASE k + 1 \notin places
    BY <2>4, <2>6 DEF u, v
  <2>7. QED BY <2>5, <2>6
<1> HIDE DEF B
<1>4. 0 \in M
  <2>1. 0 >= n => n = 0
    BY <1>1
  <2>2. Len(B(n)) \in Nat
    BY <1>1, <1>2
  <2>3. QED BY <1>1, <2>1, <2>2
<1>5. ASSUME NEW k \in Nat, k < Len(s), k \in M PROVE k + 1 \in M
  <2>1. Len(B(k)) \in Nat /\ Len(B(k + 1)) \in Nat /\ Len(B(n)) \in Nat
    BY <1>1, <1>2, <1>5
  <2>2. CASE k + 1 < n
    BY <1>1, <2>2
  <2>3. CASE k + 1 = n
    BY <1>1, <2>1, <2>3
  <2>4. CASE k = n
    <3>1. Longer1(k + 1)
      BY <1>1, <1>3, <1>5, <2>1, <2>4
    <3>2. QED BY <3>1
  <2>5. CASE k > n
    <3>1. Longer1(k)
      BY <1>5
    <3>2. Len(B(k + 1)) >= Len(B(n))
      BY <1>1, <1>3, <1>5, <2>1, <2>5, <3>1
    <3>3. ASSUME n + 1 \in places
          PROVE  Len(B(k + 1)) >= Len(B(n)) + 1 /\ B(k + 1)[Len(B(n)) + 1] = s[n + 1]
      <4>1. Len(B(k)) >= Len(B(n)) + 1 /\ B(k)[Len(B(n)) + 1] = s[n + 1]
        BY <2>5, <3>1, <3>3
      <4>2. Len(B(n)) + 1 \in 1..Len(B(k))
        BY <2>1, <4>1
      <4>3. QED BY <1>3, <1>5, <2>1, <4>1, <4>2
    <3>4. Longer1(k + 1)
      BY <3>2, <3>3
    <3>5. QED BY <3>4
  <2>6. QED BY <1>1, <2>2, <2>3, <2>4, <2>5
<1> HIDE DEF M
<1>6. Len(s) \in M
  BY <1>1, <1>4, <1>5, PartsInduction
<1>7. Longer1(Len(s))
  BY <1>1, <1>6 DEF M
<1>8. B(Len(s)) = Kept(s, places)
  <2>1. SubSeq(s, 1, Len(s)) = s
    BY SubSeqFull
  <2>2. QED BY <2>1 DEF B
<1>9. Len(B(n)) \in Nat /\ Len(B(Len(s))) \in Nat /\ B(Len(s)) \in Seq(S)
  BY <1>1, <1>2
<1>10. Len(B(n)) <= Len(B(Len(s)))
  BY <1>1, <1>7, <1>9
<1>11. ASSUME n < Len(s), n + 1 \in places
       PROVE  Len(B(n)) + 1 \in DOMAIN B(Len(s)) /\ B(Len(s))[Len(B(n)) + 1] = s[n + 1]
  <2>1. Len(B(Len(s))) >= Len(B(n)) + 1 /\ B(Len(s))[Len(B(n)) + 1] = s[n + 1]
    BY <1>1, <1>7, <1>11
  <2>2. DOMAIN B(Len(s)) = 1..Len(B(Len(s)))
    BY <1>9, LenProperties
  <2>3. QED BY <1>9, <2>1, <2>2
<1>12. QED BY <1>8, <1>9, <1>10, <1>11 DEF B

NextPlace(at, word, out, fillers) ==
    IF at = 0 THEN 0
    ELSE IF at \in DOMAIN out /\ word = out[at] THEN at + 1
    ELSE IF IsFiller(word, fillers) THEN at ELSE 0

LEMMA RemovedIs ==
    ASSUME NEW x, NEW y, NEW fillers, Words(x) \in Seq(Texts), Words(y) \in Seq(Texts)
    PROVE  \E f : /\ f[0] = 1
                  /\ \A n \in 0..Len(Words(x)) - 1 :
                        f[n + 1] = NextPlace(f[n], Words(x)[n + 1], Words(y), fillers)
                  /\ RemovedOnlyAllowed(x, y, fillers)
                        <=> f[Len(Words(x))] = Len(Words(y)) + 1
<1> DEFINE from == Words(x)
           out == Words(y)
           N == Len(from)
           Step(at, word) ==
            IF at \in DOMAIN out /\ word = out[at] THEN at + 1
            ELSE IF IsFiller(word, fillers) THEN at
            ELSE 0
           G == [p \in Nat \X (1..N) |-> NextPlace(p[1], from[p[2]], out, fillers)]
           f == CHOOSE g : g = [n \in 0..N |-> IF n = 0 THEN 1
                    ELSE LET at == g[n - 1] IN IF at = 0 THEN 0 ELSE Step(at, from[n])]
<1>1. N \in Nat
  BY LenProperties
<1>2. \A at, word : (IF at = 0 THEN 0 ELSE Step(at, word)) = NextPlace(at, word, out, fillers)
  BY DEF NextPlace
<1>3. RemovedOnlyAllowed(x, y, fillers) <=> f[N] = Len(out) + 1
  BY DEF RemovedOnlyAllowed
<1> HIDE DEF Step, from, out, N
<1>4. G \in [Nat \X (1..N) -> Nat] /\ \A at \in Nat, n \in 1..N : G[<<at, n>>] = NextPlace(at, from[n], out, fillers)
  <2>1. \A at \in Nat, n \in 1..N : NextPlace(at, from[n], out, fillers) \in Nat
    BY DEF NextPlace
  <2>2. G \in [Nat \X (1..N) -> Nat]
    BY <2>1
  <2>3. QED BY <2>2
<1> HIDE DEF G
<1>5. PICK h : Recursion(h, Nat, 1, N, G)
  BY <1>1, <1>4, RecursionExists
<1>6. h = [n \in 0..N |-> IF n = 0 THEN 1
             ELSE LET at == h[n - 1] IN IF at = 0 THEN 0 ELSE Step(at, from[n])]
  <2>1. \A n \in 0..N : n # 0 => h[n - 1] \in Nat /\ n \in 1..N
    BY <1>1, <1>5 DEF Recursion
  <2>2. \A n \in 0..N : n # 0 => G[<<h[n - 1], n>>] = IF h[n - 1] = 0 THEN 0 ELSE Step(h[n - 1], from[n])
    BY <1>2, <1>4, <2>1
  <2>3. QED BY <2>2, <1>5 DEF Recursion
<1>7. f = [n \in 0..N |-> IF n = 0 THEN 1
             ELSE LET at == f[n - 1] IN IF at = 0 THEN 0 ELSE Step(at, from[n])]
  BY <1>6
<1> HIDE DEF f
<1>8. f[0] = 1
  BY <1>1, <1>7
<1>9. ASSUME NEW n \in 0..N - 1
      PROVE  f[n + 1] = NextPlace(f[n], from[n + 1], out, fillers)
  <2>1. n + 1 \in 0..N /\ n + 1 # 0 /\ (n + 1) - 1 = n
    BY <1>1
  <2>2. f[n + 1] = IF f[n] = 0 THEN 0 ELSE Step(f[n], from[n + 1])
    BY <1>7, <2>1
  <2>3. QED BY <2>2, <1>2
<1>10. QED BY <1>3, <1>8, <1>9 DEF N, from, out

\* The check follows the words of the output wherever there are such: it never
\* is behind the words that were kept, and is before them by fillers only.
LEMMA PrunedAllowed ==
    ASSUME NEW x \in Texts, NEW y \in Texts, NEW fillers, Pruned(Words(x), Words(y), fillers)
    PROVE  RemovedOnlyAllowed(x, y, fillers)
<1> DEFINE a == Words(x)
           b == Words(y)
<1>1. a \in Seq(Texts) /\ b \in Seq(Texts)
  BY WordsType
<1>2. PICK f : /\ f[0] = 1
               /\ \A n \in 0..Len(a) - 1 : f[n + 1] = NextPlace(f[n], a[n + 1], b, fillers)
               /\ RemovedOnlyAllowed(x, y, fillers) <=> f[Len(a)] = Len(b) + 1
  BY <1>1, RemovedIs
<1>3. PICK P : b = Kept(a, P) /\ \A i \in DOMAIN a : i \notin P => IsFiller(a[i], fillers)
  BY DEF Pruned
<1> HIDE DEF a, b
<1> DEFINE m(n) == Len(Kept(SubSeq(a, 1, n), P))
           Ahead(n) == /\ f[n] \in m(n) + 1..Len(b) + 1
                       /\ \A i \in m(n) + 1..f[n] - 1 : IsFiller(b[i], fillers)
           M == {n \in Nat : n <= Len(a) => Ahead(n)}
<1>4. Len(a) \in Nat /\ Len(b) \in Nat /\ DOMAIN b = 1..Len(b) /\ DOMAIN a = 1..Len(a)
  BY <1>1, LenProperties
<1>5. ASSUME NEW n \in 0..Len(a)
      PROVE  /\ m(n) \in Nat /\ m(n) <= Len(b)
             /\ n < Len(a) /\ n + 1 \in P => m(n) + 1 \in DOMAIN b /\ b[m(n) + 1] = a[n + 1]
  BY <1>1, <1>3, KeptFirst
<1>6. ASSUME NEW n \in Nat, n < Len(a)
      PROVE  m(n + 1) = IF n + 1 \in P THEN m(n) + 1 ELSE m(n)
  <2> DEFINE u == Kept(SubSeq(a, 1, n), P)
             v == Kept(SubSeq(a, 1, n + 1), P)
  <2>1. u \in Seq(Texts) /\ v = IF n + 1 \in P THEN Append(u, a[n + 1]) ELSE u
    BY <1>1, <1>6, KeptLonger
  <2>2. a[n + 1] \in Texts
    BY <1>1, <1>4, <1>6, ElementOfSeq
  <2> HIDE DEF u, v
  <2>3. Len(Append(u, a[n + 1])) = Len(u) + 1
    BY <2>1, <2>2, AppendProperties
  <2>4. Len(v) = IF n + 1 \in P THEN Len(u) + 1 ELSE Len(u)
    BY <2>1, <2>3
  <2>5. QED BY <2>4 DEF u, v
<1>7. 0 \in M
  <2>1. m(0) = 0
    <3>1. SubSeq(a, 1, 0) = << >>
      BY SubSeqEmpty
    <3>2. QED BY <3>1, KeptEmpty, EmptySeq
  <2> HIDE DEF m
  <2>2. Ahead(0)
    BY <1>2, <1>4, <2>1
  <2>3. QED BY <2>2
<1> HIDE DEF m
<1>8. ASSUME NEW n \in Nat, n < Len(a), n \in M PROVE n + 1 \in M
  <2>1. n \in 0..Len(a) /\ n \in 0..Len(a) - 1 /\ n + 1 \in DOMAIN a
    BY <1>4, <1>8
  <2> DEFINE at == f[n]
             w == a[n + 1]
             k == m(n)
             l == m(n + 1)
             z == f[n + 1]
  <2>2. at \in k + 1..Len(b) + 1 /\ \A i \in k + 1..at - 1 : IsFiller(b[i], fillers)
    BY <1>4, <1>8
  <2>3. z = NextPlace(at, w, b, fillers)
    BY <1>2, <2>1
  <2>4. k \in Nat /\ k <= Len(b) /\ (n + 1 \in P => k + 1 \in DOMAIN b /\ b[k + 1] = w)
    BY <1>5, <1>8, <2>1
  <2>5. l = IF n + 1 \in P THEN k + 1 ELSE k
    BY <1>6, <1>8
  <2>6. n + 1 \notin P => IsFiller(w, fillers)
    BY <1>3, <2>1
  <2> HIDE DEF at, w, k, l, z
  <2>7. at \in Nat /\ at # 0 /\ at >= k + 1 /\ at <= Len(b) + 1
    BY <1>4, <2>2, <2>4
  <2>8. n + 1 \in P /\ at # k + 1 => IsFiller(w, fillers)
    <3>1. at # k + 1 => k + 1 \in k + 1..at - 1
      BY <2>4, <2>7
    <3>2. QED BY <2>2, <2>4, <3>1
  <2>9. n + 1 \in P /\ at = k + 1 => at \in DOMAIN b /\ w = b[at]
    BY <2>4
  <2>10. CASE at \in DOMAIN b /\ w = b[at]
    <3>1. z = at + 1
      BY <2>3, <2>7, <2>10 DEF NextPlace
    <3>2. at <= Len(b)
      BY <1>4, <2>10
    <3>3. z \in l + 1..Len(b) + 1
      BY <1>4, <2>4, <2>5, <2>7, <3>1, <3>2
    <3>4. ASSUME NEW i \in l + 1..z - 1 PROVE IsFiller(b[i], fillers)
      <4>1. i \in Nat /\ i <= at /\ i >= l + 1
        BY <2>4, <2>5, <2>7, <3>1
      <4>2. CASE i # at
        <5>1. i \in k + 1..at - 1
          BY <2>4, <2>5, <2>7, <4>1, <4>2
        <5>2. QED BY <2>2, <5>1
      <4>3. CASE i = at
        <5>1. n + 1 \in P => at # k + 1
          BY <2>4, <2>5, <2>7, <4>1, <4>3
        <5>2. IsFiller(w, fillers)
          BY <2>6, <2>8, <5>1
        <5>3. QED BY <2>10, <4>3, <5>2
      <4>4. QED BY <4>2, <4>3
    <3>5. QED BY <3>3, <3>4 DEF l, z
  <2>11. CASE ~(at \in DOMAIN b /\ w = b[at])
    <3>1. IsFiller(w, fillers) /\ (n + 1 \in P => at # k + 1)
      BY <2>6, <2>8, <2>9, <2>11
    <3>2. z = at
      BY <2>3, <2>7, <2>11, <3>1 DEF NextPlace
    <3>3. z \in l + 1..Len(b) + 1
      BY <1>4, <2>4, <2>5, <2>7, <3>1, <3>2
    <3>4. ASSUME NEW i \in l + 1..z - 1 PROVE IsFiller(b[i], fillers)
      <4>1. i \in k + 1..at - 1
        BY <2>4, <2>5, <2>7, <3>2
      <4>2. QED BY <2>2, <4>1
    <3>5. QED BY <3>3, <3>4 DEF l, z
  <2>12. QED BY <2>10, <2>11
<1> HIDE DEF M
<1>9. Len(a) \in M
  BY <1>1, <1>4, <1>7, <1>8, PartsInduction
<1>10. m(Len(a)) = Len(b)
  BY <1>1, <1>3, SubSeqFull DEF m
<1>11. f[Len(a)] = Len(b) + 1
  BY <1>4, <1>9, <1>10 DEF M
<1>12. QED BY <1>2, <1>11

-----------------------------------------------------------------------------
(* The words of texts that are joined.                                     *)

LEMMA OpenHasWord ==
    ASSUME NEW text \in Texts, ~Closed(text)
    PROVE  \E w \in Seq(Texts), x \in Texts : Words(text) = Append(w, x)
<1> DEFINE Q(u) == ~Closed(u) => \E w \in Seq(Texts), x \in Texts : Words(u) = Append(w, x)
           P == {u \in Texts : Q(u)}
<1>0. Texts = Seq(STRING)
  BY DEF Texts
<1>1. << >> \in P
  BY <1>0 DEF Closed
<1>2. ASSUME NEW u \in Texts, NEW t \in STRING, u \in P PROVE Append(u, t) \in P
  <2>1. Append(u, t) \in Texts
    BY <1>0, AppendProperties
  <2>2. CASE t \in Blanks
    BY <2>1, <2>2, WordsBlank
  <2>3. CASE t \notin Blanks /\ Closed(u)
    <3>1. Words(Append(u, t)) = Append(Words(u), <<t>>)
      BY <2>3, WordsAppend DEF NextWords
    <3>2. <<t>> \in Texts /\ Words(u) \in Seq(Texts)
      BY <1>0, OneElement, WordsType
    <3>3. QED BY <2>1, <3>1, <3>2
  <2>4. CASE t \notin Blanks /\ ~Closed(u)
    <3>1. PICK w \in Seq(Texts), x \in Texts : Words(u) = Append(w, x)
      BY <1>2, <2>4
    <3>2. Words(Append(u, t)) = Prolonged(Append(w, x), t)
      BY <2>4, <3>1, WordsAppend DEF NextWords
    <3>3. Words(Append(u, t)) = Append(w, Append(x, t)) /\ Append(x, t) \in Texts
      BY <3>2, ProlongedAppend
    <3>4. QED BY <2>1, <3>3
  <2>5. QED BY <2>2, <2>3, <2>4
<1> HIDE DEF P
<1>3. \A u \in Texts : u \in P
  BY <1>0, <1>1, <1>2, SeqSetInduction
<1>4. QED BY <1>3 DEF P

\* Whether texts can be joined without joining words.
Joinable(a, b) == Closed(a) \/ b = << >> \/ b[1] \in Blanks

LEMMA JoinableFirst ==
    ASSUME NEW a \in Texts, NEW b \in Texts, NEW t \in STRING, Joinable(a, Append(b, t))
    PROVE  Joinable(a, b) /\ (b = << >> /\ t \notin Blanks => Closed(a))
<1>1. Extends(Append(b, t), b, t, STRING)
  BY Extended DEF Texts
<1>2. b # << >> => 1 \in 1..Len(b)
  <2>1. b \in Seq(STRING) /\ Len(b) \in Nat
    BY LenProperties DEF Texts
  <2>2. QED BY <2>1, EmptySeq
<1>3. b # << >> => Append(b, t)[1] = b[1]
  BY <1>1, <1>2 DEF Extends
<1>4. b = << >> => Append(b, t)[1] = t
  <2>1. b = << >> => Len(b) = 0
    OBVIOUS
  <2>2. QED BY <1>1, <2>1 DEF Extends
<1>5. Append(b, t) # << >>
  BY <1>1 DEF Extends
<1>6. QED BY <1>3, <1>4, <1>5 DEF Joinable

LEMMA LastOfConcat ==
    ASSUME NEW S, NEW a \in Seq(S), NEW b \in Seq(S), b # << >>
    PROVE  a \o b # << >> /\ (a \o b)[Len(a \o b)] = b[Len(b)]
<1>1. Len(b) \in Nat /\ Len(b) # 0 /\ Len(a) \in Nat
  BY EmptySeq, LenProperties
<1>2. Len(a \o b) = Len(a) + Len(b) /\ (a \o b)[Len(a) + Len(b)] = b[(Len(a) + Len(b)) - Len(a)]
  <2>1. /\ Len(a \o b) = Len(a) + Len(b)
        /\ \A i \in 1..Len(a) + Len(b) : (a \o b)[i] = IF i <= Len(a) THEN a[i] ELSE b[i - Len(a)]
    BY ConcatProperties
  <2>2. Len(a) + Len(b) \in 1..Len(a) + Len(b) /\ ~(Len(a) + Len(b) <= Len(a))
    BY <1>1
  <2>3. QED BY <2>1, <2>2
<1>3. (Len(a) + Len(b)) - Len(a) = Len(b) /\ Len(a) + Len(b) # 0
  BY <1>1
<1>4. QED BY <1>2, <1>3

ConcatAppends(a, b, e) == a \o Append(b, e) = Append(a \o b, e)

LEMMA ConcatIsAppended ==
    ASSUME NEW S, NEW a \in Seq(S), NEW b \in Seq(S), NEW e \in S
    PROVE  ConcatAppends(a, b, e)
BY ConcatAppend DEF ConcatAppends

LEMMA WordsConcat ==
    ASSUME NEW a \in Texts, NEW b \in Texts, Joinable(a, b)
    PROVE  Words(a \o b) = Words(a) \o Words(b)
<1> DEFINE Q(u) == Joinable(a, u) => Words(a \o u) = Words(a) \o Words(u)
           P == {u \in Texts : Q(u)}
<1>0. Texts = Seq(STRING)
  BY DEF Texts
<1>w. Words(a) \in Seq(Texts)
  BY WordsType
<1>1. << >> \in P
  <2>1. a \o << >> = a /\ Words(a) \o << >> = Words(a)
    BY <1>0, <1>w, ConcatEmptySeq
  <2>2. Words(a \o << >>) = Words(a) \o Words(<< >>)
    BY <2>1, WordsEmpty
  <2>3. << >> \in Texts
    BY <1>0
  <2>4. QED BY <2>2, <2>3
<1>2. ASSUME NEW u \in Texts, NEW t \in STRING, u \in P PROVE Append(u, t) \in P
  <2> DEFINE v == Append(u, t)
             c == a \o u
  <2>1. v \in Texts
    BY <1>0, AppendProperties
  <2>2. SUFFICES ASSUME Joinable(a, v) PROVE Words(a \o v) = Words(a) \o Words(v)
    BY <2>1
  <2>3. a \o v = Append(c, t) /\ c \in Texts
    <3>1. a \in Seq(STRING) /\ u \in Seq(STRING)
      BY <1>0, <1>2
    <3>2. a \o Append(u, t) = Append(a \o u, t)
      <4>1. ConcatAppends(a, u, t)
        BY <3>1, ConcatIsAppended
      <4>2. QED BY ONLY <4>1 DEF ConcatAppends
    <3>3. a \o u \in Seq(STRING)
      BY ONLY <3>1, ConcatProperties
    <3>4. QED BY <1>0, <3>2, <3>3
  <2>4. Words(c) = Words(a) \o Words(u)
    BY <1>2, <2>2, JoinableFirst
  <2>5. Words(u) \in Seq(Texts) /\ Words(c) \in Seq(Texts)
    BY <2>3, WordsType
  <2>6. t \notin Blanks => (Closed(c) <=> Closed(u))
    <3>1. CASE u = << >>
      <4>1. c = a
        BY <1>0, <3>1, ConcatEmptySeq
      <4>2. QED BY <2>2, <3>1, <4>1, JoinableFirst DEF Closed
    <3>2. CASE u # << >>
      <4>1. c # << >> /\ c[Len(c)] = u[Len(u)]
        BY <1>0, <3>2, LastOfConcat
      <4>2. QED BY <3>2, <4>1 DEF Closed
    <3>3. QED BY <3>1, <3>2
  <2> HIDE DEF v, c
  <2>7. CASE t \in Blanks
    <3>1. Words(Append(c, t)) = Words(c)
      BY <2>3, <2>7, WordsBlank
    <3>2. Words(v) = Words(u)
      BY <2>7, WordsBlank DEF v
    <3>3. QED BY <2>3, <2>4, <3>1, <3>2
  <2>8. CASE t \notin Blanks /\ Closed(u)
    <3>1. Words(Append(c, t)) = Append(Words(c), <<t>>) /\ Words(v) = Append(Words(u), <<t>>)
      BY <2>3, <2>6, <2>8, WordsAppend DEF NextWords, v
    <3>2. <<t>> \in Texts
      BY <1>0, OneElement
    <3> DEFINE wa == Words(a)
               wu == Words(u)
               y == <<t>>
    <3>3. wa \in Seq(Texts) /\ wu \in Seq(Texts) /\ y \in Texts
      BY <1>w, <2>5, <3>2
    <3>4. Words(c) = wa \o wu /\ Words(Append(c, t)) = Append(Words(c), y) /\ Words(v) = Append(wu, y)
      BY <2>4, <3>1
    <3> HIDE DEF wa, wu, y
    <3>5. wa \o Append(wu, y) = Append(wa \o wu, y)
      BY <3>3, ConcatAppend
    <3>6. QED BY <2>3, <3>4, <3>5 DEF wa
  <2>9. CASE t \notin Blanks /\ ~Closed(u)
    <3>1. Words(Append(c, t)) = Prolonged(Words(c), t) /\ Words(v) = Prolonged(Words(u), t)
      BY <2>3, <2>6, <2>9, WordsAppend DEF NextWords, v
    <3>2. PICK w \in Seq(Texts), x \in Texts : Words(u) = Append(w, x)
      BY <2>9, OpenHasWord
    <3>3. Words(v) = Append(w, Append(x, t)) /\ Append(x, t) \in Texts
      <4>1. Prolonged(Append(w, x), t) = Append(w, Append(x, t)) /\ Append(x, t) \in Texts
        BY <1>2, ProlongedAppend
      <4>2. QED BY <3>1, <3>2, <4>1
    <3> DEFINE y == Append(x, t)
               wa == Words(a)
               wc == wa \o w
    <3> HIDE DEF y, wa, wc
    <3>4. wa \in Seq(Texts) /\ y \in Texts
      BY <1>w, <3>3 DEF y, wa
    <3>5. wc \in Seq(Texts) /\ wa \o Append(w, x) = Append(wc, x) /\ wa \o Append(w, y) = Append(wc, y)
      BY <3>4, ConcatAppend, ConcatProperties DEF wc
    <3>6. Words(c) = Append(wc, x)
      BY <2>4, <3>2, <3>5 DEF wa
    <3>7. Prolonged(Append(wc, x), t) = Append(wc, y)
      BY <3>5, ProlongedAppend DEF y
    <3>8. QED BY <2>3, <3>1, <3>3, <3>5, <3>6, <3>7 DEF y, wa
  <2>10. QED BY <2>7, <2>8, <2>9
<1> HIDE DEF P
<1>3. \A u \in Texts : u \in P
  BY <1>0, <1>1, <1>2, SeqSetInduction
<1>4. QED BY <1>3 DEF P

-----------------------------------------------------------------------------
(* Code that has lines of its own.                                         *)

HasFence(text) == \E i \in DOMAIN text : text[i] \in Fences

\* A span of prose has words and no code, and a span of code is a block of it.
Plain(x) ==
    IF x.mutable THEN x.text # << >> /\ ~HasFence(x.text) ELSE \E f \in Fences : x.text = <<f>>

Follows(x, y) ==
    IF x.mutable THEN ~y.mutable /\ x.text[Len(x.text)] = Newline
    ELSE y.mutable /\ y.text[1] = Newline

Lined(spans) ==
    /\ \A i \in DOMAIN spans : Plain(spans[i])
    /\ \A i \in 1..Len(spans) - 1 : Follows(spans[i], spans[i + 1])

LEMMA LinedAppend ==
    ASSUME NEW spans \in Seq(SpanSet), NEW x \in SpanSet
    PROVE  Lined(Append(spans, x))
             <=> Lined(spans) /\ Plain(x) /\ (spans # << >> => Follows(spans[Len(spans)], x))
<1> DEFINE u == Append(spans, x)
           n == Len(spans)
<1>1. /\ Len(u) = n + 1 /\ n \in Nat /\ DOMAIN u = 1..n + 1 /\ DOMAIN spans = 1..n
      /\ u[n + 1] = x /\ \A i \in 1..n : u[i] = spans[i]
  BY AppendProperties, LenProperties
<1>2. spans # << >> <=> n # 0
  BY EmptySeq
<1> HIDE DEF u, n
<1>3. (\A i \in 1..n + 1 : Plain(u[i])) <=> (\A i \in 1..n : Plain(spans[i])) /\ Plain(x)
  <2>1. \A i \in 1..n + 1 : i \in 1..n \/ i = n + 1
    BY <1>1
  <2>2. n + 1 \in 1..n + 1 /\ \A i \in 1..n : i \in 1..n + 1
    BY <1>1
  <2>3. QED BY <1>1, <2>1, <2>2
<1>4. (\A i \in 1..n : Follows(u[i], u[i + 1]))
        <=> (\A i \in 1..n - 1 : Follows(spans[i], spans[i + 1])) /\ (n # 0 => Follows(spans[n], x))
  <2>1. \A i \in 1..n - 1 : i \in 1..n /\ i + 1 \in 1..n /\ u[i] = spans[i] /\ u[i + 1] = spans[i + 1]
    BY <1>1
  <2>2. n # 0 => n \in 1..n /\ u[n] = spans[n] /\ u[n + 1] = x
    BY <1>1
  <2>3. \A i \in 1..n : i \in 1..n - 1 \/ i = n
    BY <1>1
  <2>4. \A i \in 1..n : n # 0
    BY <1>1
  <2>5. QED BY <2>1, <2>2, <2>3, <2>4
<1>5. (n + 1) - 1 = n
  BY <1>1
<1>6. QED BY <1>1, <1>2, <1>3, <1>4, <1>5 DEF Lined, u, n

LEMMA LinedEmpty == Lined(<< >>)
BY DEF Lined

\* Code has lines of its own up to the n-th token, which is the last of the spans.
LinedUpTo(spans, text, n) ==
    /\ spans \in Seq(SpanSet) /\ Lined(spans)
    /\ IF n = 0 THEN spans = << >>
       ELSE /\ spans # << >>
            /\ spans[Len(spans)].text[Len(spans[Len(spans)].text)] = text[n]

LEMMA SpanOne ==
    ASSUME NEW t \in STRING, NEW m \in BOOLEAN
    PROVE  /\ Span(<<t>>, m) \in SpanSet /\ Span(<<t>>, m).mutable = m
           /\ Span(<<t>>, m).text = <<t>> /\ Span(<<t>>, m).text[1] = t
           /\ Len(Span(<<t>>, m).text) = 1 /\ DOMAIN Span(<<t>>, m).text = 1..1
BY DEF Span, SpanSet, Texts

LEMMA LinedStep ==
    ASSUME NEW text \in Texts, CodeApart(text), NEW n \in Nat, n < Len(text), NEW spans,
           LinedUpTo(spans, text, n)
    PROVE  LinedUpTo(NextSpans(spans, text[n + 1]), text, n + 1)
<1> DEFINE t == text[n + 1]
           l == spans[Len(spans)]
<1>1. t \in STRING /\ n + 1 # 0
  BY WordsPrefix
<1>2. n # 0 => (text[n] \in Fences => t = Newline) /\ (t \in Fences => text[n] = Newline)
  <2>1. Len(text) \in Nat
    BY LenProperties DEF Texts
  <2>2. n # 0 => n \in 1..Len(text) - 1
    BY <2>1
  <2>3. QED BY <2>2 DEF CodeApart
<1>3. /\ spans \in Seq(SpanSet) /\ Lined(spans) /\ (spans = << >> <=> n = 0)
      /\ spans # << >> => l.text[Len(l.text)] = text[n]
  BY DEF LinedUpTo
<1>4. spans # << >> => l \in SpanSet /\ Plain(l) /\ Last(spans) = l
  <2>1. DOMAIN spans = 1..Len(spans) /\ Len(spans) \in Nat
    BY <1>3, LenProperties
  <2>2. spans # << >> => Len(spans) \in 1..Len(spans)
    BY <1>3, <2>1, EmptySeq
  <2>3. spans # << >> => Len(spans) \in DOMAIN spans /\ l \in SpanSet
    BY <1>3, <2>1, <2>2, ElementOfSeq
  <2>4. QED BY <1>3, <2>3 DEF Lined, Last
<1> HIDE DEF t
<1>5. ASSUME NEW m \in BOOLEAN, Plain(Span(<<t>>, m)), spans # << >> => Follows(l, Span(<<t>>, m))
      PROVE  LinedUpTo(Append(spans, Span(<<t>>, m)), text, n + 1)
  <2> DEFINE x == Span(<<t>>, m)
             u == Append(spans, x)
  <2>1. x \in SpanSet /\ x.text[Len(x.text)] = t
    BY <1>1, SpanOne
  <2>p. Plain(x) /\ (spans # << >> => Follows(l, x))
    BY <1>5
  <2> HIDE DEF x
  <2>2. u \in Seq(SpanSet) /\ u # << >> /\ u[Len(u)] = x
    BY <1>3, <2>1, AppendProperties
  <2>3. Lined(u)
    BY <1>3, <2>1, <2>p, LinedAppend
  <2> HIDE DEF u
  <2>4. LinedUpTo(u, text, n + 1)
    BY <1>1, <2>1, <2>2, <2>3 DEF LinedUpTo, t
  <2>5. QED BY <2>4 DEF u, x
<1> HIDE DEF l
<1>6. CASE t \in Fences
  <2>1. Plain(Span(<<t>>, FALSE))
    BY <1>1, <1>6, SpanOne DEF Plain
  <2>2. ASSUME spans # << >> PROVE Follows(l, Span(<<t>>, FALSE))
    <3>1. text[n] = Newline /\ l.text[Len(l.text)] = Newline
      BY <1>2, <1>3, <1>6, <2>2
    <3>2. l.mutable
      <4>1. SUFFICES ASSUME ~l.mutable PROVE FALSE
        OBVIOUS
      <4>2. PICK f \in Fences : l.text = <<f>>
        BY <1>4, <2>2, <4>1 DEF Plain
      <4>3. f = Newline
        BY <3>1, <4>2
      <4>4. QED BY <4>3, TokenAssumption DEF Blanks
    <3>3. ~Span(<<t>>, FALSE).mutable
      BY <1>1, SpanOne
    <3>4. QED BY <3>1, <3>2, <3>3 DEF Follows
  <2>3. NextSpans(spans, t) = Append(spans, Span(<<t>>, FALSE))
    BY <1>6 DEF NextSpans
  <2>4. QED BY <1>5, <2>1, <2>2, <2>3 DEF t
<1>7. CASE t \notin Fences /\ ~(spans # << >> /\ Last(spans).mutable)
  <2>1. Plain(Span(<<t>>, TRUE))
    <3>1. Span(<<t>>, TRUE).mutable /\ Span(<<t>>, TRUE).text = <<t>>
      BY DEF Span
    <3>2. <<t>> # << >> /\ ~HasFence(<<t>>)
      BY <1>7 DEF HasFence
    <3> HIDE DEF t
    <3>3. QED BY <3>1, <3>2 DEF Plain
  <2>2. ASSUME spans # << >> PROVE Follows(l, Span(<<t>>, TRUE))
    <3>1. ~l.mutable
      BY <1>4, <1>7, <2>2
    <3>2. PICK f \in Fences : l.text = <<f>>
      BY <1>4, <2>2, <3>1 DEF Plain
    <3>3. t = Newline
      BY <1>2, <1>3, <2>2, <3>2
    <3>4. Span(<<t>>, TRUE).mutable /\ Span(<<t>>, TRUE).text[1] = t
      BY <1>1, SpanOne
    <3>5. QED BY <3>1, <3>3, <3>4 DEF Follows
  <2>3. NextSpans(spans, t) = Append(spans, Span(<<t>>, TRUE))
    BY <1>7 DEF NextSpans
  <2>4. QED BY <1>5, <2>1, <2>2, <2>3 DEF t
<1>8. CASE t \notin Fences /\ spans # << >> /\ Last(spans).mutable
  <2>1. PICK front \in Seq(SpanSet), x \in SpanSet : spans = Append(front, x)
    BY <1>3, <1>8, SequenceEmptyOrAppend
  <2>2. x = l
    <3>1. spans[Len(spans)] = x
      BY <2>1, AppendProperties
    <3>2. QED BY <3>1 DEF l
  <2>3. x.text \in Seq(STRING) /\ \E y \in SpanSet : IsLonger(spans, front, x, y, t)
    BY <1>1, <2>1, LongerSpan
  <2>4. PICK y \in SpanSet : IsLonger(spans, front, x, y, t)
    BY <2>3
  <2> DEFINE u == Append(front, y)
  <2>5. y.text = Append(x.text, t) /\ y.mutable = x.mutable /\ NextSpans(spans, t) = u
    BY <1>8, <2>4 DEF IsLonger, NextSpans
  <2>6. Lined(front) /\ Plain(x) /\ (front # << >> => Follows(front[Len(front)], x))
    BY <1>3, <2>1, LinedAppend
  <2>7. x.mutable /\ x.text # << >> /\ ~HasFence(x.text)
    BY <1>4, <1>8, <2>2, <2>6 DEF Plain
  <2>8. Extends(y.text, x.text, t, STRING)
    BY <1>1, <2>3, <2>5, Extended
  <2>9. DOMAIN x.text = 1..Len(x.text) /\ DOMAIN y.text = 1..Len(x.text) + 1 /\ Len(x.text) \in Nat \ {0}
    BY <2>3, <2>7, <2>8, LenProperties, EmptySeq DEF Extends
  <2>10. y.text[1] = x.text[1] /\ y.text # << >> /\ y.text[Len(y.text)] = t
    BY <2>8, <2>9 DEF Extends
  <2>11. ~HasFence(y.text)
    <3>1. ASSUME NEW i \in 1..Len(x.text) + 1 PROVE y.text[i] \notin Fences
      <4>1. CASE i \in 1..Len(x.text)
        BY <2>7, <2>8, <2>9, <4>1 DEF HasFence, Extends
      <4>2. CASE i = Len(x.text) + 1
        BY <1>8, <2>8, <4>2 DEF Extends
      <4>3. QED BY <2>9, <4>1, <4>2
    <3>2. QED BY <2>9, <3>1 DEF HasFence
  <2>12. Plain(y)
    BY <2>5, <2>7, <2>10, <2>11 DEF Plain
  <2>13. front # << >> => Follows(front[Len(front)], y)
    BY <2>5, <2>6, <2>10 DEF Follows
  <2>14. Lined(u)
    BY <2>6, <2>12, <2>13, LinedAppend
  <2>15. u \in Seq(SpanSet) /\ u # << >> /\ u[Len(u)] = y
    BY AppendProperties
  <2> HIDE DEF u
  <2>16. LinedUpTo(u, text, n + 1)
    BY <1>1, <2>10, <2>14, <2>15 DEF LinedUpTo, t
  <2>17. QED BY <2>5, <2>16 DEF t
<1>9. QED BY <1>6, <1>7, <1>8

LEMMA SpansLined ==
    ASSUME NEW text \in Texts, CodeApart(text), text # << >>
    PROVE  Lined(Spans(text))
<1>1. PICK f : /\ Spans(text) = f[Len(text)] /\ f[0] = << >>
               /\ \A n \in 0..Len(text) - 1 : f[n + 1] = NextSpans(f[n], text[n + 1])
  BY SpansAre
<1> DEFINE M == {n \in Nat : LinedUpTo(f[n], text, n)}
<1>2. 0 \in M
  <2>1. << >> \in Seq(SpanSet) /\ 0 \in Nat
    BY EmptySeq
  <2>2. LinedUpTo(<< >>, text, 0)
    BY ONLY <2>1, LinedEmpty DEF LinedUpTo
  <2>3. QED BY <1>1, <2>1, <2>2
<1>3. ASSUME NEW n \in Nat, n < Len(text), n \in M PROVE n + 1 \in M
  <2>1. n \in 0..Len(text) - 1
    BY <1>3, LenProperties DEF Texts
  <2>2. LinedUpTo(NextSpans(f[n], text[n + 1]), text, n + 1)
    BY <1>3, LinedStep
  <2>3. QED BY <1>1, <2>1, <2>2
<1> HIDE DEF M
<1>4. Len(text) \in M
  <2>1. text \in Seq(STRING) /\ Len(text) \in 0..Len(text)
    BY LenProperties DEF Texts
  <2>2. QED BY <1>2, <1>3, <2>1, PartsInduction
<1>5. QED BY <1>1, <1>4 DEF M, LinedUpTo

-----------------------------------------------------------------------------
(* What a pass that checks itself does to a piece of prose.                *)

\* A line end at either end of a text is still there.
Edges(a, b) ==
    /\ a # << >> /\ a[1] = Newline => b # << >> /\ b[1] = Newline
    /\ a # << >> /\ a[Len(a)] = Newline => b # << >> /\ b[Len(b)] = Newline

LEMMA KeptHead ==
    ASSUME NEW S, NEW s \in Seq(S), s # << >>, NEW places, 1 \in places
    PROVE  Kept(s, places) # << >> /\ Kept(s, places)[1] = s[1]
<1> DEFINE b == Kept(s, places)
<1>1. Len(s) \in Nat /\ 0 < Len(s)
  BY EmptySeq, LenProperties
<1>2. Kept(SubSeq(s, 1, 0), places) = << >>
  <2>1. SubSeq(s, 1, 0) = << >>
    BY <1>1, SubSeqEmpty
  <2>2. QED BY <2>1, KeptEmpty
<1>3. 0 + 1 \in DOMAIN b /\ b[0 + 1] = s[0 + 1]
  <2>1. Len(Kept(SubSeq(s, 1, 0), places)) = 0
    BY <1>2
  <2>2. 0 \in 0..Len(s)
    BY <1>1
  <2>3. QED BY <1>1, <2>1, <2>2, KeptFirst
<1>4. QED BY <1>3

LEMMA EdgesKept ==
    ASSUME NEW text \in Texts, NEW P,
           text # << >> /\ text[1] = Newline => 1 \in P,
           text # << >> /\ text[Len(text)] = Newline =>
              /\ \E k \in DOMAIN text : k \in P
              /\ \A k \in DOMAIN text :
                    k \in P /\ (\A i \in DOMAIN text : i > k => i \notin P) => text[k] = Newline
    PROVE  Edges(text, Kept(text, P))
<1> DEFINE b == Kept(text, P)
<1>1. text \in Seq(STRING) /\ b \in Seq(STRING)
  BY KeptType DEF Texts
<1>2. ASSUME text # << >>, text[1] = Newline PROVE b # << >> /\ b[1] = Newline
  BY <1>1, <1>2, KeptHead
<1>3. ASSUME text # << >>, text[Len(text)] = Newline PROVE b # << >> /\ b[Len(b)] = Newline
  <2>1. b # << >>
    <3>1. PICK k \in DOMAIN text : k \in P
      BY <1>3
    <3>2. text[k] \in {text[i] : i \in (DOMAIN text \intersect P)}
      BY <3>1
    <3>3. text[k] \in ToSet(b)
      BY <1>1, <3>2, KeptHolds
    <3>4. ToSet(<< >>) = {}
      BY DEF ToSet
    <3>5. QED BY <3>3, <3>4
  <2>2. PICK k \in DOMAIN text : /\ k \in P /\ b[Len(b)] = text[k]
                                 /\ \A i \in DOMAIN text : i > k => i \notin P
    BY <1>1, <2>1, KeptLast
  <2>3. QED BY <1>3, <2>1, <2>2
<1>4. QED BY <1>2, <1>3 DEF Edges

LEMMA LinesKept ==
    ASSUME NEW text \in Texts, NEW P, \A i \in DOMAIN text : text[i] = Newline => i \in P
    PROVE  Edges(text, Kept(text, P))
<1>1. DOMAIN text = 1..Len(text) /\ Len(text) \in Nat /\ (text # << >> => Len(text) # 0)
  BY LenProperties, EmptySeq DEF Texts
<1>2. text # << >> => 1 \in DOMAIN text /\ Len(text) \in DOMAIN text
  BY <1>1
<1>3. text # << >> /\ text[1] = Newline => 1 \in P
  BY <1>2
<1>4. ASSUME text # << >>, text[Len(text)] = Newline
      PROVE  /\ \E k \in DOMAIN text : k \in P
             /\ \A k \in DOMAIN text :
                    k \in P /\ (\A i \in DOMAIN text : i > k => i \notin P) => text[k] = Newline
  <2>1. Len(text) \in DOMAIN text /\ Len(text) \in P
    BY <1>2, <1>4
  <2>2. ASSUME NEW k \in DOMAIN text, \A i \in DOMAIN text : i > k => i \notin P PROVE k = Len(text)
    BY <1>1, <2>1, <2>2
  <2>3. QED BY <1>4, <2>1, <2>2
<1>5. QED BY <1>3, <1>4, EdgesKept

LEMMA NormaliseEdges ==
    ASSUME NEW text \in Texts
    PROVE  Edges(text, NormaliseWhitespace(text))
<1> DEFINE lines == LinesStripped(text)
           Trailing(i) == \E j \in i..Len(text) :
                             /\ \A k \in i..j : text[k] = Space
                             /\ j = Len(text) \/ text[j + 1] = Newline
           P == {i \in DOMAIN text : ~Trailing(i)}
           Q == {i \in DOMAIN lines : i < 3 \/ \E j \in i - 2..i : lines[j] # Newline}
<1>1. lines \in Texts
  BY LinesStrippedWords
<1>2. lines = Kept(text, P) /\ NormaliseWhitespace(text) = Kept(lines, Q)
  BY DEF LinesStripped, NormaliseWhitespace
<1>3. Edges(text, lines)
  <2>1. ASSUME NEW i \in DOMAIN text, text[i] = Newline PROVE i \in P
    <3>1. i \in Nat
      BY LenProperties DEF Texts
    <3>2. ASSUME NEW j \in i..Len(text), \A k \in i..j : text[k] = Space PROVE FALSE
      <4>1. i \in i..j
        BY <3>1
      <4>2. QED BY <2>1, <3>2, <4>1 DEF Space, Newline
    <3>3. QED BY <3>2
  <2> HIDE DEF P, lines
  <2>2. QED BY <1>2, <2>1, LinesKept
<1> HIDE DEF lines, P
<1>4. Edges(lines, Kept(lines, Q))
  <2>1. DOMAIN lines = 1..Len(lines) /\ Len(lines) \in Nat /\ (lines # << >> => Len(lines) # 0)
    BY <1>1, LenProperties, EmptySeq DEF Texts
  <2>2. lines # << >> => 1 \in DOMAIN lines /\ 1 \in Q
    BY <2>1
  <2>3. ASSUME lines[Len(lines)] = Newline, NEW k \in DOMAIN lines,
               \A i \in DOMAIN lines : i > k => i \notin Q
        PROVE  lines[k] = Newline
    <3>1. CASE k = Len(lines)
      BY <2>3, <3>1
    <3>2. CASE k # Len(lines)
      <4>1. k + 1 \in DOMAIN lines /\ k + 1 > k /\ k \in (k + 1) - 2..k + 1
        BY <2>1, <3>2
      <4>2. k + 1 \notin Q
        BY <2>3, <4>1
      <4>3. QED BY <4>1, <4>2
    <3>3. QED BY <3>1, <3>2
  <2> HIDE DEF Q
  <2>4. QED BY <1>1, <2>2, <2>3, EdgesKept
<1>5. QED BY <1>2, <1>3, <1>4 DEF Edges

LEMMA FilterEdges ==
    ASSUME NEW text \in Texts, NEW fillers
    PROVE  Edges(text, FilterProse(text, fillers))
<1> DEFINE Whole(i) == \A j \in {i - 1, i + 1} \intersect DOMAIN text : text[j] \in Blanks
           Stays(i) == text[i] \notin Blanks /\ ~(Whole(i) /\ text[i] \in fillers)
           Parts(i) == /\ i < Len(text) /\ Stays(i + 1)
                       /\ \E j \in 1..i - 1 : Stays(j) /\ Newline \notin {text[k] : k \in j..i}
           P == {i \in DOMAIN text :
                    text[i] = Newline \/ Stays(i) \/ (text[i] = Space /\ Parts(i))}
<1>1. FilterProse(text, fillers) = Kept(text, P)
  BY DEF FilterProse
<1>2. \A i \in DOMAIN text : text[i] = Newline => i \in P
  OBVIOUS
<1> HIDE DEF P
<1>3. QED BY <1>1, <1>2, LinesKept

-----------------------------------------------------------------------------
(* A pass that checks itself, on a piece of prose and on a whole text.      *)

Checkers == {"lossless", "filler"}

\* The words a pass may drop.
Allowed(pass, s) == IF pass = "lossless" THEN {} ELSE s.fillers

LEMMA PrunedMayBecome ==
    ASSUME NEW a \in Texts, NEW b \in Texts, NEW pass \in Checkers, NEW s,
           Pruned(Words(a), Words(b), Allowed(pass, s))
    PROVE  MayBecome(pass, a, b, s)
<1>1. Words(a) \in Seq(Texts)
  BY WordsType
<1>2. CASE pass = "lossless"
  <2>1. Pruned(Words(a), Words(b), {})
    BY <1>2 DEF Allowed
  <2>2. Words(b) = Words(a)
    BY <1>1, <2>1, PrunedNone
  <2>3. QED BY <1>2, <2>2 DEF MayBecome, SameWords
<1>3. CASE pass = "filler"
  <2>1. Pruned(Words(a), Words(b), s.fillers)
    BY <1>3 DEF Allowed
  <2>2. RemovedOnlyAllowed(a, b, s.fillers)
    BY <2>1, PrunedAllowed
  <2>3. QED BY <1>3, <2>2 DEF MayBecome
<1>4. QED BY <1>2, <1>3 DEF Checkers

LEMMA ProseKept ==
    ASSUME NEW text \in Texts, NEW pass \in Checkers, NEW s
    PROVE  LET new == RewrittenProse(pass, text, s)
           IN  /\ new \in Texts
               /\ Pruned(Words(text), Words(new), Allowed(pass, s))
               /\ Edges(text, new)
               /\ HasFence(new) => HasFence(text)
<1> DEFINE new == RewrittenProse(pass, text, s)
<1>1. pass \in Rewriters /\ Drops(pass, s) \subseteq Drops(pass, s)
  BY DEF Checkers, Rewriters
<1>2. new \in Texts /\ Alike(text, new, Drops(pass, s))
  BY <1>1, RewrittenProseIs
<1>w. Words(text) \in Seq(Texts)
  BY WordsType
<1>3. Pruned(Words(text), Words(new), Allowed(pass, s)) /\ Edges(text, new)
  <2>1. CASE pass = "lossless"
    <3>1. new = NormaliseWhitespace(text)
      BY <2>1 DEF RewrittenProse
    <3>2. Words(new) = Words(text) /\ Edges(text, new)
      BY <3>1, NormaliseWords, NormaliseEdges
    <3>3. Pruned(Words(text), Words(text), Allowed(pass, s))
      BY <1>w, PrunedSelf
    <3>4. QED BY <3>2, <3>3
  <2>2. CASE pass = "filler"
    <3>1. new = FilterProse(text, s.fillers)
      BY <2>2 DEF RewrittenProse
    <3>2. Words(new) = Sifted(Words(text), FillerWords(s.fillers)) /\ Edges(text, new)
      BY <3>1, FilterWords, FilterEdges
    <3>3. Pruned(Words(text), Sifted(Words(text), FillerWords(s.fillers)), s.fillers)
      BY <1>w, PrunedSifted
    <3>4. Allowed(pass, s) = s.fillers
      BY <2>2 DEF Allowed
    <3>5. QED BY <3>2, <3>3, <3>4
  <2>3. QED BY <2>1, <2>2 DEF Checkers
<1>4. HasFence(new) => HasFence(text)
  <2>1. ToSet(new) \subseteq ToSet(text)
    BY <1>2 DEF Alike
  <2>2. QED BY <2>1 DEF HasFence, ToSet
<1>5. QED BY <1>2, <1>3, <1>4

\* One of two texts side by side has a line end where they meet, or is empty.
Meets(a, b) == a = << >> \/ b = << >> \/ a[Len(a)] = Newline \/ b[1] = Newline

LEMMA MeetsJoinable ==
    ASSUME NEW a, NEW b, Meets(a, b)
    PROVE  Joinable(a, b)
BY DEF Meets, Joinable, Closed, Blanks

LEMMA ApartConcat ==
    ASSUME NEW a \in Texts, NEW b \in Texts, CodeApart(a), CodeApart(b), Meets(a, b)
    PROVE  CodeApart(a \o b)
<1> DEFINE c == a \o b
           n == Len(a)
           k == Len(b)
<1>1. n \in Nat /\ k \in Nat /\ (a = << >> <=> n = 0) /\ (b = << >> <=> k = 0)
  BY LenProperties, EmptySeq DEF Texts
<1>2. Len(c) = n + k /\ \A i \in 1..n + k : c[i] = IF i <= n THEN a[i] ELSE b[i - n]
  BY ConcatProperties DEF Texts
<1> DEFINE Apart(i, x, y) == (x \in Fences => y = Newline) /\ (y \in Fences => x = Newline)
<1>3. \A i \in 1..n - 1 : Apart(i, a[i], a[i + 1])
  BY DEF CodeApart
<1>4. \A i \in 1..k - 1 : Apart(i, b[i], b[i + 1])
  BY DEF CodeApart
<1>5. n # 0 /\ k # 0 => Apart(n, a[n], b[1])
  BY <1>1, TokenAssumption DEF Meets, Blanks
<1> HIDE DEF Apart, c, n, k
<1>6. ASSUME NEW i \in 1..Len(c) - 1 PROVE Apart(i, c[i], c[i + 1])
  <2>1. i \in 1..(n + k) - 1 /\ i \in 1..n + k /\ i + 1 \in 1..n + k
    BY <1>1, <1>2
  <2>2. CASE i < n
    <3>1. i \in 1..n - 1 /\ c[i] = a[i] /\ c[i + 1] = a[i + 1]
      BY <1>1, <1>2, <2>1, <2>2
    <3>2. QED BY <1>3, <3>1
  <2>3. CASE i = n
    <3>1. n # 0 /\ k # 0 /\ c[i] = a[n] /\ c[i + 1] = b[1] /\ i = n
      BY <1>1, <1>2, <2>1, <2>3
    <3>2. QED BY <1>5, <3>1
  <2>4. CASE i > n
    <3>1. i - n \in 1..k - 1 /\ c[i] = b[i - n] /\ c[i + 1] = b[(i - n) + 1]
      BY <1>1, <1>2, <2>1, <2>4
    <3>2. Apart(i - n, c[i], c[i + 1])
      BY <1>4, <3>1
    <3>3. QED BY <3>2 DEF Apart
  <2>5. QED BY <1>1, <2>1, <2>2, <2>3, <2>4
<1>7. QED BY <1>6 DEF CodeApart, Apart, c

\* A line end at the end of a text is still there.
Finishes(a, b) == a # << >> /\ a[Len(a)] = Newline => b # << >> /\ b[Len(b)] = Newline

\* What a text x and the text y a pass made of it have in common.
Carried(x, y, fillers) ==
    /\ x \in Texts /\ y \in Texts
    /\ Pruned(Words(x), Words(y), fillers)
    /\ CodeApart(y)
    /\ Finishes(x, y)

\* What a pass makes of a span of prose, and of a block of code.
CarriedSpan(a, b, fillers) ==
    /\ a \in Texts /\ b \in Texts
    /\ Pruned(Words(a), Words(b), fillers)
    /\ CodeApart(b)
    /\ a # << >> /\ Edges(a, b)

\* A span goes beside a text without a word that is part of both.
Beside(x, y, a) ==
    \/ x = << >> /\ y = << >>
    \/ x # << >> /\ x[Len(x)] = Newline
    \/ a[1] = Newline

LEMMA CarriedConcat ==
    ASSUME NEW x, NEW y, NEW a, NEW b, NEW fillers,
           Carried(x, y, fillers), CarriedSpan(a, b, fillers), Beside(x, y, a)
    PROVE  /\ Carried(x \o a, y \o b, fillers)
           /\ x \o a # << >> /\ (x \o a)[Len(x \o a)] = a[Len(a)]
<1>1. x \in Seq(STRING) /\ y \in Seq(STRING) /\ a \in Seq(STRING) /\ b \in Seq(STRING)
  BY DEF Carried, CarriedSpan, Texts
<1>2. Meets(x, a) /\ Meets(y, b)
  BY DEF Carried, CarriedSpan, Beside, Finishes, Edges, Meets
<1>3. x \o a \in Texts /\ y \o b \in Texts
  BY <1>1, TextsConcat DEF Texts
<1>4. Pruned(Words(x \o a), Words(y \o b), fillers)
  <2>1. Joinable(x, a) /\ Joinable(y, b)
    BY <1>2, MeetsJoinable
  <2>2. Words(x \o a) = Words(x) \o Words(a)
    BY <2>1, WordsConcat DEF Carried, CarriedSpan
  <2>3. Words(y \o b) = Words(y) \o Words(b)
    BY <2>1, WordsConcat DEF Carried, CarriedSpan
  <2>4. /\ Words(x) \in Seq(Texts) /\ Words(a) \in Seq(Texts)
        /\ Pruned(Words(x), Words(y), fillers) /\ Pruned(Words(a), Words(b), fillers)
    BY WordsType DEF Carried, CarriedSpan
  <2>5. Pruned(Words(x) \o Words(a), Words(y) \o Words(b), fillers)
    BY <2>4, PrunedConcat
  <2>6. QED BY <2>2, <2>3, <2>5
<1>5. CodeApart(y \o b)
  BY <1>2, ApartConcat DEF Carried, CarriedSpan
<1>6. x \o a # << >> /\ (x \o a)[Len(x \o a)] = a[Len(a)]
  BY <1>1, LastOfConcat DEF CarriedSpan
<1>7. b # << >> => y \o b # << >> /\ (y \o b)[Len(y \o b)] = b[Len(b)]
  BY <1>1, LastOfConcat
<1>8. a[Len(a)] = Newline => b # << >> /\ b[Len(b)] = Newline
  BY DEF CarriedSpan, Edges
<1>9. Finishes(x \o a, y \o b)
  BY <1>6, <1>7, <1>8 DEF Finishes
<1>10. QED BY <1>3, <1>4, <1>5, <1>6, <1>9 DEF Carried

\* What a pass makes of a span.
RewrittenSpan(pass, span, s) ==
    IF span.mutable THEN Span(RewrittenProse(pass, span.text, s), TRUE) ELSE span

LEMMA PlainKept ==
    ASSUME NEW span \in SpanSet, Plain(span), NEW pass \in Checkers, NEW s
    PROVE  /\ RewrittenSpan(pass, span, s) \in SpanSet
           /\ CarriedSpan(span.text, RewrittenSpan(pass, span, s).text, Allowed(pass, s))
<1> DEFINE a == span.text
           new == RewrittenProse(pass, a, s)
<1>1. a \in Texts /\ span.mutable \in BOOLEAN
  BY DEF SpanSet
<1>2. CASE span.mutable
  <2>1. /\ new \in Texts /\ Pruned(Words(a), Words(new), Allowed(pass, s)) /\ Edges(a, new)
        /\ HasFence(new) => HasFence(a)
    BY <1>1, ProseKept
  <2> HIDE DEF new
  <2>2. RewrittenSpan(pass, span, s) = Span(new, TRUE)
    BY <1>2 DEF RewrittenSpan, new
  <2>3. Span(new, TRUE) \in SpanSet /\ Span(new, TRUE).text = new
    BY <2>1 DEF Span, SpanSet
  <2>4. a # << >> /\ ~HasFence(new)
    BY <1>2, <2>1 DEF Plain
  <2>5. CodeApart(new)
    <3>1. DOMAIN new = 1..Len(new) /\ Len(new) \in Nat
      BY <2>1, LenProperties DEF Texts
    <3>2. \A i \in 1..Len(new) - 1 : i \in DOMAIN new /\ i + 1 \in DOMAIN new
      BY <3>1
    <3>3. QED BY <2>4, <3>2 DEF HasFence, CodeApart
  <2>6. CarriedSpan(a, new, Allowed(pass, s))
    BY <1>1, <2>1, <2>4, <2>5 DEF CarriedSpan
  <2>7. QED BY <2>2, <2>3, <2>6
<1>3. CASE ~span.mutable
  <2>1. RewrittenSpan(pass, span, s) = span
    BY <1>3 DEF RewrittenSpan
  <2>2. PICK f \in Fences : a = <<f>>
    BY <1>3 DEF Plain
  <2>3. CodeApart(a) /\ a # << >>
    BY <2>2 DEF CodeApart
  <2>4. Pruned(Words(a), Words(a), Allowed(pass, s))
    BY <1>1, WordsType, PrunedSelf
  <2>5. Edges(a, a)
    BY DEF Edges
  <2>6. CarriedSpan(a, a, Allowed(pass, s))
    BY <1>1, <2>3, <2>4, <2>5 DEF CarriedSpan
  <2>7. QED BY <2>1, <2>6
<1>4. QED BY <1>2, <1>3

LEMMA RewrittenAppend ==
    ASSUME NEW spans \in Seq(SpanSet), NEW x \in SpanSet, NEW pass, NEW s
    PROVE  RewrittenSpans(pass, Append(spans, x), s)
             = Append(RewrittenSpans(pass, spans, s), RewrittenSpan(pass, x, s))
<1> DEFINE u == Append(spans, x)
           n == Len(spans)
           v == RewrittenSpans(pass, spans, s)
           y == RewrittenSpan(pass, x, s)
<1>1. \A w : RewrittenSpans(pass, w, s) = [i \in DOMAIN w |-> RewrittenSpan(pass, w[i], s)]
  BY DEF RewrittenSpans, RewrittenSpan
<1>2. /\ n \in Nat /\ DOMAIN spans = 1..n /\ DOMAIN u = 1..n + 1
      /\ u[n + 1] = x /\ \A i \in 1..n : u[i] = spans[i]
  BY AppendProperties, LenProperties
<1> DEFINE S == {RewrittenSpan(pass, w, s) : w \in SpanSet}
<1>3. y \in S /\ \A i \in 1..n : RewrittenSpan(pass, spans[i], s) \in S
  BY <1>2, ElementOfSeq
<1> HIDE DEF S, y
<1>4. v \in Seq(S) /\ Len(v) = n /\ \A i \in 1..n : v[i] = RewrittenSpan(pass, spans[i], s)
  <2>1. v = [i \in DOMAIN spans |-> RewrittenSpan(pass, spans[i], s)]
    BY <1>1
  <2>2. v \in [DOMAIN spans -> S]
    BY <1>2, <1>3, <2>1
  <2> HIDE DEF v
  <2>3. v \in Seq(S) /\ Len(v) = Len(spans)
    BY <2>2, AsSeq
  <2>4. QED BY <1>2, <2>1, <2>3
<1> HIDE DEF v
<1>5. /\ DOMAIN Append(v, y) = 1..n + 1
      /\ Append(v, y)[n + 1] = y /\ \A i \in 1..n : Append(v, y)[i] = v[i]
      /\ Append(v, y) \in Seq(S)
  BY <1>3, <1>4, AppendProperties, LenProperties
<1>6. RewrittenSpans(pass, u, s) = [i \in 1..n + 1 |-> RewrittenSpan(pass, u[i], s)]
  BY <1>1, <1>2
<1>7. \A i \in 1..n + 1 : RewrittenSpan(pass, u[i], s) = Append(v, y)[i]
  <2>1. \A i \in 1..n + 1 : i \in 1..n \/ i = n + 1
    BY <1>2
  <2>2. QED BY <1>2, <1>4, <1>5, <2>1 DEF y
<1>8. Append(v, y) = [i \in 1..n + 1 |-> Append(v, y)[i]]
  <2> DEFINE w == Append(v, y)
  <2>1. w \in Seq(S) /\ DOMAIN w = 1..n + 1
    BY <1>5
  <2> HIDE DEF w
  <2>2. w = [i \in DOMAIN w |-> w[i]]
    BY <2>1
  <2>3. QED BY <2>1, <2>2 DEF w
<1>9. QED BY <1>6, <1>7, <1>8 DEF v, y

\* The spans of a text, and what a pass makes of them.
CarriedSpans(pass, spans, s) ==
    /\ Carried(SpansText(spans), SpansText(RewrittenSpans(pass, spans, s)), Allowed(pass, s))
    /\ RewrittenSpans(pass, spans, s) \in Seq(SpanSet)
    /\ IF spans = << >>
       THEN SpansText(spans) = << >> /\ SpansText(RewrittenSpans(pass, spans, s)) = << >>
       ELSE /\ SpansText(spans) # << >>
            /\ SpansText(spans)[Len(SpansText(spans))]
                 = spans[Len(spans)].text[Len(spans[Len(spans)].text)]

LEMMA CarriedSpansStep ==
    ASSUME NEW spans \in Seq(SpanSet), NEW e \in SpanSet, NEW pass \in Checkers, NEW s,
           Lined(Append(spans, e)), CarriedSpans(pass, spans, s)
    PROVE  CarriedSpans(pass, Append(spans, e), s)
<1> DEFINE F == Allowed(pass, s)
           new == RewrittenSpans(pass, spans, s)
           x == SpansText(spans)
           y == SpansText(new)
           f == RewrittenSpan(pass, e, s)
           l == spans[Len(spans)]
<1>1. Plain(e) /\ (spans # << >> => Follows(l, e) /\ l \in SpanSet)
  <2>1. Plain(e) /\ (spans # << >> => Follows(l, e))
    BY LinedAppend
  <2>2. spans # << >> => Len(spans) \in 1..Len(spans)
    BY LenProperties, EmptySeq
  <2>3. spans # << >> => l \in SpanSet
    BY <2>2, LenProperties, ElementOfSeq
  <2>4. QED BY <2>1, <2>3
<1>2. f \in SpanSet /\ CarriedSpan(e.text, f.text, F)
  BY <1>1, PlainKept
<1>3. new \in Seq(SpanSet) /\ Carried(x, y, F)
  BY DEF CarriedSpans
<1>4. Beside(x, y, e.text)
  <2>1. CASE spans = << >>
    BY <2>1 DEF CarriedSpans, Beside
  <2>2. CASE spans # << >>
    <3>1. x # << >> /\ x[Len(x)] = l.text[Len(l.text)]
      BY <2>2 DEF CarriedSpans
    <3> HIDE DEF x, l, y
    <3>2. l.text[Len(l.text)] = Newline \/ e.text[1] = Newline
      BY <1>1, <2>2 DEF Follows
    <3>3. QED BY <3>1, <3>2 DEF Beside
  <2>3. QED BY <2>1, <2>2
<1>5. SpansText(Append(spans, e)) = x \o e.text
  BY SpansTextAppend
<1>6. /\ RewrittenSpans(pass, Append(spans, e), s) = Append(new, f)
      /\ Append(new, f) \in Seq(SpanSet)
  BY <1>2, <1>3, RewrittenAppend, AppendProperties
<1> HIDE DEF new, f
<1>7. SpansText(Append(new, f)) = y \o f.text
  BY <1>2, <1>3, SpansTextAppend
<1> HIDE DEF x, y, F, l
<1>8. /\ Carried(x \o e.text, y \o f.text, F)
      /\ x \o e.text # << >> /\ (x \o e.text)[Len(x \o e.text)] = e.text[Len(e.text)]
  BY <1>2, <1>3, <1>4, CarriedConcat
<1>9. Append(spans, e) # << >> /\ Append(spans, e)[Len(Append(spans, e))] = e
  BY AppendProperties
<1>10. QED BY <1>5, <1>6, <1>7, <1>8, <1>9 DEF CarriedSpans, F

LEMMA LinedCarried ==
    ASSUME NEW spans \in Seq(SpanSet), Lined(spans), NEW pass \in Checkers, NEW s
    PROVE  CarriedSpans(pass, spans, s)
<1> DEFINE P == {u \in Seq(SpanSet) : Lined(u) => CarriedSpans(pass, u, s)}
<1>1. << >> \in P
  <2>1. << >> \in Seq(SpanSet) /\ << >> \in Texts /\ << >> \in Seq(Texts)
    BY EmptySeq DEF Texts
  <2>2. SpansText(<< >>) = << >>
    <3>1. SpanTexts(<< >>) = << >>
      BY DEF SpanTexts
    <3>2. SpansText(<< >>) = FlattenSeq(<< >>)
      BY <2>1, <3>1, SpanTextsType
    <3>3. QED BY <3>2, FlattenEmpty
  <2>3. RewrittenSpans(pass, << >>, s) = << >>
    BY DEF RewrittenSpans
  <2>4. Pruned(Words(<< >>), Words(<< >>), Allowed(pass, s))
    BY <2>1, WordsType, PrunedSelf
  <2>5. CodeApart(<< >>) /\ Finishes(<< >>, << >>)
    BY DEF CodeApart, Finishes
  <2>6. Carried(<< >>, << >>, Allowed(pass, s))
    BY <2>1, <2>4, <2>5 DEF Carried
  <2>7. CarriedSpans(pass, << >>, s)
    BY <2>1, <2>2, <2>3, <2>6 DEF CarriedSpans
  <2>8. QED BY <2>1, <2>7
<1>2. \A u \in Seq(SpanSet), e \in SpanSet : u \in P => Append(u, e) \in P
  <2>1. SUFFICES ASSUME NEW u \in Seq(SpanSet), NEW e \in SpanSet, u \in P, Lined(Append(u, e))
                 PROVE  CarriedSpans(pass, Append(u, e), s)
    BY AppendProperties
  <2>2. CarriedSpans(pass, u, s)
    BY <2>1, LinedAppend
  <2>3. QED BY <2>1, <2>2, CarriedSpansStep
<1>3. spans \in P
  <2> HIDE DEF P
  <2>1. QED BY <1>1, <1>2, SeqSetInduction
<1>4. QED BY <1>3 DEF P

\* A pass that checks itself passes on a text whose code has lines of its own,
\* and leaves a text of that kind.
LEMMA TextKept ==
    ASSUME NEW text \in Texts, CodeApart(text), NEW pass \in Checkers, NEW s
    PROVE  /\ RewrittenText(pass, text, s) \in Texts
           /\ CodeApart(RewrittenText(pass, text, s))
           /\ MayBecome(pass, text, RewrittenText(pass, text, s), s)
<1> DEFINE spans == Spans(text)
           new == RewrittenText(pass, text, s)
<1>1. spans \in Seq(SpanSet) /\ SpansText(spans) = text
  BY SpansSayText
<1>2. new = SpansText(RewrittenSpans(pass, spans, s))
  BY DEF RewrittenText
<1>3. /\ new \in Texts /\ CodeApart(new)
      /\ Pruned(Words(text), Words(new), Allowed(pass, s))
  <2>1. CASE text = << >>
    <3>1. pass \in Rewriters /\ Drops(pass, s) \subseteq Drops(pass, s)
      BY DEF Checkers, Rewriters
    <3>2. new \in Texts /\ Alike(text, new, Drops(pass, s))
      BY <3>1, RewrittenTextIs
    <3>3. new = << >>
      <4>1. ToSet(new) = {}
        BY <2>1, <3>2 DEF Alike, ToSet
      <4>2. DOMAIN new = 1..Len(new) /\ Len(new) \in Nat
        BY <3>2, LenProperties DEF Texts
      <4>3. Len(new) = 0
        <5>1. DOMAIN new = {}
          BY <4>1 DEF ToSet
        <5>2. QED BY <4>2, <5>1
      <4>4. QED BY <3>2, <4>3, EmptySeq DEF Texts
    <3>4. Pruned(Words(text), Words(text), Allowed(pass, s))
      BY WordsType, PrunedSelf
    <3>5. QED BY <2>1, <3>2, <3>3, <3>4
  <2>2. CASE text # << >>
    <3>1. CarriedSpans(pass, spans, s)
      BY <1>1, <2>2, SpansLined, LinedCarried
    <3>2. QED BY <1>1, <1>2, <3>1 DEF CarriedSpans, Carried
  <2>3. QED BY <2>1, <2>2
<1>4. MayBecome(pass, text, new, s)
  BY <1>3, PrunedMayBecome
<1>5. QED BY <1>3, <1>4

-----------------------------------------------------------------------------
(* No self-check fails on a request whose system prompt is of that kind.    *)

SystemApart(r) == r.system = NoSystem \/ CodeApart(r.system)

\* What a self-check looks at in a message.
MessageChecked(pass, a, b, s) ==
    /\ a.role = b.role
    /\ Len(a.spans) = Len(b.spans)
    /\ \A j \in DOMAIN a.spans :
          IF a.spans[j].mutable THEN MayBecome(pass, a.spans[j].text, b.spans[j].text, s)
          ELSE a.spans[j].text = b.spans[j].text

LEMMA MessagePasses ==
    ASSUME NEW m \in Messages, NEW s, NEW pass \in Checkers, Drops(pass, s) \subseteq Droppable(s)
    PROVE  MessageChecked(pass, m, RewrittenMessage(pass, m, s), s)
<1> DEFINE n == RewrittenMessage(pass, m, s)
<1>1. n \in Messages /\ MessageAlike(m, n, s)
  BY RewrittenMessageIs DEF Checkers, Rewriters
<1>2. m.role = n.role
  BY <1>1 DEF MessageAlike
<1>3. CASE m.raw = NoRaw
  <2> DEFINE old == m.spans
             new == RewrittenSpans(pass, old, s)
  <2>1. m.spans \in Seq(SpanSet)
    BY MessageFields
  <2>2. n.spans = new
    <3>1. n = [m EXCEPT !.spans = new]
      BY <1>3 DEF RewrittenMessage
    <3>2. m = [role |-> m.role, spans |-> m.spans, raw |-> m.raw]
      BY MessageFields
    <3> HIDE DEF new, n
    <3>3. QED BY <3>1, <3>2
  <2>3. Len(new) = Len(old)
    <3>1. Len(m.spans) = Len(n.spans)
      BY <1>1, <1>3 DEF MessageAlike, SpansAlike
    <3>2. QED BY <2>2, <3>1
  <2>4. ASSUME NEW j \in DOMAIN old
        PROVE  IF old[j].mutable THEN MayBecome(pass, old[j].text, new[j].text, s)
               ELSE old[j].text = new[j].text
    <3>1. old[j] \in SpanSet /\ old[j].text \in Texts
      <4>1. j \in 1..Len(old)
        BY <2>1, LenProperties
      <4>2. old[j] \in SpanSet
        BY <2>1, <4>1, ElementOfSeq
      <4>3. QED BY <4>2 DEF SpanSet
    <3>2. new[j] = IF old[j].mutable THEN Span(RewrittenProse(pass, old[j].text, s), TRUE)
                   ELSE old[j]
      BY DEF RewrittenSpans
    <3> DEFINE prose == RewrittenProse(pass, old[j].text, s)
    <3>3. prose \in Texts /\ Pruned(Words(old[j].text), Words(prose), Allowed(pass, s))
      BY <3>1, ProseKept
    <3> HIDE DEF prose
    <3>4. MayBecome(pass, old[j].text, prose, s)
      BY <3>1, <3>3, PrunedMayBecome
    <3>5. Span(prose, TRUE).text = prose
      BY DEF Span
    <3>6. QED BY <3>2, <3>4, <3>5 DEF prose
  <2> HIDE DEF new, n
  <2>5. QED BY <1>2, <2>2, <2>3, <2>4 DEF MessageChecked, n
<1>4. CASE m.raw # NoRaw
  <2>1. m.spans = << >>
    BY <1>4, MessageFields
  <2>2. n.raw # NoRaw
    BY <1>1, <1>4 DEF MessageAlike
  <2> HIDE DEF n
  <2>3. n.spans = << >>
    BY <1>1, <2>2, MessageFields
  <2>4. DOMAIN m.spans = {}
    BY <2>1
  <2>5. QED BY <1>2, <2>1, <2>3, <2>4 DEF MessageChecked, n
<1>5. QED BY <1>3, <1>4

LEMMA PassesItsCheck ==
    ASSUME NEW r \in Requests, SystemApart(r), NEW s, NEW pass \in Checkers,
           Drops(pass, s) \subseteq Droppable(s)
    PROVE  LET next == Rewritten(pass, r, s)
           IN  next \in Requests /\ SystemApart(next) /\ Equivalent(pass, r, next, s)
<1> DEFINE next == Rewritten(pass, r, s)
           old == r.messages
           new == [i \in DOMAIN old |-> RewrittenMessage(pass, old[i], s)]
           system == IF r.system = NoSystem THEN NoSystem ELSE RewrittenText(pass, r.system, s)
<1>1. next \in Requests /\ RequestAlike(r, next, s)
  BY RewrittenIs DEF Checkers, Rewriters
<1>2. next.system = system /\ next.messages = new
  <2>1. r = [dialect |-> r.dialect, system |-> r.system, messages |-> r.messages,
             tools |-> r.tools, breakpoint |-> r.breakpoint]
    BY RequestFields
  <2>2. next = [r EXCEPT !.messages = new, !.system = system, !.breakpoint = 0]
    BY DEF Rewritten
  <2> HIDE DEF new, system, next
  <2>3. QED BY <2>1, <2>2
<1>3. /\ (r.system = NoSystem) = (next.system = NoSystem)
      /\ r.system # NoSystem => MayBecome(pass, r.system, next.system, s)
      /\ SystemApart(next)
  <2>1. CASE r.system = NoSystem
    BY <1>2, <2>1 DEF SystemApart
  <2>2. CASE r.system # NoSystem
    <3>1. r.system \in Texts /\ CodeApart(r.system)
      BY <2>2, RequestFields DEF SystemApart
    <3>2. /\ RewrittenText(pass, r.system, s) \in Texts
          /\ CodeApart(RewrittenText(pass, r.system, s))
          /\ MayBecome(pass, r.system, RewrittenText(pass, r.system, s), s)
      BY <3>1, TextKept
    <3>3. next.system = RewrittenText(pass, r.system, s)
      BY <1>2, <2>2
    <3>4. next.system # NoSystem
      BY <3>2, <3>3, TokenAssumption
    <3>5. QED BY <2>2, <3>2, <3>3, <3>4 DEF SystemApart
  <2>3. QED BY <2>1, <2>2
<1>4. Len(old) = Len(next.messages)
  BY <1>1 DEF RequestAlike
<1>5. ASSUME NEW i \in DOMAIN old PROVE MessageChecked(pass, old[i], next.messages[i], s)
  <2>1. old[i] \in Messages
    BY RequestFields
  <2>2. next.messages[i] = RewrittenMessage(pass, old[i], s)
    BY <1>2
  <2>3. QED BY <2>1, <2>2, MessagePasses
<1> HIDE DEF next
<1>6. Equivalent(pass, r, next, s)
  BY <1>3, <1>4, <1>5 DEF Equivalent, MessageChecked
<1>7. QED BY <1>1, <1>3, <1>6 DEF next

Healthy(stats) == \A i \in DOMAIN stats : stats[i].ok # "bad"

LEMMA HealthyConcat ==
    ASSUME NEW S, NEW a \in Seq(S), NEW b \in Seq(S), Healthy(a), Healthy(b)
    PROVE  Healthy(a \o b)
<1> DEFINE c == a \o b
<1>1. /\ c \in Seq(S) /\ Len(c) = Len(a) + Len(b) /\ Len(a) \in Nat /\ Len(b) \in Nat
      /\ \A i \in 1..Len(a) + Len(b) : c[i] = IF i <= Len(a) THEN a[i] ELSE b[i - Len(a)]
      /\ DOMAIN a = 1..Len(a) /\ DOMAIN b = 1..Len(b) /\ DOMAIN c = 1..Len(c)
  BY ConcatProperties, LenProperties
<1> HIDE DEF c
<1>2. ASSUME NEW i \in DOMAIN c PROVE c[i].ok # "bad"
  <2>1. i \in 1..Len(a) + Len(b)
    BY <1>1
  <2>2. CASE i <= Len(a)
    <3>1. i \in DOMAIN a /\ c[i] = a[i]
      BY <1>1, <2>1, <2>2
    <3>2. QED BY <3>1 DEF Healthy
  <2>3. CASE ~(i <= Len(a))
    <3>1. i - Len(a) \in DOMAIN b /\ c[i] = b[i - Len(a)]
      BY <1>1, <2>1, <2>3
    <3>2. QED BY <3>1 DEF Healthy
  <2>4. QED BY <2>2, <2>3
<1>3. QED BY <1>2 DEF Healthy, c

LEMMA MeasuredHealthy ==
    ASSUME NEW name, NEW r, NEW next, NEW ok, ok # "bad", NEW s
    PROVE  Healthy(Measured(name, r, next, ok, s).stats) /\ Measured(name, r, next, ok, s).request = next
BY DEF Measured, Outcome, Stage, Healthy

LEMMA UntouchedHealthy ==
    ASSUME NEW r
    PROVE  Healthy(Untouched(r).stats) /\ Untouched(r).request = r
BY DEF Untouched, Outcome, Healthy

LEMMA CheckedHealthy ==
    ASSUME NEW r \in Requests, SystemApart(r), NEW s, NEW pass \in Checkers, InChain(pass, s)
    PROVE  Healthy(Pass(pass, r, s).stats) /\ SystemApart(Pass(pass, r, s).request)
<1> DEFINE next == Rewritten(pass, r, s)
           ok == Verdict(Equivalent(pass, r, next, s), s)
<1>1. Drops(pass, s) \subseteq Droppable(s)
  BY DEF Checkers, Drops, Droppable, InChain
<1>2. SystemApart(next) /\ Equivalent(pass, r, next, s)
  BY <1>1, PassesItsCheck
<1>3. Pass(pass, r, s) = Measured(pass, r, next, ok, s)
  BY DEF Pass, Lossless, Filler, Checked, Checkers
<1>4. ok # "bad"
  BY <1>2 DEF Verdict
<1> HIDE DEF next, ok
<1>5. QED BY <1>2, <1>3, <1>4, MeasuredHealthy

\* The passes that do not check themselves have nothing to say.
LEMMA UncheckedHealthy ==
    ASSUME NEW r \in Requests, NEW s, NEW name \in {"learned", "elision", "dedup"}
    PROVE  Healthy(Pass(name, r, s).stats)
<1>1. \A next : Healthy(Measured(name, r, next, "none", s).stats)
  BY MeasuredHealthy
<1>2. Healthy(Untouched(r).stats)
  BY UntouchedHealthy
<1>3. Pass(name, r, s) = Untouched(r) \/ \E next : Pass(name, r, s) = Measured(name, r, next, "none", s)
  <2>1. CASE name = "learned"
    <3>1. Pass(name, r, s) = Learned(r, s)
      BY <2>1 DEF Pass
    <3>2. QED BY <2>1, <3>1 DEF Learned
  <2>2. CASE name = "elision"
    <3>1. Pass(name, r, s) = Elision(r, s)
      BY <2>2 DEF Pass
    <3>2. QED BY <2>2, <3>1 DEF Elision
  <2>3. CASE name = "dedup"
    <3>1. Pass(name, r, s) = Dedup(r, s)
      BY <2>3 DEF Pass
    <3>2. QED BY <2>3, <3>1 DEF Dedup
  <2>4. QED BY <2>1, <2>2, <2>3
<1>4. QED BY <1>1, <1>2, <1>3

LEMMA ThenHealthy ==
    ASSUME NEW r \in Requests, NEW s, NEW done, Measures(r, done, s), Healthy(done.stats), NEW name,
           InChain(name, s) => /\ Measures(done.request, Pass(name, done.request, s), s)
                               /\ Healthy(Pass(name, done.request, s).stats)
    PROVE  Healthy(Then(done, name, s).stats)
<1> DEFINE o == Pass(name, done.request, s)
<1>1. CASE ~InChain(name, s)
  BY <1>1 DEF Then
<1>2. CASE InChain(name, s)
  <2>1. Then(done, name, s).stats = done.stats \o o.stats
    BY <1>2 DEF Then, Outcome
  <2>2. o.stats \in Seq(StagesOf(Sizes(s))) /\ done.stats \in Seq(StagesOf(Sizes(s))) /\ Healthy(o.stats)
    BY <1>2 DEF Measures
  <2> DEFINE x == o.stats
             y == done.stats
             S == StagesOf(Sizes(s))
  <2>3. x \in Seq(S) /\ y \in Seq(S) /\ Healthy(x) /\ Healthy(y)
    BY <2>2
  <2> HIDE DEF x, y, S
  <2>4. Healthy(y \o x)
    BY <2>3, HealthyConcat
  <2>5. QED BY <2>1, <2>4 DEF x, y
<1>3. QED BY <1>1, <1>2

LEMMA ChainHealthy ==
    ASSUME NEW r \in Requests, SystemApart(r), NEW s, Learns(s)
    PROVE  Healthy(Compressed(r, s).stats)
<1> DEFINE t0 == Untouched(r)
           t1 == Then(t0, "lossless", s)
           t2 == Then(t1, "filler", s)
           t3 == Then(t2, "learned", s)
           t4 == Then(t3, "elision", s)
<1>1. ASSUME NEW done, Keeps(r, done, s), Healthy(done.stats), SystemApart(done.request),
             NEW name \in Checkers
      PROVE  /\ Keeps(r, Then(done, name, s), s) /\ Healthy(Then(done, name, s).stats)
             /\ SystemApart(Then(done, name, s).request)
  <2>1. done.request \in Requests /\ Measures(r, done, s)
    BY <1>1 DEF Keeps, Measures
  <2>2. Keeps(r, Then(done, name, s), s)
    BY <1>1, ThenKeeps DEF Checkers
  <2>3. ASSUME InChain(name, s)
        PROVE  /\ Measures(done.request, Pass(name, done.request, s), s)
               /\ Healthy(Pass(name, done.request, s).stats)
               /\ SystemApart(Pass(name, done.request, s).request)
    BY <1>1, <2>1, <2>3, PassIs, CheckedHealthy DEF Checkers, Keeps
  <2>4. Healthy(Then(done, name, s).stats)
    BY <1>1, <2>1, <2>3, ThenHealthy
  <2>5. SystemApart(Then(done, name, s).request)
    BY <1>1, <2>3 DEF Then, Outcome
  <2>6. QED BY <2>2, <2>4, <2>5
<1>2. ASSUME NEW done, Keeps(r, done, s), Healthy(done.stats), NEW name \in {"learned", "elision"}
      PROVE  Keeps(r, Then(done, name, s), s) /\ Healthy(Then(done, name, s).stats)
  <2>1. done.request \in Requests /\ Measures(r, done, s)
    BY <1>2 DEF Keeps, Measures
  <2>2. Keeps(r, Then(done, name, s), s)
    BY <1>2, ThenKeeps
  <2>3. ASSUME InChain(name, s)
        PROVE  /\ Measures(done.request, Pass(name, done.request, s), s)
               /\ Healthy(Pass(name, done.request, s).stats)
    BY <1>2, <2>1, <2>3, PassIs, UncheckedHealthy DEF Keeps
  <2>4. Healthy(Then(done, name, s).stats)
    BY <1>2, <2>1, <2>3, ThenHealthy
  <2>5. QED BY <2>2, <2>4
<1>3. Keeps(r, t0, s) /\ Healthy(t0.stats) /\ SystemApart(t0.request)
  BY UntouchedIs, UntouchedHealthy
<1> HIDE DEF t0
<1>4. Keeps(r, t1, s) /\ Healthy(t1.stats) /\ SystemApart(t1.request)
  BY <1>1, <1>3 DEF Checkers
<1> HIDE DEF t1
<1>5. Keeps(r, t2, s) /\ Healthy(t2.stats)
  BY <1>1, <1>4 DEF Checkers
<1> HIDE DEF t2
<1>6. Keeps(r, t3, s) /\ Healthy(t3.stats)
  BY <1>2, <1>5
<1> HIDE DEF t3
<1>7. Keeps(r, t4, s) /\ Healthy(t4.stats)
  BY <1>2, <1>6
<1> HIDE DEF t4
<1>8. Compressed(r, s) = Then(t4, "dedup", s)
  BY ChainIs DEF BeforeDedup, t0, t1, t2, t3, t4
<1>9. t4.request \in Requests /\ Measures(r, t4, s)
  BY <1>7 DEF Keeps, Measures
<1>10. ASSUME InChain("dedup", s)
       PROVE  /\ Measures(t4.request, Pass("dedup", t4.request, s), s)
              /\ Healthy(Pass("dedup", t4.request, s).stats)
  <2>1. Pass("dedup", t4.request, s) = Dedup(t4.request, s)
    BY DEF Pass
  <2>2. QED BY <1>9, <1>10, <2>1, DedupIs, UncheckedHealthy
<1>11. Healthy(Then(t4, "dedup", s).stats)
  BY <1>7, <1>9, <1>10, ThenHealthy
<1>12. QED BY <1>8, <1>11
=============================================================================
